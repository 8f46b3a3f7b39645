-------------------------- MODULE UcTaskBus_proofs --------------------------
(***************************************************************************)
(* Settled rows of the Delta table are final, for any number of handoffs   *)
(* and app workers, any sharing of worker ids, and statements that fail    *)
(* unnoticed; leases keep processes apart that have worker ids of their    *)
(* own and whose statements are noticed when they fail; and the table      *)
(* goes through the life cycle every task bus promises.                    *)
(***************************************************************************)
EXTENDS UcTaskBus, TLAPS

\* The columns of a row, as far as the statements alone decide what is in them.
Columns == [status : Status \cup {None}, attempt : Nat, owner : Workers \cup {None},
            lease : Nat \cup {None}, result : Status \cup {None}, created : Nat]

\* The part of the type invariant that the argument needs.
Shape ==
    /\ Stored \subseteq Tasks
    /\ table \in [Stored -> Columns]
    /\ now \in Nat
    /\ phase \in [Procs -> Phase]
    /\ local \in [Procs -> Local]

\* A settled row has no owner, so no WHERE clause on an owner matches it.
SettledIsUnowned == \A t \in Stored : table[t].status \in Settled => table[t].owner = None

\* A handoff that has still to insert its task inserts it first: its lookup may
\* have failed, but nobody else submits under its task id.
InsertIsFirst ==
    \A h \in Handoffs :
        /\ phase[h] \in {"new", "inserting"} => Request[h] \notin Stored
        /\ phase[h] = "inserting" => Task(h) = Request[h]

UcInv == Shape /\ SettledIsUnowned /\ InsertIsFirst

\* What a statement may make of one row: nothing, or something of an unsettled
\* row, which then has no owner if it is settled.
RowStep(t) ==
    \/ table'[t] = table[t]
    \/ /\ table[t].status \notin Settled
       /\ table'[t].status \in Settled => table'[t].owner = None

\* What an UPDATE or a SELECT may make of the table.
Updates == /\ Stored' = Stored
           /\ table' \in [Stored -> Columns]
           /\ \A t \in Stored : RowStep(t)

\* An UPDATE whose WHERE clause matches no settled row and that leaves a row it
\* settles without an owner.
LEMMA UpdateIsRowStep ==
    ASSUME Shape, NEW p \in Procs, NEW matches \in BOOLEAN, NEW new,
           UpdateRow(p, matches, new),
           Task(p) \in Stored /\ matches =>
               /\ table[Task(p)].status \notin Settled
               /\ new \in Columns
               /\ new.status \in Settled => new.owner = None
    PROVE  Updates
<1>1. CASE table' = table
  BY <1>1 DEF Shape, Updates, RowStep, Stored
<1>2. CASE /\ Task(p) \in Stored /\ matches
           /\ table' = [table EXCEPT ![Task(p)] = new]
  <2>1. Stored' = Stored
    BY <1>2 DEF Stored
  <2>2. \A t \in Stored : table'[t] = IF t = Task(p) THEN new ELSE table[t]
    BY <1>2 DEF Shape, Stored
  <2>3. table' \in [Stored -> Columns]
    BY <1>2, <2>1 DEF Shape, Stored
  <2> QED
    BY <1>2, <2>1, <2>2, <2>3 DEF Shape, Updates, RowStep
<1> QED
  BY <1>1, <1>2 DEF UpdateRow

\* A process p goes on, and not to the first two statements of submit().
Moves(p) == /\ phase' \in [Procs -> Phase]
            /\ local' \in [Procs -> Local]
            /\ \A q \in Procs \ {p} : phase'[q] = phase[q] /\ local'[q] = local[q]
            /\ phase'[p] \notin {"new", "inserting"}

\* Going on with what is remembered, and with something else of its type.
LEMMA Going ==
    ASSUME Shape, NEW p \in Procs, NEW ph \in Phase \ {"new", "inserting"}, GoTo(p, ph),
           \/ local' = local
           \/ \E r \in Local : local' = [local EXCEPT ![p] = r]
    PROVE  Moves(p)
<1>1. phase' \in [Procs -> Phase] /\ phase'[p] = ph /\ \A q \in Procs \ {p} : phase'[q] = phase[q]
  BY DEF GoTo, Shape
<1>2. local' \in [Procs -> Local] /\ \A q \in Procs \ {p} : local'[q] = local[q]
  BY DEF Shape
<1> QED
  BY <1>1, <1>2 DEF Moves

LEMMA Ids ==
    ASSUME UcAssumption, NEW p \in Procs
    PROVE  Me(p) \in Workers /\ None \notin Workers
  BY DEF UcAssumption, Me

LEMMA Remembered ==
    ASSUME Shape, NEW p \in Procs
    PROVE  /\ local[p] \in Local
           /\ local[p].lease \in Nat /\ local[p].attempt \in Nat
           /\ local[p].outcome \in Status \cup {None}
           /\ local[p].task \in Tasks \cup {None}
  BY DEF Shape, Local

LEMMA Remembering ==
    ASSUME Shape, UcAssumption, NEW p \in Procs
    PROVE  /\ NoLocal \in Local
           /\ \A t \in Tasks \cup {None} : [NoLocal EXCEPT !.task = t, !.current = now,
                                               !.lease = now + LeaseSeconds] \in Local
           /\ \A s \in Status : [local[p] EXCEPT !.outcome = s] \in Local
           /\ \A n \in Nat : [local[p] EXCEPT !.attempt = n] \in Local
<1>1. NoLocal \in Local
  BY DEF Local, NoLocal
<1>2. now \in Nat /\ now + LeaseSeconds \in Nat
  BY DEF Shape, UcAssumption
<1>3. \A t \in Tasks \cup {None} : [NoLocal EXCEPT !.task = t, !.current = now,
                                       !.lease = now + LeaseSeconds] \in Local
  BY <1>2 DEF Local, NoLocal
<1>4. local[p] \in Local
  BY DEF Shape
<1> QED
  BY <1>1, <1>3, <1>4 DEF Local

LEMMA Returning ==
    ASSUME Shape, UcAssumption, NEW p \in Procs, RunReturns(p)
    PROVE  Moves(p)
<1>1. {"reading", "polling"} \subseteq Phase \ {"new", "inserting"}
  BY DEF Phase
<1> QED
  BY <1>1, Going, Remembering DEF RunReturns

LEMMA NoUpdate == ASSUME Shape, table' = table PROVE Updates
  BY DEF Shape, Updates, RowStep, Stored

\* No process has a settled row: what it owns is not settled.
LEMMA OwnedIsUnsettled ==
    ASSUME UcInv, UcAssumption, NEW p \in Procs, Task(p) \in Stored,
           table[Task(p)].owner = Me(p)
    PROVE  table[Task(p)].status \notin Settled
  BY Ids DEF UcInv, SettledIsUnowned

LEMMA ClaimSteps ==
    ASSUME UcInv, UcAssumption, NEW p \in Procs, ClaimStep(p)
    PROVE  Moves(p) /\ Updates
<1> USE DEF UcInv
<1>p. {"verifying", "counting", "claimed"} \subseteq Phase \ {"new", "inserting"}
  BY DEF Phase
<1>1. CASE LeaseRow(p)
  <2>1. Moves(p)
    BY <1>1, <1>p, Going DEF LeaseRow
  <2> DEFINE row == [table[Task(p)] EXCEPT !.status = "claimed", !.owner = Me(p),
                                            !.lease = local[p].lease]
             free == Claimable(Task(p), local[p].current)
  <2>2. ASSUME Task(p) \in Stored, free
        PROVE  table[Task(p)].status \notin Settled /\ row \in Columns /\ row.status \notin Settled
    <3>1. table[Task(p)] \in Columns
      BY <2>2 DEF Shape
    <3>2. row \in Columns /\ row.status = "claimed"
      <4>1. "claimed" \in Status \cup {None} /\ Me(p) \in Workers \cup {None}
            /\ local[p].lease \in Nat \cup {None}
        BY Ids, Remembered DEF Status, Leased
      <4> QED BY <3>1, <4>1 DEF Columns
    <3> QED
      BY <2>2, <3>2 DEF Claimable, Settled, Leased
  <2>3. free \in BOOLEAN
    BY DEF Claimable
  <2>4. UpdateRow(p, free, row)
    BY <1>1 DEF LeaseRow
  <2>5. Updates
    <3> HIDE DEF row, free
    <3> QED BY <2>2, <2>3, <2>4, UpdateIsRowStep
  <2> QED
    BY <2>1, <2>5
<1>2. CASE VerifyLease(p)
  <2>1. Updates
    BY <1>2, NoUpdate DEF VerifyLease
  <2>2. CASE RunReturns(p)
    BY <2>1, <2>2, Returning
  <2>3. CASE /\ OwnsRow(p)
             /\ local' = [local EXCEPT ![p].attempt = table[Task(p)].attempt + 1]
             /\ GoTo(p, "counting")
    <3>1. table[Task(p)].attempt + 1 \in Nat
      BY <2>3 DEF OwnsRow, Found, Shape, Columns
    <3>2. [local[p] EXCEPT !.attempt = table[Task(p)].attempt + 1] \in Local
      BY <3>1, Remembering
    <3>3. local' = [local EXCEPT ![p] = [local[p] EXCEPT !.attempt = table[Task(p)].attempt + 1]]
      BY <2>3 DEF Shape
    <3> QED
      BY <2>1, <2>3, <3>2, <3>3, <1>p, Going
  <2> QED
    BY <1>2, <2>2, <2>3 DEF VerifyLease
<1>3. CASE CountAttempt(p)
  <2>1. Moves(p)
    BY <1>3, <1>p, Going DEF CountAttempt
  <2> DEFINE row == [table[Task(p)] EXCEPT !.attempt = local[p].attempt]
             mine == table[Task(p)].owner = Me(p)
  <2>2. ASSUME Task(p) \in Stored, mine
        PROVE  table[Task(p)].status \notin Settled /\ row \in Columns /\ row.status \notin Settled
    <3>1. table[Task(p)] \in Columns
      BY <2>2 DEF Shape
    <3>2. row \in Columns /\ row.status = table[Task(p)].status
      BY <3>1, Remembered DEF Columns
    <3> QED
      BY <2>2, <3>2, OwnedIsUnsettled
  <2>3. mine \in BOOLEAN
    OBVIOUS
  <2>4. UpdateRow(p, mine, row)
    BY <1>3 DEF CountAttempt
  <2>5. Updates
    <3> HIDE DEF row, mine
    <3> QED BY <2>2, <2>3, <2>4, UpdateIsRowStep
  <2> QED
    BY <2>1, <2>5
<1> QED
  BY <1>1, <1>2, <1>3 DEF ClaimStep

LEMMA RunSteps ==
    ASSUME UcInv, UcAssumption, NEW p \in Procs, RunStep(p)
    PROVE  Moves(p) /\ Updates
<1> USE DEF UcInv
<1>p. {"completing", "confirming", "executing", "raised", "failing"}
        \subseteq Phase \ {"new", "inserting"}
  BY DEF Phase
<1>o. ASSUME NEW s \in Status, local' = [local EXCEPT ![p].outcome = s]
      PROVE  \E r \in Local : local' = [local EXCEPT ![p] = r]
  <2>1. [local[p] EXCEPT !.outcome = s] \in Local
    BY Remembering
  <2>2. local' = [local EXCEPT ![p] = [local[p] EXCEPT !.outcome = s]]
    BY <1>o DEF Shape
  <2> QED
    BY <2>1, <2>2
<1>1. CASE Deny(p)
  <2>1. "rejected" \in Status
    BY DEF Status, Settled
  <2> QED
    BY <1>1, <1>o, <1>p, <2>1, Going, NoUpdate DEF Deny
<1>2. CASE MarkRunning(p)
  <2>1. Moves(p)
    BY <1>2, <1>p, Going DEF MarkRunning
  <2> DEFINE row == [table[Task(p)] EXCEPT !.status = "running"]
             mine == table[Task(p)].owner = Me(p) /\ table[Task(p)].status = "claimed"
  <2>2. ASSUME Task(p) \in Stored, mine
        PROVE  table[Task(p)].status \notin Settled /\ row \in Columns /\ row.status \notin Settled
    <3>1. table[Task(p)] \in Columns
      BY <2>2 DEF Shape
    <3>2. row \in Columns /\ row.status = "running"
      BY <3>1 DEF Columns, Status, Leased
    <3> QED
      BY <2>2, <3>2 DEF Settled
  <2>3. mine \in BOOLEAN
    OBVIOUS
  <2>4. UpdateRow(p, mine, row)
    BY <1>2 DEF MarkRunning
  <2>5. Updates
    <3> HIDE DEF row, mine
    <3> QED BY <2>2, <2>3, <2>4, UpdateIsRowStep
  <2> QED
    BY <2>1, <2>5
<1>3. CASE ConfirmRunning(p)
  BY <1>3, <1>p, Going, NoUpdate DEF ConfirmRunning
<1>4. CASE ExecutorReturns(p)
  <2>1. "succeeded" \in Status
    BY DEF Status, Settled
  <2> QED
    BY <1>4, <1>o, <1>p, <2>1, Going, NoUpdate DEF ExecutorReturns
<1> QED
  BY <1>1, <1>2, <1>3, <1>4 DEF RunStep

LEMMA SettleSteps ==
    ASSUME UcInv, UcAssumption, NEW p \in Procs, SettleStep(p)
    PROVE  Moves(p) /\ Updates
<1> USE DEF UcInv
<1>p. {"checking", "raised", "returning"} \subseteq Phase \ {"new", "inserting"}
  BY DEF Phase
<1>1. CASE CompleteRow(p)
  <2>1. Moves(p)
    BY <1>1, <1>p, Going DEF CompleteRow
  <2> DEFINE row == [table[Task(p)] EXCEPT !.status = local[p].outcome,
                                            !.result = local[p].outcome,
                                            !.owner = None, !.lease = None]
             mine == OwnsRow(p)
  <2>2. ASSUME Task(p) \in Stored, mine
        PROVE  table[Task(p)].status \notin Settled /\ row \in Columns /\ row.owner = None
    <3>1. table[Task(p)] \in Columns
      BY <2>2 DEF Shape
    <3>2. row \in Columns /\ row.owner = None
      BY <3>1, Remembered DEF Columns
    <3> QED
      BY <2>2, <3>2 DEF OwnsRow, Settled, Leased
  <2>3. mine \in BOOLEAN
    BY DEF OwnsRow, Found
  <2>4. UpdateRow(p, mine, row)
    BY <1>1 DEF CompleteRow
  <2>5. Updates
    <3> HIDE DEF row, mine
    <3> QED BY <2>2, <2>3, <2>4, UpdateIsRowStep
  <2> QED
    BY <2>1, <2>5
<1>2. CASE CheckCompleted(p)
  BY <1>2, <1>p, Going, Returning, NoUpdate DEF CheckCompleted
<1>3. CASE DecideFailure(p)
  <2>1. Updates
    BY <1>3, NoUpdate DEF DecideFailure
  <2>2. CASE GoTo(p, "raised") /\ local' = local
    BY <2>1, <2>2, <1>p, Going
  <2>3. ASSUME NEW s \in Status, GoTo(p, "returning"), local' = [local EXCEPT ![p].outcome = s]
        PROVE  Moves(p)
    <3>1. [local[p] EXCEPT !.outcome = s] \in Local
      BY Remembering
    <3>2. local' = [local EXCEPT ![p] = [local[p] EXCEPT !.outcome = s]]
      BY <2>3 DEF Shape
    <3> QED
      BY <2>3, <3>1, <3>2, <1>p, Going
  <2>4. (IF table[Task(p)].attempt >= MaxAttempts THEN "dead_letter" ELSE "pending") \in Status
    BY DEF Status, Settled
  <2> QED
    BY <1>3, <2>1, <2>2, <2>3, <2>4 DEF DecideFailure
<1>4. CASE ReturnRow(p)
  <2>1. Moves(p)
    BY <1>4, <1>p, Going, Returning DEF ReturnRow
  <2> DEFINE row == [table[Task(p)] EXCEPT !.status = local[p].outcome,
                                            !.owner = None, !.lease = None]
             mine == table[Task(p)].owner = Me(p)
  <2>2. ASSUME Task(p) \in Stored, mine
        PROVE  table[Task(p)].status \notin Settled /\ row \in Columns /\ row.owner = None
    <3>1. table[Task(p)] \in Columns
      BY <2>2 DEF Shape
    <3>2. row \in Columns /\ row.owner = None
      BY <3>1, Remembered DEF Columns
    <3> QED
      BY <2>2, <3>2, OwnedIsUnsettled
  <2>3. mine \in BOOLEAN
    OBVIOUS
  <2>4. UpdateRow(p, mine, row)
    BY <1>4 DEF ReturnRow
  <2>5. Updates
    <3> HIDE DEF row, mine
    <3> QED BY <2>2, <2>3, <2>4, UpdateIsRowStep
  <2> QED
    BY <2>1, <2>5
<1> QED
  BY <1>1, <1>2, <1>3, <1>4 DEF SettleStep

\* The steps that write no row and stand for no process in submit().
LEMMA OtherSteps ==
    ASSUME UcInv, UcAssumption, NEW p \in Procs,
           \/ p \in Handoffs /\ (BeginClaimTask(p) \/ Answer(p))
           \/ p \in AppWorkers /\ (SelectCandidate(p) \/ Restarted(p))
           \/ Interrupted(p)
    PROVE  Moves(p) /\ Updates
<1> USE DEF UcInv
<1>p. {"leasing", "answered", "polling", "raised"} \subseteq Phase \ {"new", "inserting"}
  BY DEF Phase
<1>b. ASSUME NEW t \in Tasks \cup {None}, Begins(p, t)
      PROVE  \E r \in Local : local' = [local EXCEPT ![p] = r]
  BY <1>b, Remembering DEF Begins
<1>1. CASE BeginClaimTask(p)
  <2>1. Task(p) \in Tasks \cup {None}
    BY Remembered DEF Task
  <2> QED
    BY <1>1, <1>b, <1>p, <2>1, Going, NoUpdate DEF BeginClaimTask
<1>2. CASE Answer(p)
  BY <1>2, <1>p, Going, NoUpdate DEF Answer
<1>3. CASE SelectCandidate(p)
  <2>1. PICK t \in Stored : Begins(p, t)
    BY <1>3 DEF SelectCandidate
  <2>2. t \in Tasks
    BY DEF Shape
  <2> QED
    BY <1>3, <1>b, <1>p, <2>1, <2>2, Going, NoUpdate DEF SelectCandidate
<1>4. CASE Restarted(p)
  BY <1>4, <1>p, Going, Remembering, NoUpdate DEF Restarted
<1>5. CASE Interrupted(p)
  BY <1>5, <1>p, Going, Remembering, NoUpdate DEF Interrupted
<1> QED
  BY <1>1, <1>2, <1>3, <1>4, <1>5

\* What a step does to the rows and to submit().
LEMMA Steps ==
    ASSUME UcInv, UcAssumption, Next
    PROVE  \/ Tick
           \/ \E h \in Handoffs : Lookup(h) \/ Insert(h)
           \/ UNCHANGED now /\ \E p \in Procs : Moves(p) /\ Updates
<1>1. CASE Tick
  BY <1>1
<1>2. ASSUME NEW h \in Handoffs, BeginClaimTask(h) \/ Answer(h)
      PROVE  UNCHANGED now /\ \E p \in Procs : Moves(p) /\ Updates
  BY <1>2, OtherSteps DEF Procs, BeginClaimTask, Answer
<1>3. ASSUME NEW a \in AppWorkers, SelectCandidate(a) \/ Restarted(a)
      PROVE  UNCHANGED now /\ \E p \in Procs : Moves(p) /\ Updates
  BY <1>3, OtherSteps DEF Procs, SelectCandidate, Restarted
<1>4. ASSUME NEW p \in Procs, ProcStep(p)
      PROVE  UNCHANGED now /\ Moves(p) /\ Updates
  <2>1. Moves(p) /\ Updates
    BY <1>4, ClaimSteps, RunSteps, SettleSteps, OtherSteps DEF ProcStep
  <2>2. CASE ClaimStep(p)
    BY <2>1, <2>2 DEF ClaimStep, LeaseRow, VerifyLease, CountAttempt
  <2>3. CASE RunStep(p)
    BY <2>1, <2>3 DEF RunStep, Deny, MarkRunning, ConfirmRunning, ExecutorReturns
  <2>4. CASE SettleStep(p)
    BY <2>1, <2>4 DEF SettleStep, CompleteRow, CheckCompleted, DecideFailure, ReturnRow
  <2>5. CASE Interrupted(p)
    BY <2>1, <2>5 DEF Interrupted
  <2> QED
    BY <1>4, <2>2, <2>3, <2>4, <2>5 DEF ProcStep
<1> QED
  BY <1>1, <1>2, <1>3, <1>4 DEF Next, Step, SubmitStep

LEMMA InsertKeepsRows ==
    ASSUME UcInv, UcAssumption, NEW h \in Handoffs, Insert(h)
    PROVE  /\ UcInv'
           /\ \A t \in Stored : table'[t] = table[t]
<1> USE DEF UcInv
<1>1. /\ Task(h) = Request[h] /\ Request[h] \notin Stored /\ Request[h] \in Tasks
      /\ h \in Procs
  BY DEF Insert, InsertIsFirst, UcAssumption, Procs
<1>2. Moves(h)
  BY <1>1, Going DEF Insert, Phase
<1>3. NewRow(h) \in Columns /\ NewRow(h).status \notin Settled
  BY <1>1 DEF NewRow, Columns, Status, Settled, Shape, Local
<1>4. /\ Stored' \subseteq Stored \cup {Request[h]}
      /\ table' \in [Stored' -> Columns]
      /\ \A t \in Stored : t \in Stored' /\ table'[t] = table[t]
      /\ \A t \in Stored' \ Stored : table'[t] = NewRow(h)
  <2>1. CASE table' = table
    BY <2>1 DEF Shape, Stored
  <2>2. CASE table' = [t \in Stored \cup {Task(h)} |-> IF t = Task(h) THEN NewRow(h) ELSE table[t]]
    <3>1. Stored' = Stored \cup {Request[h]}
      BY <1>1, <2>2 DEF Stored
    <3> QED
      BY <1>1, <1>3, <2>2, <3>1 DEF Shape
  <2> QED
    BY <2>1, <2>2 DEF Insert
<1>5. Shape'
  BY <1>1, <1>2, <1>4 DEF Shape, Moves, Insert
<1>6. SettledIsUnowned'
  BY <1>3, <1>4 DEF SettledIsUnowned
<1>7. InsertIsFirst'
  <2>1. ASSUME NEW g \in Handoffs, phase'[g] \in {"new", "inserting"}
        PROVE  /\ Request[g] \notin Stored'
               /\ phase'[g] = "inserting" => local'[g].task = Request[g]
    <3>1. g # h /\ g \in Procs
      BY <1>2, <2>1 DEF Moves, Procs
    <3>2. phase'[g] = phase[g] /\ local'[g] = local[g]
      BY <1>2, <3>1 DEF Moves
    <3>3. Request[g] # Request[h]
      BY <3>1 DEF UcAssumption
    <3> QED
      BY <1>4, <2>1, <3>2, <3>3 DEF InsertIsFirst, Task
  <2> QED
    BY <2>1 DEF InsertIsFirst, Task
<1> QED
  BY <1>4, <1>5, <1>6, <1>7

LEMMA StepKeepsRows ==
    ASSUME UcInv, UcAssumption, [Next]_vars
    PROVE  /\ UcInv'
           /\ \A t \in Stored : table[t].status \in Settled => table'[t] = table[t]
<1> USE DEF UcInv
<1>1. CASE UNCHANGED vars
  BY <1>1 DEF vars, Shape, SettledIsUnowned, InsertIsFirst, Stored, Task
<1>2. CASE Tick
  <2>1. now' \in Nat
    BY <1>2 DEF Tick, Shape
  <2> QED
    BY <1>2, <2>1 DEF Tick, Shape, SettledIsUnowned, InsertIsFirst, Stored, Task
<1>3. ASSUME NEW h \in Handoffs, Lookup(h)
      PROVE  /\ UcInv'
             /\ \A t \in Stored : table'[t] = table[t]
  <2>1. /\ Stored' = Stored /\ table' = table /\ now' = now /\ h \in Procs
    BY <1>3 DEF Lookup, Stored, Procs
  <2>2. CASE \E t \in Stored : local' = [local EXCEPT ![h].task = t] /\ GoTo(h, "submitted")
    <3>1. PICK t \in Stored : local' = [local EXCEPT ![h].task = t] /\ GoTo(h, "submitted")
      BY <2>2
    <3>2. [local[h] EXCEPT !.task = t] \in Local
      BY <2>1 DEF Shape, Local
    <3>3. local' = [local EXCEPT ![h] = [local[h] EXCEPT !.task = t]]
      BY <3>1 DEF Shape
    <3>4. Moves(h)
      BY <2>1, <3>1, <3>2, <3>3, Going DEF Phase
    <3>5. InsertIsFirst'
      BY <2>1, <3>4 DEF InsertIsFirst, Moves, Task, Procs
    <3> QED
      BY <2>1, <3>4, <3>5 DEF Shape, SettledIsUnowned, Moves
  <2>3. CASE /\ local' = [local EXCEPT ![h].task = Request[h], ![h].current = now]
             /\ GoTo(h, "inserting")
    <3>1. Request[h] \in Tasks /\ phase[h] = "new" /\ Request[h] \notin Stored
      BY <1>3 DEF UcAssumption, Lookup, InsertIsFirst
    <3>2. [local[h] EXCEPT !.task = Request[h], !.current = now] \in Local
      <4>1. local[h] \in Local /\ now \in Nat
        BY <2>1 DEF Shape
      <4> QED
        BY <3>1, <4>1 DEF Local
    <3>3. local' = [local EXCEPT ![h] = [local[h] EXCEPT !.task = Request[h], !.current = now]]
      BY <2>1, <2>3 DEF Shape
    <3>4. /\ local' \in [Procs -> Local] /\ local'[h].task = Request[h]
          /\ \A q \in Procs \ {h} : local'[q] = local[q]
      BY <2>1, <3>2, <3>3 DEF Shape, Local
    <3>5. /\ phase' \in [Procs -> Phase]
          /\ \A q \in Procs \ {h} : phase'[q] = phase[q]
      BY <2>1, <2>3 DEF GoTo, Shape, Phase
    <3>6. InsertIsFirst'
      BY <2>1, <3>1, <3>4, <3>5 DEF InsertIsFirst, Task, Procs
    <3> QED
      BY <2>1, <3>4, <3>5, <3>6 DEF Shape, SettledIsUnowned
  <2> QED
    BY <1>3, <2>2, <2>3 DEF Lookup
<1>4. ASSUME NEW p \in Procs, Moves(p), Updates, UNCHANGED now
      PROVE  /\ UcInv'
             /\ \A t \in Stored : table[t].status \in Settled => table'[t] = table[t]
  <2>1. Shape'
    BY <1>4 DEF Shape, Moves, Updates
  <2>2. SettledIsUnowned'
    BY <1>4 DEF SettledIsUnowned, Updates, RowStep
  <2>3. InsertIsFirst'
    BY <1>4 DEF InsertIsFirst, Updates, Moves, Task, Procs
  <2> QED
    BY <1>4, <2>1, <2>2, <2>3 DEF Updates, RowStep
<1> QED
  BY <1>1, <1>2, <1>3, <1>4, Steps, InsertKeepsRows

LEMMA InitialRows == ASSUME UcAssumption, Init PROVE UcInv
<1>1. Stored = {} /\ table \in [Stored -> Columns]
  BY DEF Init, Stored
<1>2. NoLocal \in Local /\ {"new", "polling"} \subseteq Phase
  BY DEF Local, NoLocal, Phase
<1> QED
  BY <1>1, <1>2 DEF Init, UcInv, Shape, SettledIsUnowned, InsertIsFirst, Procs

\* For any number of handoffs, app workers and processes, any worker ids, shared
\* or not, and statements that fail unnoticed: no late statement of an overtaken,
\* cancelled or restarted worker changes a settled row (tasks.py, the WHERE
\* clauses on the lease owner).
THEOREM SettledRowsStay == Spec => SettledRowsAreFinal
<1>1. Init => UcInv
  BY InitialRows, UcAssumption
<1>2. UcInv /\ [Next]_vars => UcInv'
  BY StepKeepsRows, UcAssumption
<1>3. UcInv /\ [Next]_vars =>
          [\A t \in Stored : table[t].status \in Settled => table'[t] = table[t]]_vars
  BY StepKeepsRows, UcAssumption
<1> QED
  BY <1>1, <1>2, <1>3, PTL DEF Spec, SettledRowsAreFinal

----------------------------------------------------------------------------
(* One executor per lease *)

Active == deployment.handoffs \cup deployment.apps

\* Worker ids are not shared: every correlation id has one handoff.
Unshared == \A d \in Deployments : \A p, q \in d.handoffs \cup d.apps :
                WorkerId[p] = WorkerId[q] => p = q

\* The statements before a claim's UPDATE, and those after it up to the executor.
Early == {"new", "inserting", "submitted", "leasing"}
Holding == {"verifying", "counting", "claimed", "confirming", "executing"}

\* What a process may rely on about the row it works on.  Before its UPDATE a handoff
\* owns no row; an app worker may own the row from an earlier run, but then the
\* lease is over, so the UPDATE matches.  After it, a row that is still the
\* process's own has the lease it remembers, and until that ends, the row is its own.
Held(p) ==
    /\ phase[p] \notin {"new", "polling"} => p \in Active
    /\ (p \in Handoffs /\ p \in Active /\ phase[p] \in Early) =>
           \A t \in Stored : table[t].owner # Me(p)
    /\ phase[p] = "leasing" =>
           /\ local[p].current <= now
           /\ (p \in AppWorkers /\ OwnsRow(p)) => Claimable(Task(p), local[p].current)
    /\ (phase[p] \in Holding /\ OwnsRow(p)) => table[Task(p)].lease = local[p].lease
    /\ (phase[p] = "executing" /\ local[p].lease > now) => OwnsRow(p)

LeaseInv == /\ UcInv
            /\ deployment \in Deployments /\ ~deployment.silent
            /\ \A p \in Procs : Held(p)

\* What q's statement may do to a row: take it, if it is free, or write to its own.
Takes(q, t) == /\ phase[q] = "leasing"
               /\ Claimable(t, local[q].current)
               /\ table'[t].owner = Me(q)
Handles(q, t) == /\ table[t].owner = Me(q)
                 /\ table'[t].owner \in {Me(q), None}
Writes(q) == /\ Stored' = Stored
             /\ \A t \in Stored : table'[t] = table[t] \/ Takes(q, t) \/ Handles(q, t)

LEMMA ActiveProcs ==
    ASSUME UcAssumption, deployment \in Deployments
    PROVE  /\ Active \subseteq Procs
           /\ deployment.handoffs \subseteq Handoffs /\ deployment.apps \subseteq AppWorkers
<1>1. deployment \in Deployment
  BY DEF UcAssumption
<1> QED
  BY <1>1 DEF Deployment, Active, Procs

\* Another process's statement leaves alone what a process relies on.
LEMMA OthersKeepHeld ==
    ASSUME LeaseInv, UcAssumption, Unshared, NEW q \in Procs, q \in Active, Writes(q),
           NEW p \in Procs, p # q, phase'[p] = phase[p], local'[p] = local[p],
           now' = now, deployment' = deployment
    PROVE  Held(p)'
<1>1. Held(p) /\ Held(q)
  BY DEF LeaseInv
<1>2. CASE p \notin Active
  BY <1>1, <1>2 DEF Held, Active, Early, Holding
<1>3. CASE p \in Active
  <2>1. Me(p) # Me(q) /\ Me(p) # None
    BY <1>3, Ids DEF Unshared, LeaseInv, Active, Me
  <2>2. \A t \in Stored : table'[t].owner = Me(p) => table'[t] = table[t]
    BY <2>1 DEF Writes, Takes, Handles
  <2>3. OwnsRow(p)' => OwnsRow(p) /\ table'[Task(p)] = table[Task(p)] /\ Task(p)' = Task(p)
    BY <2>2 DEF OwnsRow, Found, Task, Writes, Me
  <2>4. (p \in Handoffs /\ phase[p] \in Early) => \A t \in Stored' : table'[t].owner # Me(p)
    BY <1>1, <1>3, <2>2 DEF Held, Writes
  <2>5. ASSUME phase[p] = "executing", local[p].lease > now
        PROVE  OwnsRow(p)'
    <3>1. OwnsRow(p) /\ table[Task(p)].lease = local[p].lease
      BY <1>1, <2>5 DEF Held, Holding
    <3>2. ~Takes(q, Task(p))
      <4>1. SUFFICES ASSUME Takes(q, Task(p)) PROVE FALSE
        OBVIOUS
      <4>2. local[q].current <= now
        BY <1>1, <4>1 DEF Takes, Held
      <4>3. local[p].lease <= local[q].current
        BY <3>1, <4>1 DEF Takes, Claimable, OwnsRow, Leased
      <4> QED
        BY <2>5, <4>2, <4>3, Remembered DEF LeaseInv, UcInv, Shape, Local
    <3>3. table'[Task(p)] = table[Task(p)] /\ Task(p) \in Stored
      BY <2>1, <3>1, <3>2 DEF Writes, Handles, OwnsRow, Found
    <3> QED
      BY <3>1, <3>3 DEF OwnsRow, Found, Task, Writes, Me
  <2> QED
    BY <1>1, <1>3, <2>3, <2>4, <2>5 DEF Held, Active, Task, Claimable, Me
<1> QED
  BY <1>2, <1>3

\* Where a step of p itself leads to, if not on towards the executor.
LEMMA SelfEnds ==
    ASSUME NEW p, phase'[p] \notin Early \cup Holding,
           phase'[p] \in {"new", "polling"} \/ p \in Active'
    PROVE  Held(p)'
  BY DEF Held, Early, Holding

LEMMA SelfClaims ==
    ASSUME LeaseInv, UcAssumption, NEW p \in Procs, ClaimStep(p), deployment' = deployment
    PROVE  Held(p)' /\ Writes(p) /\ p \in Active
<1> DEFINE t == Task(p)
<1>1. /\ Held(p) /\ UcInv /\ ~deployment.silent
      /\ local \in [Procs -> Local] /\ phase \in [Procs -> Phase]
      /\ table \in [Stored -> Columns]
  BY DEF LeaseInv, UcInv, Shape
<1>2. p \in Active
  BY <1>1 DEF ClaimStep, LeaseRow, VerifyLease, CountAttempt, Held
<1>3. Active' = Active
  BY DEF Active
<1>4. CASE LeaseRow(p)
  <2> DEFINE row == [table[t] EXCEPT !.status = "claimed", !.owner = Me(p),
                                     !.lease = local[p].lease]
             free == Claimable(t, local[p].current)
  <2>1. /\ table' = IF t \in Stored /\ free THEN [table EXCEPT ![t] = row] ELSE table
        /\ phase[p] = "leasing" /\ phase'[p] = "verifying" /\ local' = local /\ now' = now
    BY <1>1, <1>4 DEF LeaseRow, UpdateRow, GoTo
  <2>2. CASE t \in Stored /\ free
    <3>1. Stored' = Stored /\ table'[t] = row /\ \A x \in Stored \ {t} : table'[x] = table[x]
      BY <1>1, <2>1, <2>2 DEF Stored
    <3>2. table[t] \in Columns
      BY <1>1, <2>2
    <3>3. row.owner = Me(p) /\ row.lease = local[p].lease
      BY <3>2 DEF Columns
    <3>4. Task(p)' = t
      BY <2>1 DEF Task
    <3>5. Writes(p)
      BY <2>1, <2>2, <3>1, <3>3 DEF Writes, Takes
    <3>6. Held(p)'
      <4> HIDE DEF row, t
      <4> QED BY <1>2, <1>3, <2>1, <3>1, <3>3, <3>4 DEF Held, Early, Holding
    <3> QED
      BY <1>2, <3>5, <3>6
  <2>3. CASE ~(t \in Stored /\ free)
    <3>1. table' = table /\ Stored' = Stored
      BY <2>1, <2>3 DEF Stored
    <3>2. ~OwnsRow(p)
      <4>1. CASE p \in Handoffs
        BY <1>1, <1>2, <2>1, <4>1 DEF Held, Early, OwnsRow, Found
      <4>2. CASE p \in AppWorkers
        BY <1>1, <2>1, <2>3, <4>2 DEF Held, OwnsRow, Found
      <4> QED
        BY <4>1, <4>2 DEF Procs
    <3>3. ~OwnsRow(p)'
      BY <2>1, <3>1, <3>2 DEF OwnsRow, Found, Task, Me
    <3>4. Held(p)'
      BY <1>2, <1>3, <2>1, <3>3 DEF Held, Early, Holding
    <3> QED
      BY <1>2, <3>1, <3>4 DEF Writes
  <2> QED
    BY <2>2, <2>3
<1>5. CASE VerifyLease(p)
  <2>1. table' = table /\ Stored' = Stored /\ Writes(p) /\ now' = now
    BY <1>5 DEF VerifyLease, Stored, Writes
  <2>2. CASE RunReturns(p)
    <3>1. phase'[p] \in {"reading", "polling"}
      BY <1>1, <2>2 DEF RunReturns, GoTo
    <3> QED
      BY <1>1, <1>2, <1>3, <2>1, <3>1, SelfEnds DEF Early, Holding
  <2>3. CASE /\ OwnsRow(p)
             /\ local' = [local EXCEPT ![p].attempt = table[Task(p)].attempt + 1]
             /\ GoTo(p, "counting")
    <3>1. phase[p] = "verifying" /\ phase'[p] = "counting"
      BY <1>1, <1>5, <2>3 DEF VerifyLease, GoTo
    <3>2. local'[p].task = local[p].task /\ local'[p].lease = local[p].lease
      BY <1>1, <2>3 DEF Local
    <3>3. OwnsRow(p)' => (table[Task(p)].lease = local[p].lease)'
      BY <1>1, <2>1, <3>1, <3>2 DEF Held, Holding, OwnsRow, Found, Task, Me
    <3> QED
      BY <1>2, <1>3, <2>1, <3>1, <3>3 DEF Held, Early, Holding
  <2> QED
    BY <1>5, <2>2, <2>3 DEF VerifyLease
<1>6. CASE CountAttempt(p)
  <2> DEFINE row == [table[t] EXCEPT !.attempt = local[p].attempt]
             mine == table[t].owner = Me(p)
  <2>1. /\ table' = IF t \in Stored /\ mine THEN [table EXCEPT ![t] = row] ELSE table
        /\ phase[p] = "counting" /\ phase'[p] = "claimed" /\ local' = local /\ now' = now
    BY <1>1, <1>6 DEF CountAttempt, UpdateRow, GoTo
  <2>2. t \in Stored =>
           row.owner = table[t].owner /\ row.lease = table[t].lease /\ row.status = table[t].status
    BY <1>1 DEF Columns
  <2>3. /\ Stored' = Stored /\ \A x \in Stored \ {t} : table'[x] = table[x]
        /\ t \in Stored => /\ table'[t].owner = table[t].owner
                           /\ table'[t].lease = table[t].lease
                           /\ table'[t].status = table[t].status
                           /\ table'[t] = table[t] \/ table[t].owner = Me(p)
    <3>1. CASE t \in Stored /\ mine
      BY <1>1, <2>1, <2>2, <3>1 DEF Stored
    <3>2. CASE ~(t \in Stored /\ mine)
      BY <2>1, <3>2 DEF Stored
    <3> QED
      BY <3>1, <3>2
  <2>4. Writes(p)
    BY <2>3 DEF Writes, Handles
  <2>5. OwnsRow(p)' => OwnsRow(p) /\ Task(p)' = t
    BY <2>1, <2>3 DEF OwnsRow, Found, Task, Me
  <2>6. (OwnsRow(p) => table[t].lease = local[p].lease)
    BY <1>1, <2>1 DEF Held, Holding
  <2>7. OwnsRow(p)' => (table[Task(p)].lease = local[p].lease)'
    BY <2>1, <2>3, <2>5, <2>6 DEF OwnsRow, Found
  <2> QED
    BY <1>2, <1>3, <2>1, <2>4, <2>7 DEF Held, Early, Holding
<1> QED
  BY <1>4, <1>5, <1>6 DEF ClaimStep

LEMMA SelfRuns ==
    ASSUME LeaseInv, UcAssumption, NEW p \in Procs, RunStep(p), deployment' = deployment
    PROVE  Held(p)' /\ Writes(p) /\ p \in Active
<1> DEFINE t == Task(p)
<1>1. /\ Held(p) /\ UcInv /\ ~deployment.silent
      /\ local \in [Procs -> Local] /\ phase \in [Procs -> Phase]
      /\ table \in [Stored -> Columns]
  BY DEF LeaseInv, UcInv, Shape
<1>2. p \in Active /\ Active' = Active
  BY <1>1 DEF RunStep, Deny, MarkRunning, ConfirmRunning, ExecutorReturns, Held, Active
<1>3. CASE Deny(p) \/ ExecutorReturns(p)
  <2>1. phase'[p] \in {"completing", "failing"} /\ Writes(p)
    BY <1>1, <1>3 DEF Deny, ExecutorReturns, GoTo, Writes, Stored
  <2> QED
    BY <1>2, <2>1, SelfEnds DEF Early, Holding
<1>4. CASE MarkRunning(p)
  <2> DEFINE row == [table[t] EXCEPT !.status = "running"]
             mine == table[t].owner = Me(p) /\ table[t].status = "claimed"
  <2>1. /\ table' = IF t \in Stored /\ mine THEN [table EXCEPT ![t] = row] ELSE table
        /\ phase[p] = "claimed" /\ phase'[p] = "confirming" /\ local' = local /\ now' = now
    BY <1>1, <1>4 DEF MarkRunning, UpdateRow, GoTo
  <2>2. t \in Stored => row.owner = table[t].owner /\ row.lease = table[t].lease
    BY <1>1 DEF Columns
  <2>3. /\ Stored' = Stored /\ \A x \in Stored \ {t} : table'[x] = table[x]
        /\ t \in Stored => /\ table'[t].owner = table[t].owner
                           /\ table'[t].lease = table[t].lease
                           /\ table'[t] = table[t] \/ mine
    <3>1. CASE t \in Stored /\ mine
      BY <1>1, <2>1, <2>2, <3>1 DEF Stored
    <3>2. CASE ~(t \in Stored /\ mine)
      BY <2>1, <3>2 DEF Stored
    <3> QED
      BY <3>1, <3>2
  <2>4. Writes(p)
    BY <2>3 DEF Writes, Handles
  <2>5. OwnsRow(p)' => OwnsRow(p) /\ Task(p)' = t
    BY <2>1, <2>3 DEF OwnsRow, Found, Task, Me, Leased
  <2>6. OwnsRow(p)' => (table[Task(p)].lease = local[p].lease)'
    BY <1>1, <2>1, <2>3, <2>5 DEF Held, Holding, OwnsRow, Found
  <2> QED
    BY <1>2, <2>1, <2>4, <2>6 DEF Held, Early, Holding
<1>5. CASE ConfirmRunning(p)
  <2>1. table' = table /\ Stored' = Stored /\ Writes(p) /\ now' = now /\ local' = local
    BY <1>5 DEF ConfirmRunning, Stored, Writes
  <2>2. CASE GoTo(p, "raised")
    <3>1. phase'[p] = "raised"
      BY <1>1, <2>2 DEF GoTo
    <3> QED
      BY <1>2, <2>1, <3>1, SelfEnds DEF Early, Holding
  <2>3. CASE OwnsRow(p) /\ GoTo(p, "executing")
    <3>1. phase[p] = "confirming" /\ phase'[p] = "executing"
      BY <1>1, <1>5, <2>3 DEF ConfirmRunning, GoTo
    <3>2. OwnsRow(p)' /\ (table[Task(p)].lease = local[p].lease)'
      BY <1>1, <2>1, <2>3, <3>1 DEF Held, Holding, OwnsRow, Found, Task, Me
    <3> QED
      BY <1>2, <2>1, <3>1, <3>2 DEF Held, Early, Holding
  <2> QED
    BY <1>5, <2>2, <2>3 DEF ConfirmRunning
<1> QED
  BY <1>3, <1>4, <1>5 DEF RunStep

LEMMA SelfSettles ==
    ASSUME LeaseInv, UcAssumption, NEW p \in Procs, SettleStep(p) \/ Interrupted(p),
           deployment' = deployment
    PROVE  Held(p)' /\ Writes(p) /\ p \in Active
<1> DEFINE t == Task(p)
<1>1. /\ Held(p) /\ UcInv /\ ~deployment.silent
      /\ local \in [Procs -> Local] /\ phase \in [Procs -> Phase]
      /\ table \in [Stored -> Columns]
  BY DEF LeaseInv, UcInv, Shape
<1>2. p \in Active /\ Active' = Active
  BY <1>1 DEF SettleStep, CompleteRow, CheckCompleted, DecideFailure, ReturnRow,
              Interrupted, Held, Active
<1>3. phase'[p] \notin Early \cup Holding
  BY <1>1 DEF SettleStep, CompleteRow, CheckCompleted, DecideFailure, ReturnRow,
              Interrupted, RunReturns, GoTo, Early, Holding
<1>4. Held(p)'
  BY <1>2, <1>3, SelfEnds
<1>5. ASSUME NEW row, NEW mine, mine \in BOOLEAN,
             t \in Stored /\ mine => table[t].owner = Me(p) /\ row.owner = None,
             table' = IF t \in Stored /\ mine THEN [table EXCEPT ![t] = row] ELSE table
      PROVE  Writes(p)
  <2>1. CASE t \in Stored /\ mine
    <3>1. Stored' = Stored /\ table'[t] = row /\ \A x \in Stored \ {t} : table'[x] = table[x]
      BY <1>1, <1>5, <2>1 DEF Stored
    <3> HIDE DEF t
    <3> QED
      BY <1>5, <2>1, <3>1 DEF Writes, Handles
  <2>2. CASE ~(t \in Stored /\ mine)
    BY <1>5, <2>2 DEF Writes, Stored
  <2> QED
    BY <2>1, <2>2
<1>6. CASE CompleteRow(p)
  <2> DEFINE row == [table[t] EXCEPT !.status = local[p].outcome, !.result = local[p].outcome,
                                     !.owner = None, !.lease = None]
             mine == OwnsRow(p)
  <2>1. table' = IF t \in Stored /\ mine THEN [table EXCEPT ![t] = row] ELSE table
    BY <1>1, <1>6 DEF CompleteRow, UpdateRow
  <2>2. mine \in BOOLEAN /\ (t \in Stored /\ mine => table[t].owner = Me(p) /\ row.owner = None)
    BY <1>1 DEF OwnsRow, Found, Columns
  <2>3. Writes(p)
    <3> HIDE DEF row, mine, t
    <3> QED BY <1>5, <2>1, <2>2
  <2> QED
    BY <1>2, <1>4, <2>3
<1>7. CASE ReturnRow(p)
  <2> DEFINE row == [table[t] EXCEPT !.status = local[p].outcome,
                                     !.owner = None, !.lease = None]
             mine == table[t].owner = Me(p)
  <2>1. table' = IF t \in Stored /\ mine THEN [table EXCEPT ![t] = row] ELSE table
    BY <1>1, <1>7 DEF ReturnRow, UpdateRow
  <2>2. mine \in BOOLEAN /\ (t \in Stored /\ mine => table[t].owner = Me(p) /\ row.owner = None)
    BY <1>1 DEF Columns
  <2>3. Writes(p)
    <3> HIDE DEF row, mine, t
    <3> QED BY <1>5, <2>1, <2>2
  <2> QED
    BY <1>2, <1>4, <2>3
<1>8. CASE CheckCompleted(p) \/ DecideFailure(p) \/ Interrupted(p)
  BY <1>2, <1>4, <1>8 DEF CheckCompleted, DecideFailure, Interrupted, Writes, Stored
<1> QED
  BY <1>6, <1>7, <1>8 DEF SettleStep

LEMMA SelfBegins ==
    ASSUME LeaseInv, UcAssumption, NEW p \in Procs, deployment' = deployment,
           \/ p \in Handoffs /\ (Lookup(p) \/ BeginClaimTask(p) \/ Answer(p))
           \/ p \in AppWorkers /\ (SelectCandidate(p) \/ Restarted(p))
    PROVE  Held(p)' /\ Writes(p) /\ p \in Active
<1>1. /\ Held(p) /\ UcInv /\ ~deployment.silent /\ now \in Nat
      /\ local \in [Procs -> Local] /\ phase \in [Procs -> Phase]
      /\ deployment \in Deployments
  BY DEF LeaseInv, UcInv, Shape
<1>2. p \in Active /\ Active' = Active
  BY <1>1 DEF Lookup, BeginClaimTask, Answer, SelectCandidate, Restarted, Held, Active
<1>3. table' = table /\ Stored' = Stored /\ Writes(p) /\ now' = now
  BY DEF Lookup, BeginClaimTask, Answer, SelectCandidate, Restarted, Stored, Writes
<1>4. CASE p \in Handoffs /\ Lookup(p)
  <2>1. phase[p] = "new" /\ phase'[p] \in {"inserting", "submitted"}
    BY <1>1, <1>4 DEF Lookup, GoTo
  <2> QED
    BY <1>1, <1>2, <1>3, <1>4, <2>1 DEF Held, Early, Holding, Me
<1>5. CASE p \in Handoffs /\ BeginClaimTask(p)
  <2>1. /\ phase[p] = "submitted" /\ phase'[p] = "leasing" /\ local'[p].current = now
        /\ p \notin AppWorkers
    BY <1>1, <1>5 DEF BeginClaimTask, Begins, GoTo, NoLocal, UcAssumption
  <2> QED
    BY <1>1, <1>2, <1>3, <1>5, <2>1 DEF Held, Early, Holding, Me
<1>6. CASE p \in AppWorkers /\ SelectCandidate(p)
  <2>1. PICK t \in Stored : Claimable(t, now) /\ Begins(p, t)
    BY <1>6 DEF SelectCandidate
  <2>2. /\ phase'[p] = "leasing" /\ local'[p].current = now /\ local'[p].task = t
        /\ p \notin Handoffs
    BY <1>1, <1>6, <2>1 DEF SelectCandidate, Begins, GoTo, NoLocal, UcAssumption
  <2>3. Claimable(Task(p), local[p].current)'
    BY <1>3, <2>1, <2>2 DEF Claimable, Task
  <2> QED
    BY <1>1, <1>2, <1>3, <2>2, <2>3 DEF Held, Early, Holding
<1>7. CASE Answer(p) \/ Restarted(p)
  <2>1. phase'[p] \in {"answered", "polling"}
    BY <1>1, <1>7 DEF Answer, Restarted, GoTo
  <2> QED
    BY <1>2, <1>3, <2>1, SelfEnds DEF Early, Holding
<1> QED
  BY <1>4, <1>5, <1>6, <1>7

LEMMA InsertKeepsHeld ==
    ASSUME LeaseInv, UcAssumption, NEW h \in Handoffs, Insert(h), deployment' = deployment,
           NEW p \in Procs
    PROVE  Held(p)'
<1>1. /\ Held(p) /\ UcInv /\ phase \in [Procs -> Phase] /\ h \in Procs /\ Active' = Active
      /\ table \in [Stored -> Columns]
  BY DEF LeaseInv, UcInv, Shape, Procs, Active
<1>2. local' = local /\ now' = now /\ phase[h] = "inserting" /\ phase'[h] = "submitted"
  BY <1>1 DEF Insert, GoTo
<1>3. \A t \in Stored' : \/ t \in Stored /\ table'[t] = table[t]
                         \/ table'[t].owner = None
  <2>1. CASE table' = table
    BY <2>1 DEF Stored
  <2>2. CASE table' = [t \in Stored \cup {Task(h)} |-> IF t = Task(h) THEN NewRow(h) ELSE table[t]]
    BY <2>2 DEF Stored, NewRow
  <2> QED
    BY <2>1, <2>2 DEF Insert
<1>4. \A t \in Stored : t \in Stored' /\ table'[t] = table[t]
  <2>1. Task(h) \notin Stored
    BY <1>1, <1>2 DEF UcInv, InsertIsFirst
  <2> QED
    BY <2>1 DEF Insert, Stored
<1>5. Me(p) # None
  BY Ids
<1>6. Task(p)' = Task(p)
  BY <1>2 DEF Task
<1>7. OwnsRow(p)' => OwnsRow(p) /\ table'[Task(p)] = table[Task(p)]
  BY <1>3, <1>5, <1>6 DEF OwnsRow, Found, Me
<1>8. OwnsRow(p) => OwnsRow(p)'
  BY <1>4, <1>6 DEF OwnsRow, Found, Me
<1>9. (p \in Handoffs /\ p \in Active /\ phase[p] \in Early) => \A t \in Stored' : table'[t].owner # Me(p)
  BY <1>1, <1>3, <1>5 DEF Held
<1>10. CASE p = h
  BY <1>1, <1>2, <1>9, <1>10 DEF Held, Early, Holding, Me
<1>11. CASE p # h
  <2>1. phase'[p] = phase[p]
    BY <1>1, <1>11 DEF Insert, GoTo
  <2>2. OwnsRow(p)' => (Claimable(Task(p), local[p].current) => Claimable(Task(p), local[p].current)')
    BY <1>2, <1>6, <1>7 DEF Claimable
  <2> QED
    BY <1>1, <1>2, <1>6, <1>7, <1>8, <1>9, <2>1, <2>2 DEF Held, Me
<1> QED
  BY <1>10, <1>11

LEMMA StepKeepsLeases ==
    ASSUME LeaseInv, UcAssumption, Unshared, [Next]_vars
    PROVE  LeaseInv'
<1>1. UcInv'
  BY StepKeepsRows DEF LeaseInv
<1>2. deployment' = deployment
  BY DEF Next, vars
<1>3. SUFFICES ASSUME NEW p \in Procs PROVE Held(p)'
  BY <1>1, <1>2 DEF LeaseInv
<1>4. Held(p) /\ UcInv
  BY DEF LeaseInv
<1>5. CASE UNCHANGED vars
  BY <1>4, <1>5 DEF vars, Held, Active, OwnsRow, Found, Stored, Task, Claimable, Me
<1>6. CASE Tick
  <2>1. /\ now \in Nat /\ now' = now + 1 /\ local[p].current \in Nat /\ local[p].lease \in Nat
        /\ UNCHANGED <<table, phase, local>>
    BY <1>4, <1>6 DEF Tick, UcInv, Shape, Local
  <2>2. Active' = Active /\ Stored' = Stored /\ (OwnsRow(p)' <=> OwnsRow(p)) /\ Task(p)' = Task(p)
    BY <1>2, <2>1 DEF Active, Stored, OwnsRow, Found, Task, Me
  <2> QED
    BY <1>4, <2>1, <2>2 DEF Held, Claimable, Me
<1>7. ASSUME NEW h \in Handoffs, Insert(h) PROVE Held(p)'
  BY <1>2, <1>7, InsertKeepsHeld
<1>8. ASSUME NEW q \in Procs, Held(q)' /\ Writes(q) /\ q \in Active, UNCHANGED now,
             p # q => phase'[p] = phase[p] /\ local'[p] = local[p]
      PROVE  Held(p)'
  BY <1>2, <1>8, OthersKeepHeld
<1>9. ASSUME NEW q \in Procs,
             ProcStep(q) \/ (q \in Handoffs /\ (Lookup(q) \/ BeginClaimTask(q) \/ Answer(q)))
                 \/ (q \in AppWorkers /\ (SelectCandidate(q) \/ Restarted(q)))
      PROVE  Held(p)'
  <2>1. Held(q)' /\ Writes(q) /\ q \in Active
    BY <1>2, <1>9, SelfClaims, SelfRuns, SelfSettles, SelfBegins DEF ProcStep
  <2>2. p # q => phase'[p] = phase[p] /\ local'[p] = local[p]
    <3>1. CASE q \in Handoffs /\ Lookup(q)
      BY <1>4, <3>1 DEF Lookup, GoTo, UcInv, Shape
    <3>2. CASE ~(q \in Handoffs /\ Lookup(q))
      <4>1. Moves(q)
        BY <1>4, <1>9, <3>2, ClaimSteps, RunSteps, SettleSteps, OtherSteps DEF ProcStep
      <4> QED
        BY <4>1 DEF Moves
    <3> QED
      BY <3>1, <3>2
  <2>3. UNCHANGED now
    <3>1. CASE ClaimStep(q)
      BY <3>1 DEF ClaimStep, LeaseRow, VerifyLease, CountAttempt
    <3>2. CASE RunStep(q)
      BY <3>2 DEF RunStep, Deny, MarkRunning, ConfirmRunning, ExecutorReturns
    <3>3. CASE SettleStep(q)
      BY <3>3 DEF SettleStep, CompleteRow, CheckCompleted, DecideFailure, ReturnRow
    <3> QED
      BY <1>9, <3>1, <3>2, <3>3 DEF ProcStep, Interrupted, Lookup, BeginClaimTask, Answer,
                                    SelectCandidate, Restarted
  <2> QED
    BY <1>8, <2>1, <2>2, <2>3
<1> QED
  BY <1>5, <1>6, <1>7, <1>9 DEF Next, Step, SubmitStep, Procs

LEMMA LeasesApart ==
    ASSUME LeaseInv, UcAssumption, Unshared
    PROVE  OneExecutorPerLease
<1>1. SUFFICES ASSUME NEW p \in Procs, NEW q \in Procs, p # q,
                      phase[p] = "executing", phase[q] = "executing", Task(p) = Task(q),
                      ~(local[p].lease <= now), ~(local[q].lease <= now)
               PROVE  FALSE
  BY DEF OneExecutorPerLease
<1>2. Held(p) /\ Held(q) /\ local[p].lease > now /\ local[q].lease > now
  BY <1>1, Remembered DEF LeaseInv, UcInv, Shape
<1>3. OwnsRow(p) /\ OwnsRow(q) /\ p \in Active /\ q \in Active
  BY <1>1, <1>2 DEF Held
<1>4. Me(p) = Me(q)
  BY <1>1, <1>3 DEF OwnsRow
<1> QED
  BY <1>1, <1>3, <1>4 DEF Unshared, LeaseInv, Active, Me

LEMMA InitialLeases ==
    ASSUME UcAssumption, Init, ~deployment.silent
    PROVE  LeaseInv
<1>1. UcInv /\ Stored = {}
  BY InitialRows DEF Init, Stored
<1>2. ASSUME NEW p \in Procs PROVE Held(p)
  <2>1. phase[p] \in {"new", "polling"}
    BY DEF Init
  <2> QED
    BY <1>1, <2>1 DEF Held, Holding
<1> QED
  BY <1>1, <1>2 DEF LeaseInv, Init

\* For any number of handoffs with worker ids of their own, of app workers and of
\* processes: while the lease one worker got still runs, no other worker executes
\* the same task (tasks.py: claim() and claim_task(), three statements each).
THEOREM ExecutorsAreExclusive ==
    ASSUME Unshared PROVE Spec => []OneExecutorPerLease
<1>1. Init /\ ~deployment.silent => LeaseInv
  BY InitialLeases, UcAssumption
<1>2. LeaseInv /\ [Next]_vars => LeaseInv'
  BY StepKeepsLeases, UcAssumption
<1>3. LeaseInv => OneExecutorPerLease
  BY LeasesApart, UcAssumption
<1>4. deployment.silent => OneExecutorPerLease
  BY DEF OneExecutorPerLease
<1>5. deployment.silent /\ [Next]_vars => deployment.silent'
  BY DEF Next, vars
<1> QED
  BY <1>1, <1>2, <1>3, <1>4, <1>5, PTL DEF Spec
----------------------------------------------------------------------------
(* Outcomes are earned *)

\* What the UPDATE of a statement of p makes of the row of p's task: lease it, count
\* the attempt, mark it running, complete it, or return it.
Leases(p, r, n) ==
    /\ phase[p] = "leasing" /\ Claimable(Task(p), local[p].current)
    /\ n.status = "claimed" /\ n.owner = Me(p) /\ n.result = r.result /\ n.attempt = r.attempt
    /\ n.lease = local[p].lease

Counts(p, r, n) ==
    /\ phase[p] = "counting" /\ r.owner = Me(p) /\ n.owner = r.owner
    /\ n.status = r.status /\ n.result = r.result /\ n.attempt = local[p].attempt
    /\ n.lease = r.lease

Marks(p, r, n) ==
    /\ phase[p] = "claimed" /\ r.owner = Me(p) /\ r.status = "claimed" /\ n.owner = r.owner
    /\ n.status = "running" /\ n.result = r.result /\ n.attempt = r.attempt
    /\ n.lease = r.lease

Completes(p, r, n) ==
    /\ phase[p] = "completing" /\ OwnsRow(p) /\ n.owner = None
    /\ n.status = local[p].outcome /\ n.result = local[p].outcome /\ n.attempt = r.attempt

Returns(p, r, n) ==
    /\ phase[p] = "returning" /\ r.owner = Me(p) /\ n.owner = None
    /\ n.status = local[p].outcome /\ n.result = r.result /\ n.attempt = r.attempt

Writing(p) ==
    LET r == table[Task(p)]
        n == table'[Task(p)]
    IN /\ Task(p) \in Stored /\ Stored' = Stored
       /\ \A t \in Stored \ {Task(p)} : table'[t] = table[t]
       /\ \/ Leases(p, r, n) \/ Counts(p, r, n) \/ Marks(p, r, n)
          \/ Completes(p, r, n) \/ Returns(p, r, n)

\* An UPDATE changes the row of p's task to `new`, or nothing.
LEMMA UpdateWrites ==
    ASSUME Shape, NEW p \in Procs, NEW matches \in BOOLEAN, NEW new,
           UpdateRow(p, matches, new)
    PROVE  \/ table' = table /\ (deployment.silent \/ ~(Task(p) \in Stored /\ matches))
           \/ /\ Task(p) \in Stored /\ matches /\ Stored' = Stored /\ table'[Task(p)] = new
              /\ table[Task(p)] \in Columns
              /\ \A t \in Stored \ {Task(p)} : table'[t] = table[t]
<1>1. CASE /\ Task(p) \in Stored /\ matches
           /\ table' = [table EXCEPT ![Task(p)] = new]
  BY <1>1 DEF Shape, Stored
<1>2. CASE table' = table /\ (deployment.silent \/ ~(Task(p) \in Stored /\ matches))
  BY <1>2
<1> QED
  BY <1>1, <1>2 DEF UpdateRow

LEMMA ProcWrites ==
    ASSUME Shape, NEW p \in Procs, ProcStep(p)
    PROVE  table' = table \/ Writing(p)
<1> DEFINE r == table[Task(p)]
<1> USE DEF Columns
<1>1. CASE LeaseRow(p)
  <2> DEFINE new == [r EXCEPT !.status = "claimed", !.owner = Me(p), !.lease = local[p].lease]
  <2>1. UpdateRow(p, Claimable(Task(p), local[p].current), new) /\ phase[p] = "leasing"
        /\ Claimable(Task(p), local[p].current) \in BOOLEAN
    BY <1>1 DEF LeaseRow, Claimable
  <2>2. r \in Columns => /\ new.status = "claimed" /\ new.owner = Me(p)
                         /\ new.result = r.result /\ new.attempt = r.attempt
                         /\ new.lease = local[p].lease
    OBVIOUS
  <2> HIDE DEF new
  <2> QED
    BY <2>1, <2>2, UpdateWrites DEF Writing, Leases
<1>2. CASE CountAttempt(p)
  <2> DEFINE new == [r EXCEPT !.attempt = local[p].attempt]
  <2>1. UpdateRow(p, r.owner = Me(p), new) /\ phase[p] = "counting"
    BY <1>2 DEF CountAttempt
  <2>2. r \in Columns => /\ new.status = r.status /\ new.owner = r.owner
                         /\ new.result = r.result /\ new.attempt = local[p].attempt
                         /\ new.lease = r.lease
    OBVIOUS
  <2> HIDE DEF new
  <2> QED
    BY <2>1, <2>2, UpdateWrites DEF Writing, Counts
<1>3. CASE MarkRunning(p)
  <2> DEFINE new == [r EXCEPT !.status = "running"]
  <2>1. UpdateRow(p, r.owner = Me(p) /\ r.status = "claimed", new) /\ phase[p] = "claimed"
    BY <1>3 DEF MarkRunning
  <2>2. r \in Columns => /\ new.status = "running" /\ new.owner = r.owner
                         /\ new.result = r.result /\ new.attempt = r.attempt
                         /\ new.lease = r.lease
    OBVIOUS
  <2> HIDE DEF new
  <2> QED
    BY <2>1, <2>2, UpdateWrites DEF Writing, Marks
<1>4. CASE CompleteRow(p)
  <2> DEFINE new == [r EXCEPT !.status = local[p].outcome, !.result = local[p].outcome,
                              !.owner = None, !.lease = None]
  <2>1. UpdateRow(p, OwnsRow(p), new) /\ phase[p] = "completing" /\ OwnsRow(p) \in BOOLEAN
    BY <1>4 DEF CompleteRow, OwnsRow, Found
  <2>2. r \in Columns => /\ new.status = local[p].outcome /\ new.owner = None
                         /\ new.result = local[p].outcome /\ new.attempt = r.attempt
    OBVIOUS
  <2> HIDE DEF new
  <2> QED
    BY <2>1, <2>2, UpdateWrites DEF Writing, Completes
<1>5. CASE ReturnRow(p)
  <2> DEFINE new == [r EXCEPT !.status = local[p].outcome, !.owner = None, !.lease = None]
  <2>1. UpdateRow(p, r.owner = Me(p), new) /\ phase[p] = "returning"
    BY <1>5 DEF ReturnRow
  <2>2. r \in Columns => /\ new.status = local[p].outcome /\ new.owner = None
                         /\ new.result = r.result /\ new.attempt = r.attempt
    OBVIOUS
  <2> HIDE DEF new
  <2> QED
    BY <2>1, <2>2, UpdateWrites DEF Writing, Returns
<1>6. CASE VerifyLease(p) \/ Deny(p) \/ ConfirmRunning(p) \/ ExecutorReturns(p)
            \/ CheckCompleted(p) \/ DecideFailure(p) \/ Interrupted(p)
  BY <1>6 DEF VerifyLease, Deny, ConfirmRunning, ExecutorReturns, CheckCompleted,
              DecideFailure, Interrupted
<1> QED
  BY <1>1, <1>2, <1>3, <1>4, <1>5, <1>6 DEF ProcStep, ClaimStep, RunStep, SettleStep

\* The statements of handoffs and app workers before and after a run.
Around(p) == \/ p \in Handoffs /\ (Lookup(p) \/ BeginClaimTask(p) \/ Answer(p))
             \/ p \in AppWorkers /\ (SelectCandidate(p) \/ Restarted(p))

\* Every step is a statement of one process, which writes no row but that of its task,
\* an INSERT, or time.
LEMMA RowSteps ==
    ASSUME UcInv, UcAssumption, [Next]_vars
    PROVE  \/ UNCHANGED <<table, phase, local, answer, started>>
           \/ \E h \in Handoffs : Insert(h)
           \/ \E q \in Procs :
                 /\ Around(q) \/ ProcStep(q)
                 /\ table' = table \/ Writing(q)
                 /\ \A p \in Procs \ {q} : phase'[p] = phase[p] /\ local'[p] = local[p]
<1>1. ASSUME NEW q \in Procs, ProcStep(q)
      PROVE  /\ table' = table \/ Writing(q)
             /\ \A p \in Procs \ {q} : phase'[p] = phase[p] /\ local'[p] = local[p]
  <2>1. Moves(q)
    BY <1>1, ClaimSteps, RunSteps, SettleSteps, OtherSteps DEF ProcStep
  <2> QED
    BY <1>1, <2>1, ProcWrites DEF UcInv, Moves
<1>2. ASSUME NEW q \in Procs, Around(q)
      PROVE  /\ table' = table
             /\ \A p \in Procs \ {q} : phase'[p] = phase[p] /\ local'[p] = local[p]
  <2>1. table' = table
    BY <1>2 DEF Around, Lookup, BeginClaimTask, Answer, SelectCandidate, Restarted
  <2>2. CASE Lookup(q)
    BY <2>1, <2>2 DEF Lookup, GoTo, UcInv, Shape
  <2>3. CASE ~Lookup(q)
    BY <1>2, <2>1, <2>3, OtherSteps DEF Around, Moves
  <2> QED
    BY <2>2, <2>3
<1>3. CASE UNCHANGED vars \/ Tick
  BY <1>3 DEF vars, Tick
<1> QED
  BY <1>1, <1>2, <1>3 DEF Next, Step, SubmitStep, Around, Procs

RowEarned(t) ==
    /\ table[t].owner # None => table[t].status \in Leased
    /\ table[t].result = "succeeded" => table[t].status = "succeeded"
    /\ table[t].status \in {"succeeded", "dead_letter"} => started[t] > 0
    /\ table[t].status = "rejected" => \E p \in Procs : t \notin Permitted[p]

\* Who is at work is deployed; who executed its task or is about to settle it has
\* started it, and what it is about to write is what it saw.
Working(p) ==
    /\ phase[p] \notin {"new", "polling"} => p \in Active
    /\ phase[p] \in {"executing", "failing", "returning"} =>
           Task(p) \in Tasks /\ started[Task(p)] > 0
    /\ phase[p] = "completing" =>
           \/ local[p].outcome = "rejected" /\ Task(p) \notin Permitted[p]
           \/ local[p].outcome = "succeeded" /\ Task(p) \in Tasks /\ started[Task(p)] > 0
    /\ phase[p] = "returning" => local[p].outcome \in {"dead_letter", "pending"}

\* An answer is given once, at the end; a final one is what the row says.
Told(h) ==
    /\ answer[h] # None => phase[h] = "answered"
    /\ answer[h] = "output" => Task(h) \in Stored /\ table[Task(h)].status = "succeeded"
    /\ answer[h] \in Settled => Task(h) \in Stored /\ table[Task(h)].status = answer[h]

WorkInv == /\ deployment \in Deployments
           /\ started \in [Tasks -> Nat]
           /\ \A t \in Tasks \ Stored : started[t] = 0
           /\ answer \in [Handoffs -> {"output", "unknown", None} \cup (Status \cup {None})]
           /\ \A t \in Stored : RowEarned(t)
           /\ \A p \in Procs : Working(p)
           /\ \A h \in Handoffs : Told(h)

\* An executor is started by the process that confirmed that it owns the running row.
Confirms(p, t) == /\ phase[p] = "confirming" /\ phase'[p] = "executing"
                  /\ OwnsRow(p) /\ t = Task(p) /\ local' = local /\ table' = table
                  /\ started' = [started EXCEPT ![t] = started[t] + 1]

LEMMA StartedSteps ==
    ASSUME UcInv, [Next]_vars
    PROVE  started' = started \/ \E p \in Procs, t \in Stored : Confirms(p, t)
<1>1. ASSUME NEW p \in Procs, ConfirmRunning(p)
      PROVE  started' = started \/ \E t \in Stored : Confirms(p, t)
  BY <1>1 DEF ConfirmRunning, Confirms, GoTo, UcInv, Shape, OwnsRow, Found
<1>2. ASSUME NEW p \in Procs, ProcStep(p), ~ConfirmRunning(p)
      PROVE  started' = started
  BY <1>2 DEF ProcStep, ClaimStep, RunStep, SettleStep, LeaseRow, VerifyLease, CountAttempt,
     Deny, MarkRunning, ExecutorReturns, CompleteRow, CheckCompleted, DecideFailure,
     ReturnRow, Interrupted
<1>3. ASSUME NEW p, SubmitStep(p) \/ BeginClaimTask(p) \/ Answer(p)
                    \/ SelectCandidate(p) \/ Restarted(p)
      PROVE  started' = started
  BY <1>3 DEF SubmitStep, Lookup, Insert, BeginClaimTask, Answer, SelectCandidate, Restarted
<1>4. CASE Tick \/ UNCHANGED vars
  BY <1>4 DEF Tick, vars
<1> QED
  BY <1>1, <1>2, <1>3, <1>4 DEF Next, Step

LEMMA InsertEffects ==
    ASSUME UcInv, UcAssumption, NEW h \in Handoffs, Insert(h)
    PROVE  /\ h \in Procs /\ phase[h] = "inserting" /\ phase'[h] = "submitted"
           /\ local' = local /\ answer' = answer /\ started' = started /\ now' = now
           /\ \A p \in Procs \ {h} : phase'[p] = phase[p]
           /\ Stored \subseteq Stored' /\ Stored' \subseteq Tasks
           /\ \A t \in Stored : table'[t] = table[t]
           /\ \A t \in Stored' \ Stored : table'[t] = NewRow(h)
<1>1. h \in Procs /\ phase \in [Procs -> Phase]
  BY DEF UcInv, Shape, Procs
<1>2. Task(h) = Request[h] /\ Request[h] \in Tasks /\ Request[h] \notin Stored /\ Stored \subseteq Tasks
  BY DEF Insert, UcInv, InsertIsFirst, UcAssumption, Shape
<1>3. /\ Stored \subseteq Stored' /\ Stored' \subseteq Tasks
      /\ \A t \in Stored : table'[t] = table[t]
      /\ \A t \in Stored' \ Stored : table'[t] = NewRow(h)
  BY <1>2 DEF Insert, Stored
<1> QED
  BY <1>1, <1>3 DEF Insert, GoTo

LEMMA StartedGrows ==
    ASSUME UcInv, UcAssumption, WorkInv, [Next]_vars
    PROVE  /\ started' \in [Tasks -> Nat]
           /\ \A t \in Tasks : started[t] <= started'[t]
           /\ \A t \in Tasks \ Stored' : started'[t] = 0
           /\ Stored \subseteq Stored' /\ Stored \subseteq Tasks /\ Stored' \subseteq Tasks
<1>1. Stored \subseteq Stored' /\ Stored \subseteq Tasks /\ Stored' \subseteq Tasks
  <2>1. Stored' \subseteq Tasks /\ Stored \subseteq Tasks
    BY StepKeepsRows DEF UcInv, Shape
  <2>2. table' = table => Stored' = Stored
    BY DEF Stored
  <2> QED
    BY <2>1, <2>2, RowSteps, InsertEffects DEF Writing
<1>2. started \in [Tasks -> Nat] /\ \A t \in Tasks \ Stored : started[t] = 0
  BY DEF WorkInv
<1>3. CASE started' = started
  BY <1>1, <1>2, <1>3
<1>4. ASSUME NEW p \in Procs, NEW t \in Stored, Confirms(p, t)
      PROVE  /\ started' \in [Tasks -> Nat]
             /\ \A x \in Tasks : started[x] <= started'[x]
             /\ \A x \in Tasks \ Stored' : started'[x] = 0
  BY <1>1, <1>2, <1>4 DEF Confirms
<1> QED
  BY <1>1, <1>3, <1>4, StartedSteps

LEMMA RowEarnedStep ==
    ASSUME UcInv, UcAssumption, WorkInv, [Next]_vars, NEW t \in Stored'
    PROVE  RowEarned(t)'
<1>1. /\ started \in [Tasks -> Nat] /\ started' \in [Tasks -> Nat] /\ t \in Tasks
      /\ started[t] <= started'[t] /\ Stored \subseteq Stored'
  BY StartedGrows DEF WorkInv
<1>2. None \notin {"succeeded", "rejected", "pending", "claimed", "running", "dead_letter"}
  BY DEF UcAssumption, ResultStatus
<1>3. CASE t \in Stored /\ table'[t] = table[t]
  <2>1. RowEarned(t)
    BY <1>3 DEF WorkInv
  <2> QED
    BY <1>1, <1>3, <2>1 DEF RowEarned
<1>4. CASE t \notin Stored
  <2>1. PICK h \in Handoffs : Insert(h)
    <3>1. table' = table => t \in Stored
      BY DEF Stored
    <3> QED
      BY <1>4, <3>1, RowSteps DEF Writing
  <2>2. table'[t] = NewRow(h)
    BY <1>4, <2>1, InsertEffects
  <2> QED
    BY <1>2, <2>2 DEF NewRow, RowEarned
<1>5. ASSUME NEW p \in Procs, Writing(p), t = Task(p), t \in Stored
      PROVE  RowEarned(t)'
  <2> DEFINE r == table[t]
             n == table'[t]
  <2>1. RowEarned(t) /\ Working(p) /\ Me(p) # None
    BY <1>5, Ids DEF WorkInv
  <2>2. CASE Leases(p, r, n)
    BY <1>5, <2>1, <2>2 DEF Leases, Claimable, RowEarned, Leased
  <2>3. CASE Counts(p, r, n)
    BY <2>1, <2>3 DEF Counts, RowEarned, Leased
  <2>4. CASE Marks(p, r, n)
    BY <2>1, <2>4 DEF Marks, RowEarned, Leased
  <2>5. CASE Completes(p, r, n)
    <3>1. \/ n.status = "rejected" /\ n.result = "rejected" /\ t \notin Permitted[p]
          \/ n.status = "succeeded" /\ n.result = "succeeded" /\ started[t] > 0
      BY <1>5, <2>1, <2>5 DEF Completes, Working
    <3> QED
      BY <1>1, <2>5, <3>1 DEF Completes, RowEarned
  <2>6. CASE Returns(p, r, n)
    <3>1. n.status \in {"dead_letter", "pending"} /\ started[t] > 0 /\ r.result # "succeeded"
      BY <1>5, <2>1, <2>6 DEF Returns, Working, RowEarned, Leased
    <3> QED
      BY <1>1, <2>6, <3>1 DEF Returns, RowEarned
  <2> QED
    BY <1>5, <2>2, <2>3, <2>4, <2>5, <2>6 DEF Writing
<1> QED
  <2>1. t \in Stored => table'[t] = table[t] \/ \E p \in Procs : Writing(p) /\ t = Task(p)
    BY RowSteps, InsertEffects DEF Writing
  <2> QED
    BY <1>3, <1>4, <1>5, <2>1

\* What leads a process to the statements that settle its task.
LEMMA OwnWork ==
    ASSUME UcInv, NEW p \in Procs, Around(p) \/ ProcStep(p)
    PROVE  /\ phase[p] \in {"new", "polling"} =>
                  p \in deployment.handoffs \/ p \in deployment.apps
           /\ phase'[p] \in {"executing", "failing", "returning", "completing"} =>
                  Deny(p) \/ ConfirmRunning(p) \/ ExecutorReturns(p) \/ DecideFailure(p)
<1>1. \A ph : GoTo(p, ph) => phase'[p] = ph
  BY DEF GoTo, UcInv, Shape
<1>2. CASE Around(p)
  BY <1>1, <1>2 DEF Around, Lookup, BeginClaimTask, Answer, SelectCandidate, Restarted
<1>3. CASE ClaimStep(p)
  BY <1>1, <1>3 DEF ClaimStep, LeaseRow, VerifyLease, CountAttempt, RunReturns
<1>4. CASE RunStep(p)
  BY <1>1, <1>4 DEF RunStep, Deny, MarkRunning, ConfirmRunning, ExecutorReturns
<1>5. CASE SettleStep(p)
  BY <1>1, <1>5 DEF SettleStep, CompleteRow, CheckCompleted, DecideFailure, ReturnRow, RunReturns
<1>6. CASE Interrupted(p)
  BY <1>1, <1>6 DEF Interrupted
<1> QED
  BY <1>2, <1>3, <1>4, <1>5, <1>6 DEF ProcStep

LEMMA WorkingStep ==
    ASSUME UcInv, UcAssumption, WorkInv, [Next]_vars, NEW p \in Procs
    PROVE  Working(p)'
<1>1. /\ started \in [Tasks -> Nat] /\ started' \in [Tasks -> Nat] /\ Stored \subseteq Tasks
      /\ \A t \in Tasks : started[t] <= started'[t] /\ (started[t] > 0 => started'[t] > 0)
  <2>1. /\ started \in [Tasks -> Nat] /\ started' \in [Tasks -> Nat] /\ Stored \subseteq Tasks
        /\ \A t \in Tasks : started[t] <= started'[t]
    BY StartedGrows DEF WorkInv
  <2> QED
    BY <2>1
<1>2. Working(p) /\ Active' = Active /\ deployment' = deployment
  BY DEF WorkInv, Active, Next, vars
<1>3. local \in [Procs -> Local] /\ phase \in [Procs -> Phase]
  BY DEF UcInv, Shape
<1>4. ASSUME phase'[p] = phase[p], local'[p] = local[p]
      PROVE  Working(p)'
  <2>1. Task(p)' = Task(p)
    BY <1>4 DEF Task
  <2> QED
    BY <1>1, <1>2, <1>4, <2>1 DEF Working
<1>5. ASSUME NEW h \in Handoffs, Insert(h) PROVE Working(p)'
  <2>1. CASE p = h
    <3>1. phase[p] = "inserting" /\ phase'[p] = "submitted"
      BY <1>5, <2>1, InsertEffects
    <3> QED
      BY <1>2, <3>1 DEF Working
  <2>2. CASE p # h
    BY <1>4, <1>5, <2>2, InsertEffects
  <2> QED
    BY <2>1, <2>2
<1>6. CASE Around(p) \/ ProcStep(p)
  <2>1. p \in Active
    BY <1>2, <1>6, OwnWork DEF Working, Active
  <2>2. CASE phase'[p] \notin {"executing", "failing", "returning", "completing"}
    BY <1>2, <2>1, <2>2 DEF Working
  <2>3. CASE Deny(p)
    <3>1. phase'[p] = "completing" /\ local'[p].outcome = "rejected" /\ Task(p)' = Task(p)
          /\ Task(p) \notin Permitted[p]
      BY <1>3, <2>3 DEF Deny, GoTo, Task, Local
    <3> QED
      BY <1>2, <2>1, <3>1 DEF Working
  <2>4. CASE ConfirmRunning(p)
    <3>1. CASE phase'[p] = "executing"
      <4>1. /\ OwnsRow(p) /\ Task(p)' = Task(p)
            /\ started' = [started EXCEPT ![Task(p)] = started[Task(p)] + 1]
        BY <1>3, <2>4, <3>1 DEF ConfirmRunning, GoTo, Task
      <4>2. /\ Task(p) \in Tasks /\ started[Task(p)] \in Nat
            /\ started'[Task(p)] = started[Task(p)] + 1
        BY <1>1, <4>1 DEF OwnsRow, Found
      <4> QED
        BY <1>2, <2>1, <3>1, <4>1, <4>2 DEF Working
    <3>2. CASE phase'[p] = "raised"
      BY <2>2, <3>2
    <3> QED
      BY <1>3, <2>4, <3>1, <3>2 DEF ConfirmRunning, GoTo
  <2>5. CASE ExecutorReturns(p)
    <3>1. /\ phase[p] = "executing" /\ Task(p)' = Task(p) /\ started' = started
          /\ \/ phase'[p] = "completing" /\ local'[p].outcome = "succeeded"
             \/ phase'[p] = "failing"
      BY <1>3, <2>5 DEF ExecutorReturns, GoTo, Task, Local
    <3> QED
      BY <1>2, <2>1, <3>1 DEF Working
  <2>6. CASE DecideFailure(p)
    <3>1. CASE phase'[p] = "returning"
      <4>1. /\ phase[p] = "failing" /\ Task(p)' = Task(p) /\ started' = started
            /\ local'[p].outcome \in {"dead_letter", "pending"}
        BY <1>3, <2>6, <3>1 DEF DecideFailure, GoTo, Task, Local
      <4> QED
        BY <1>2, <2>1, <3>1, <4>1 DEF Working
    <3>2. CASE phase'[p] = "raised"
      BY <2>2, <3>2
    <3> QED
      BY <1>3, <2>6, <3>1, <3>2 DEF DecideFailure, GoTo
  <2>8. phase'[p] \in {"executing", "failing", "returning", "completing"} =>
            Deny(p) \/ ConfirmRunning(p) \/ ExecutorReturns(p) \/ DecideFailure(p)
    BY <1>6, OwnWork
  <2> QED
    BY <2>2, <2>3, <2>4, <2>5, <2>6, <2>8
<1> QED
  BY <1>4, <1>5, <1>6, RowSteps

LEMMA ToldStep ==
    ASSUME UcInv, UcAssumption, WorkInv, [Next]_vars, NEW h \in Handoffs
    PROVE  Told(h)' /\ answer'[h] \in {"output", "unknown", None} \cup (Status \cup {None})
<1>1. /\ h \in Procs /\ Told(h) /\ local \in [Procs -> Local] /\ phase \in [Procs -> Phase]
      /\ answer \in [Handoffs -> {"output", "unknown", None} \cup (Status \cup {None})]
      /\ table \in [Stored -> Columns]
  BY DEF WorkInv, UcInv, Shape, Procs
<1>2. None \notin {"output", "unknown"} \cup Settled
  BY DEF UcAssumption, Settled, ResultStatus
<1>3. ASSUME NEW q \in Handoffs, Answer(q)
      PROVE  Told(h)' /\ answer'[h] \in {"output", "unknown", None} \cup (Status \cup {None})
  <2>1. /\ table' = table /\ local' = local /\ Stored' = Stored /\ Task(h)' = Task(h)
        /\ q \in Procs
    BY <1>3 DEF Answer, Stored, Task, Procs
  <2>2. CASE q # h
    <3>1. answer'[h] = answer[h] /\ phase'[h] = phase[h]
      BY <1>1, <1>3, <2>1, <2>2 DEF Answer, GoTo
    <3> QED
      BY <1>1, <2>1, <3>1 DEF Told
  <2>3. CASE q = h
    <3>1. phase'[h] = "answered"
      BY <1>1, <1>3, <2>3 DEF Answer, GoTo
    <3>2. CASE answer'[h] = "unknown"
      BY <3>1, <3>2 DEF Told, Settled
    <3>3. CASE /\ Found(h)
               /\ answer'[h] = IF table[Task(h)].result = "succeeded" THEN "output"
                               ELSE table[Task(h)].status
      <4>1. table[Task(h)] \in Columns /\ RowEarned(Task(h)) /\ Task(h) \in Stored
        BY <1>1, <3>3 DEF Found, WorkInv
      <4>2. table[Task(h)].status \in Status \cup {None} /\ table[Task(h)].status # "output"
        BY <4>1, <1>2 DEF Columns, Status, Leased, Settled
      <4>3. CASE table[Task(h)].result = "succeeded"
        BY <2>1, <3>1, <3>3, <4>1, <4>3 DEF Told, RowEarned, Settled
      <4>4. CASE table[Task(h)].result # "succeeded"
        BY <2>1, <3>1, <3>3, <4>1, <4>2, <4>4 DEF Told
      <4> QED
        BY <3>3, <4>2, <4>3, <4>4
    <3> QED
      BY <1>1, <1>3, <2>3, <3>2, <3>3 DEF Answer
  <2> QED
    BY <2>2, <2>3
<1>4. ASSUME answer' = answer
      PROVE  Told(h)' /\ answer'[h] \in {"output", "unknown", None} \cup (Status \cup {None})
  <2>1. CASE answer[h] = None
    BY <1>2, <1>4, <2>1 DEF Told
  <2>2. CASE answer[h] # None
    <3>1. phase[h] = "answered"
      BY <1>1, <2>2 DEF Told
    <3>2. phase'[h] = phase[h] /\ local'[h] = local[h]
      <4>1. ~Around(h) /\ ~ProcStep(h)
        <5>1. ~Around(h)
          BY <3>1 DEF Around, Lookup, BeginClaimTask, Answer, SelectCandidate, Restarted
        <5>2. ~ProcStep(h)
          BY <3>1 DEF ProcStep, ClaimStep, RunStep, SettleStep, LeaseRow, VerifyLease,
             CountAttempt, Deny, MarkRunning, ConfirmRunning, ExecutorReturns, CompleteRow,
             CheckCompleted, DecideFailure, ReturnRow, Interrupted
        <5> QED
          BY <5>1, <5>2
      <4> QED
        BY <1>1, <3>1, <4>1, RowSteps, InsertEffects
    <3>3. \A t \in Stored : table[t].status \in Settled => t \in Stored' /\ table'[t] = table[t]
      BY StepKeepsRows, StartedGrows
    <3>4. Task(h)' = Task(h)
      BY <3>2 DEF Task
    <3> QED
      BY <1>1, <1>4, <3>1, <3>2, <3>3, <3>4 DEF Told, Settled
  <2> QED
    BY <2>1, <2>2
<1>5. (\E q \in Handoffs : Answer(q)) \/ answer' = answer
  <2>1. ASSUME NEW p \in Procs, ProcStep(p) PROVE answer' = answer
    BY <2>1 DEF ProcStep, ClaimStep, RunStep, SettleStep, LeaseRow, VerifyLease,
       CountAttempt, Deny, MarkRunning, ConfirmRunning, ExecutorReturns, CompleteRow,
       CheckCompleted, DecideFailure, ReturnRow, Interrupted
  <2> QED
    BY <2>1 DEF Next, Step, SubmitStep, Lookup, Insert, BeginClaimTask, SelectCandidate,
       Restarted, Tick, vars
<1> QED
  BY <1>3, <1>4, <1>5

LEMMA StepKeepsWork ==
    ASSUME UcInv, UcAssumption, WorkInv, [Next]_vars
    PROVE  WorkInv'
<1>1. answer' \in [Handoffs -> {"output", "unknown", None} \cup (Status \cup {None})]
  <2>1. DOMAIN answer' = Handoffs /\ answer' = [h \in Handoffs |-> answer'[h]]
    <3>1. answer \in [Handoffs -> {"output", "unknown", None} \cup (Status \cup {None})]
      BY DEF WorkInv
    <3>2. ASSUME NEW h \in Handoffs, Answer(h)
          PROVE  DOMAIN answer' = Handoffs /\ answer' = [x \in Handoffs |-> answer'[x]]
      BY <3>1, <3>2 DEF Answer
    <3>3. ASSUME NEW p \in Procs, ProcStep(p) PROVE answer' = answer
      BY <3>3 DEF ProcStep, ClaimStep, RunStep, SettleStep, LeaseRow, VerifyLease,
         CountAttempt, Deny, MarkRunning, ConfirmRunning, ExecutorReturns, CompleteRow,
         CheckCompleted, DecideFailure, ReturnRow, Interrupted
    <3>4. (\E h \in Handoffs : Answer(h)) \/ answer' = answer
      BY <3>3 DEF Next, Step, SubmitStep, Lookup, Insert, BeginClaimTask, SelectCandidate,
         Restarted, Tick, vars
    <3> QED
      BY <3>1, <3>2, <3>4
  <2>2. \A h \in Handoffs : answer'[h] \in {"output", "unknown", None} \cup (Status \cup {None})
    BY ToldStep
  <2> QED
    BY <2>1, <2>2
<1>2. deployment' \in Deployments
  BY DEF WorkInv, Next, vars
<1>3. /\ \A t \in Stored' : RowEarned(t)'
      /\ \A p \in Procs : Working(p)'
      /\ \A h \in Handoffs : Told(h)'
  BY RowEarnedStep, WorkingStep, ToldStep
<1> QED
  BY <1>1, <1>2, <1>3, StartedGrows DEF WorkInv

LEMMA InitialWork == ASSUME UcAssumption, Init PROVE WorkInv
<1>1. Stored = {} /\ None \notin {"output"} \cup Settled
  BY DEF Init, Stored, UcAssumption, Settled, ResultStatus
<1>2. \A p \in Procs : Working(p)
  BY DEF Init, Working
<1>3. \A h \in Handoffs : Told(h)
  BY <1>1 DEF Init, Told
<1> QED
  BY <1>1, <1>2, <1>3 DEF Init, WorkInv

LEMMA WorkInvInductive == Spec => [](UcInv /\ WorkInv)
<1>1. Init => UcInv /\ WorkInv
  BY InitialRows, InitialWork, UcAssumption
<1>2. UcInv /\ WorkInv /\ [Next]_vars => UcInv' /\ WorkInv'
  BY StepKeepsRows, StepKeepsWork, UcAssumption
<1> QED
  BY <1>1, <1>2, PTL DEF Spec

\* For any number of handoffs, app workers and processes, any worker ids, shared or
\* not, and statements that fail unnoticed: a row is settled as succeeded or dead
\* letter only after an execution, as rejected only if a policy denies the task, and
\* a final answer of a handoff stays true of the row (worker.py, handoff.py, tasks.py).
THEOREM DurableOutcomesAreEarned == Spec => []OutcomeIsEarned
<1>1. WorkInv => OutcomeIsEarned
  BY DEF WorkInv, RowEarned, Told, OutcomeIsEarned
<1> QED
  BY <1>1, WorkInvInductive, PTL

----------------------------------------------------------------------------
(* Worker ids of one's own: the budget and the fence *)

LEMMA OwnIds ==
    ASSUME UcAssumption, WorkInv, Unshared, NEW p \in Active, NEW q \in Active, Me(p) = Me(q)
    PROVE  p = q
  BY DEF Unshared, WorkInv, Active, Me

\* A row that p owns after a step of somebody else, it owned before, and the step
\* left it as it was.
LEMMA ApartSteps ==
    ASSUME UcInv, UcAssumption, WorkInv, Unshared, [Next]_vars, NEW p \in Procs
    PROVE  \/ Around(p) \/ ProcStep(p)
           \/ phase'[p] = "submitted"
           \/ /\ phase'[p] = phase[p] /\ local'[p] = local[p] /\ Task(p)' = Task(p)
              /\ p \in Active => \A t \in Stored' : table'[t].owner = Me(p) =>
                                     t \in Stored /\ table'[t] = table[t]
<1>1. \A x \in Procs : Working(x) /\ Me(x) # None
  BY Ids DEF WorkInv
<1>2. CASE UNCHANGED <<table, phase, local, answer, started>>
  BY <1>2 DEF Stored, Task
<1>3. ASSUME NEW h \in Handoffs, Insert(h), p # h
      PROVE  /\ phase'[p] = phase[p] /\ local'[p] = local[p]
             /\ \A t \in Stored' : table'[t].owner = Me(p) => t \in Stored /\ table'[t] = table[t]
  <2>1. phase'[p] = phase[p] /\ local'[p] = local[p]
    BY <1>3, InsertEffects
  <2>2. ASSUME NEW t \in Stored', table'[t].owner = Me(p)
        PROVE  t \in Stored /\ table'[t] = table[t]
    <3>1. CASE t \in Stored
      BY <1>3, <3>1, InsertEffects
    <3>2. CASE t \notin Stored
      <4>1. table'[t] = NewRow(h)
        BY <1>3, <3>2, InsertEffects
      <4> QED
        BY <1>1, <2>2, <4>1 DEF NewRow
    <3> QED
      BY <3>1, <3>2
  <2> QED
    BY <2>1, <2>2
<1>4. ASSUME NEW q \in Procs \ {p}, Around(q) \/ ProcStep(q), table' = table \/ Writing(q),
             p \in Active
      PROVE  \A t \in Stored' : table'[t].owner = Me(p) => t \in Stored /\ table'[t] = table[t]
  <2>1. q \in Active
    BY <1>1, <1>4, OwnWork DEF Working, Active
  <2>2. Me(q) # Me(p) /\ Me(p) # None
    BY <1>1, <1>4, <2>1, OwnIds
  <2>3. CASE table' = table
    BY <2>3 DEF Stored
  <2>4. CASE Writing(q)
    <3>1. table'[Task(q)].owner \in {Me(q), None} /\ Stored' = Stored
      BY <2>4 DEF Writing, Leases, Counts, Marks, Completes, Returns
    <3> QED
      BY <2>2, <2>4, <3>1 DEF Writing
  <2> QED
    BY <1>4, <2>3, <2>4
<1>5. CASE Around(p) \/ ProcStep(p)
  BY <1>5
<1>6. CASE \E h \in Handoffs : Insert(h)
  <2>1. PICK h \in Handoffs : Insert(h)
    BY <1>6
  <2>2. CASE p = h
    BY <2>1, <2>2, InsertEffects
  <2>3. CASE p # h
    BY <1>3, <2>1, <2>3 DEF Task
  <2> QED
    BY <2>2, <2>3
<1>7. CASE \E q \in Procs :
                 /\ Around(q) \/ ProcStep(q)
                 /\ table' = table \/ Writing(q)
                 /\ \A x \in Procs \ {q} : phase'[x] = phase[x] /\ local'[x] = local[x]
  <2>1. PICK q \in Procs :
                 /\ Around(q) \/ ProcStep(q)
                 /\ table' = table \/ Writing(q)
                 /\ \A x \in Procs \ {q} : phase'[x] = phase[x] /\ local'[x] = local[x]
    BY <1>7
  <2>2. CASE q = p
    BY <1>5, <2>1, <2>2
  <2>3. CASE q # p
    <3>1. phase'[p] = phase[p] /\ local'[p] = local[p] /\ Task(p)' = Task(p)
      BY <2>1, <2>3 DEF Task
    <3>2. p \in Active => \A t \in Stored' : table'[t].owner = Me(p) =>
                                     t \in Stored /\ table'[t] = table[t]
      BY <1>4, <2>1, <2>3
    <3> QED
      BY <3>1, <3>2
  <2> QED
    BY <2>2, <2>3
<1> QED
  BY <1>2, <1>6, <1>7, RowSteps

\* What fail() decided still fits the row when it is written.
Decided(p) ==
    (phase[p] = "returning" /\ Found(p) /\ table[Task(p)].owner = Me(p)) =>
        \/ local[p].outcome = "dead_letter" /\ table[Task(p)].attempt >= MaxAttempts
        \/ local[p].outcome = "pending" /\ table[Task(p)].attempt < MaxAttempts

BudgetInv == (\A p \in Procs : Decided(p)) /\ AttemptBudgetDecides

LEMMA DecidedStep ==
    ASSUME UcInv, UcAssumption, WorkInv, Unshared, BudgetInv, [Next]_vars, NEW p \in Procs
    PROVE  Decided(p)'
<1>1. /\ local \in [Procs -> Local] /\ phase \in [Procs -> Phase] /\ table \in [Stored -> Columns]
      /\ Working(p) /\ Decided(p) /\ MaxAttempts \in Nat
  BY DEF UcInv, Shape, WorkInv, BudgetInv, UcAssumption
<1>2. CASE phase'[p] # "returning"
  BY <1>2 DEF Decided
<1>3. CASE /\ phase'[p] = phase[p] /\ local'[p] = local[p] /\ Task(p)' = Task(p)
           /\ p \in Active => \A t \in Stored' : table'[t].owner = Me(p) =>
                                  t \in Stored /\ table'[t] = table[t]
  BY <1>1, <1>3 DEF Decided, Working, Found, Me
<1>4. CASE phase'[p] = "returning" /\ (Around(p) \/ ProcStep(p))
  <2>1. Deny(p) \/ ConfirmRunning(p) \/ ExecutorReturns(p) \/ DecideFailure(p)
    BY <1>4, OwnWork
  <2>2. CASE DecideFailure(p)
    <3>1. /\ OwnsRow(p) /\ table' = table /\ Task(p)' = Task(p)
          /\ local'[p].outcome = IF table[Task(p)].attempt >= MaxAttempts
                                   THEN "dead_letter" ELSE "pending"
      BY <1>1, <1>4, <2>2 DEF DecideFailure, GoTo, Task, Local
    <3>2. table[Task(p)].attempt \in Nat
      BY <1>1, <3>1 DEF OwnsRow, Found, Columns
    <3> QED
      BY <1>1, <3>1, <3>2 DEF Decided
  <2>3. CASE Deny(p) \/ ConfirmRunning(p) \/ ExecutorReturns(p)
    BY <1>1, <1>4, <2>3 DEF Deny, ConfirmRunning, ExecutorReturns, GoTo
  <2> QED
    BY <2>1, <2>2, <2>3
<1> QED
  BY <1>2, <1>3, <1>4, ApartSteps

LEMMA BudgetStep ==
    ASSUME UcInv, UcAssumption, WorkInv, BudgetInv, [Next]_vars
    PROVE  AttemptBudgetDecides'
<1>1. SUFFICES ASSUME NEW t \in Stored'
               PROVE  /\ table'[t].status = "pending" => table'[t].attempt < MaxAttempts
                      /\ table'[t].status = "dead_letter" => table'[t].attempt >= MaxAttempts
  BY DEF AttemptBudgetDecides
<1>2. \A x \in Stored : /\ table[x].status = "pending" => table[x].attempt < MaxAttempts
                        /\ table[x].status = "dead_letter" => table[x].attempt >= MaxAttempts
  BY DEF BudgetInv, AttemptBudgetDecides
<1>3. CASE t \in Stored /\ table'[t] = table[t]
  BY <1>2, <1>3
<1>4. ASSUME NEW h \in Handoffs, Insert(h) PROVE t \in Stored \/ table'[t] = NewRow(h)
  BY <1>4, InsertEffects
<1>5. ASSUME NEW h \in Handoffs, table'[t] = NewRow(h)
      PROVE  table'[t].status = "pending" /\ table'[t].attempt < MaxAttempts
  BY <1>5 DEF NewRow, UcAssumption
<1>6. ASSUME NEW p \in Procs, Writing(p), t = Task(p), t \in Stored
      PROVE  /\ table'[t].status = "pending" => table'[t].attempt < MaxAttempts
             /\ table'[t].status = "dead_letter" => table'[t].attempt >= MaxAttempts
  <2> DEFINE r == table[t]
             n == table'[t]
  <2>1. RowEarned(t) /\ Working(p) /\ Decided(p) /\ Me(p) # None
    BY <1>6, Ids DEF WorkInv, BudgetInv
  <2>2. CASE Leases(p, r, n) \/ Marks(p, r, n)
    BY <2>2 DEF Leases, Marks
  <2>3. CASE Counts(p, r, n)
    BY <2>1, <2>3 DEF Counts, RowEarned, Leased
  <2>4. CASE Completes(p, r, n)
    BY <2>1, <2>4 DEF Completes, Working
  <2>5. CASE Returns(p, r, n)
    BY <1>6, <2>1, <2>5 DEF Returns, Decided, Found
  <2> QED
    BY <1>6, <2>2, <2>3, <2>4, <2>5 DEF Writing
<1>7. \/ t \in Stored /\ table'[t] = table[t]
      \/ \E h \in Handoffs : table'[t] = NewRow(h)
      \/ \E p \in Procs : Writing(p) /\ t = Task(p) /\ t \in Stored
  <2>1. table' = table => t \in Stored /\ table'[t] = table[t]
    BY DEF Stored
  <2>2. ASSUME NEW h \in Handoffs, Insert(h)
        PROVE  (t \in Stored /\ table'[t] = table[t]) \/ table'[t] = NewRow(h)
    BY <2>2, InsertEffects
  <2> QED
    BY <2>1, <2>2, RowSteps DEF Writing
<1> QED
  BY <1>3, <1>5, <1>6, <1>7

\* For any number of handoffs and app workers with worker ids of their own, and
\* statements that fail unnoticed: fail() writes what it decided only on a row that
\* the decision still fits, so no task is retried beyond its budget and none is given
\* up before (tasks.py: fail(), a SELECT and an UPDATE).
THEOREM DurableBudgetDecides ==
    ASSUME Unshared PROVE Spec => []AttemptBudgetDecides
<1>1. Init => BudgetInv
  BY DEF Init, BudgetInv, Decided, AttemptBudgetDecides, Stored
<1>2. UcInv /\ WorkInv /\ BudgetInv /\ [Next]_vars => BudgetInv'
  BY UcAssumption, DecidedStep, BudgetStep DEF BudgetInv
<1>3. BudgetInv => AttemptBudgetDecides
  BY DEF BudgetInv
<1> QED
  BY <1>1, <1>2, <1>3, WorkInvInductive, PTL DEF Spec

\* What the statements of claim_task() and run_once() remember of the attempt, and
\* that between counting it and starting the executor an attempt is still unused.
Remembers(p) ==
    OwnsRow(p) =>
        LET n == table[Task(p)].attempt IN
        /\ phase[p] = "counting" => local[p].attempt = n + 1
        /\ phase[p] \in {"claimed", "confirming", "executing", "completing", "failing", "returning"}
             => local[p].attempt = n
        /\ phase[p] \in {"claimed", "confirming"} => started[Task(p)] < n

FenceInv == (\A p \in Procs : Remembers(p)) /\ \A t \in Stored : started[t] <= table[t].attempt

\* Another process starts no executor of a task that p owns.
LEMMA OthersStart ==
    ASSUME UcInv, UcAssumption, WorkInv, Unshared, [Next]_vars, NEW p \in Active, p \in Procs,
           OwnsRow(p), ~(phase[p] = "confirming" /\ phase'[p] = "executing")
    PROVE  started'[Task(p)] = started[Task(p)]
<1>1. CASE started' = started
  BY <1>1
<1>2. ASSUME NEW q \in Procs, NEW t \in Stored, Confirms(q, t)
      PROVE  started'[Task(p)] = started[Task(p)]
  <2>1. q # p
    BY <1>2 DEF Confirms
  <2>2. q \in Active
    BY <1>2 DEF Confirms, WorkInv, Working
  <2>3. t # Task(p)
    <3>1. Me(q) # Me(p)
      BY <2>1, <2>2, OwnIds
    <3> QED
      BY <1>2, <3>1 DEF Confirms, OwnsRow
  <2>4. started \in [Tasks -> Nat] /\ Task(p) \in Tasks
    BY DEF WorkInv, UcInv, Shape, OwnsRow, Found
  <2> QED
    BY <1>2, <2>3, <2>4 DEF Confirms
<1> QED
  BY <1>1, <1>2, StartedSteps

LEMMA OwnRemembers ==
    ASSUME UcInv, UcAssumption, WorkInv, Unshared, FenceInv, ~deployment.silent, [Next]_vars,
           NEW p \in Procs, Around(p) \/ ProcStep(p)
    PROVE  Remembers(p)'
<1> DEFINE t == Task(p)
           Attempting == {"counting", "claimed", "confirming", "executing", "completing",
                          "failing", "returning"}
<1>1. /\ local \in [Procs -> Local] /\ phase \in [Procs -> Phase] /\ table \in [Stored -> Columns]
      /\ Working(p) /\ Remembers(p) /\ Stored \subseteq Tasks /\ started \in [Tasks -> Nat]
      /\ \A x \in Stored : started[x] <= table[x].attempt /\ table[x].attempt \in Nat
  BY DEF UcInv, Shape, WorkInv, FenceInv, Columns
<1>2. \A ph : GoTo(p, ph) => phase'[p] = ph
  BY <1>1 DEF GoTo
<1>3. p \in Active
  BY <1>1, OwnWork DEF Working, Active
<1>4. CASE phase'[p] \notin Attempting
  BY <1>4 DEF Remembers
<1>5. CASE VerifyLease(p) /\ phase'[p] = "counting"
  <2>1. /\ table' = table /\ Stored' = Stored /\ Task(p)' = t /\ OwnsRow(p)
        /\ local'[p].attempt = table[t].attempt + 1
    BY <1>1, <1>2, <1>5 DEF VerifyLease, RunReturns, Task, Stored, Local
  <2> QED
    BY <1>5, <2>1 DEF Remembers
<1>6. CASE CountAttempt(p)
  <2> DEFINE new == [table[t] EXCEPT !.attempt = local[p].attempt]
  <2>1. /\ UpdateRow(p, table[t].owner = Me(p), new) /\ local' = local /\ started' = started
        /\ phase[p] = "counting" /\ phase'[p] = "claimed" /\ Task(p)' = t
    BY <1>2, <1>6 DEF CountAttempt, Task
  <2>2. CASE table' = table /\ ~(t \in Stored /\ table[t].owner = Me(p))
    <3>1. ~OwnsRow(p)'
      BY <2>1, <2>2 DEF OwnsRow, Found, Stored, Me
    <3> QED
      BY <3>1 DEF Remembers
  <2>3. CASE t \in Stored /\ table[t].owner = Me(p) /\ table'[t] = new /\ table[t] \in Columns
    <3>1. OwnsRow(p)
      <4>1. RowEarned(t) /\ Me(p) # None
        BY <2>3, Ids DEF WorkInv
      <4> QED
        BY <2>3, <4>1 DEF RowEarned, OwnsRow, Found
    <3>2. local[p].attempt = table[t].attempt + 1 /\ started[t] <= table[t].attempt
      BY <1>1, <2>1, <2>3, <3>1 DEF Remembers
    <3>3. table'[t].attempt = local[p].attempt
      BY <2>3 DEF Columns
    <3>4. started'[t] < table'[t].attempt
      <4>1. started[t] \in Nat /\ table[t].attempt \in Nat
        BY <1>1, <2>3
      <4> QED
        BY <2>1, <3>2, <3>3, <4>1
    <3> HIDE DEF new
    <3> QED
      BY <2>1, <3>3, <3>4 DEF Remembers
  <2>4. UcInv => Shape
    BY DEF UcInv
  <2> HIDE DEF new
  <2> QED
    BY <2>1, <2>2, <2>3, <2>4, UpdateWrites
<1>7. CASE MarkRunning(p)
  <2> DEFINE new == [table[t] EXCEPT !.status = "running"]
             mine == table[t].owner = Me(p) /\ table[t].status = "claimed"
  <2>1. /\ UpdateRow(p, mine, new) /\ local' = local /\ started' = started
        /\ phase[p] = "claimed" /\ phase'[p] = "confirming" /\ Task(p)' = t
    BY <1>2, <1>7 DEF MarkRunning, Task
  <2>2. CASE table' = table
    <3>1. OwnsRow(p)' => OwnsRow(p)
      BY <2>1, <2>2 DEF OwnsRow, Found, Stored, Me
    <3> QED
      BY <1>1, <2>1, <2>2, <3>1 DEF Remembers
  <2>3. CASE t \in Stored /\ mine /\ table'[t] = new /\ table[t] \in Columns
    <3>1. OwnsRow(p) /\ table'[t].attempt = table[t].attempt
      BY <2>3 DEF OwnsRow, Found, Leased, Columns
    <3> HIDE DEF new
    <3> QED
      BY <1>1, <2>1, <3>1 DEF Remembers
  <2>4. UcInv => Shape
    BY DEF UcInv
  <2> HIDE DEF new
  <2> QED
    BY <2>1, <2>2, <2>3, <2>4, UpdateWrites
<1>8. CASE Deny(p) \/ ConfirmRunning(p) \/ ExecutorReturns(p) \/ DecideFailure(p)
  <2>1. /\ phase[p] \in {"claimed", "confirming", "executing", "failing"}
        /\ phase'[p] \in {"executing", "completing", "failing", "returning", "raised"}
        /\ table' = table /\ Stored' = Stored
    BY <1>2, <1>8 DEF Deny, ConfirmRunning, ExecutorReturns, DecideFailure, Stored
  <2>2. Task(p)' = t /\ local'[p].attempt = local[p].attempt
    BY <1>1, <1>8 DEF Deny, ConfirmRunning, ExecutorReturns, DecideFailure, Task, Local
  <2>3. OwnsRow(p)' => OwnsRow(p)
    BY <2>1, <2>2 DEF OwnsRow, Found, Me
  <2> QED
    BY <1>1, <2>1, <2>2, <2>3 DEF Remembers
<1>9. CASE Around(p) \/ Interrupted(p)
  <2>1. phase'[p] \in {"inserting", "submitted", "leasing", "answered", "polling", "raised"}
    BY <1>2, <1>9 DEF Around, Lookup, BeginClaimTask, Answer, SelectCandidate, Restarted,
                      Interrupted
  <2> QED
    BY <1>4, <2>1
<1>10. CASE LeaseRow(p) \/ VerifyLease(p)
  <2>1. \/ phase'[p] \in {"verifying", "reading", "polling"}
        \/ VerifyLease(p) /\ phase'[p] = "counting"
    BY <1>2, <1>10 DEF LeaseRow, VerifyLease, RunReturns
  <2> QED
    BY <1>4, <1>5, <2>1
<1>11. CASE CompleteRow(p) \/ CheckCompleted(p) \/ ReturnRow(p)
  <2>1. phase'[p] \in {"checking", "raised", "reading", "polling"}
    BY <1>2, <1>11 DEF CompleteRow, CheckCompleted, ReturnRow, RunReturns
  <2> QED
    BY <1>4, <2>1
<1> QED
  BY <1>6, <1>7, <1>8, <1>9, <1>10, <1>11 DEF ProcStep, ClaimStep, RunStep, SettleStep

LEMMA RemembersStep ==
    ASSUME UcInv, UcAssumption, WorkInv, Unshared, FenceInv, ~deployment.silent, [Next]_vars,
           NEW p \in Procs
    PROVE  Remembers(p)'
<1>1. Working(p) /\ Remembers(p)
  BY DEF WorkInv, FenceInv
<1>2. CASE Around(p) \/ ProcStep(p)
  BY <1>2, OwnRemembers
<1>3. CASE phase'[p] = "submitted"
  BY <1>3 DEF Remembers
<1>4. CASE phase'[p] \in {"new", "polling"}
  BY <1>4 DEF Remembers
<1>5. CASE /\ phase'[p] = phase[p] /\ local'[p] = local[p] /\ Task(p)' = Task(p)
           /\ p \in Active => \A t \in Stored' : table'[t].owner = Me(p) =>
                                  t \in Stored /\ table'[t] = table[t]
           /\ phase'[p] \notin {"new", "polling"}
  <2>1. p \in Active
    BY <1>1, <1>5 DEF Working
  <2>2. OwnsRow(p)' => OwnsRow(p) /\ table'[Task(p)] = table[Task(p)]
    BY <1>5, <2>1 DEF OwnsRow, Found, Me
  <2>3. OwnsRow(p)' => started'[Task(p)] = started[Task(p)]
    BY <1>5, <2>1, <2>2, OthersStart
  <2> QED
    BY <1>1, <1>5, <2>2, <2>3 DEF Remembers
<1> QED
  BY <1>2, <1>3, <1>4, <1>5, ApartSteps

LEMMA CountedStep ==
    ASSUME UcInv, UcAssumption, WorkInv, FenceInv, [Next]_vars, NEW t \in Stored'
    PROVE  started'[t] <= table'[t].attempt
<1>1. /\ \A x \in Stored : started[x] <= table[x].attempt /\ table[x].attempt \in Nat
      /\ started \in [Tasks -> Nat] /\ started' \in [Tasks -> Nat]
      /\ Stored \subseteq Tasks /\ Stored' \subseteq Tasks /\ Stored \subseteq Stored'
  BY StartedGrows DEF UcInv, Shape, WorkInv, FenceInv, Columns
<1>2. \A p \in Procs : Remembers(p)
  BY DEF FenceInv
<1>3. CASE \E p \in Procs, x \in Stored : Confirms(p, x)
  <2>1. PICK p \in Procs, x \in Stored : Confirms(p, x)
    BY <1>3
  <2>2. started[x] < table[x].attempt /\ table' = table /\ t \in Stored
    BY <1>2, <2>1 DEF Confirms, Remembers, Stored
  <2>3. started'[t] = IF t = x THEN started[x] + 1 ELSE started[t]
    BY <1>1, <2>1 DEF Confirms
  <2>4. started[x] \in Nat /\ table[x].attempt \in Nat
    BY <1>1, <2>1
  <2> QED
    BY <1>1, <2>2, <2>3, <2>4
<1>4. CASE started' = started
  <2>1. CASE t \in Stored /\ table'[t] = table[t]
    BY <1>1, <1>4, <2>1
  <2>2. ASSUME NEW p \in Procs, Writing(p), t = Task(p), t \in Stored
        PROVE  started'[t] <= table'[t].attempt
    <3>1. RowEarned(t) /\ Me(p) # None /\ started[t] \in Nat /\ table[t].attempt \in Nat
          /\ started[t] <= table[t].attempt
      BY <1>1, <2>2, Ids DEF WorkInv
    <3>2. CASE Counts(p, table[t], table'[t])
      <4>1. OwnsRow(p)
        BY <2>2, <3>1, <3>2 DEF Counts, RowEarned, OwnsRow, Found
      <4>2. local[p].attempt = table[t].attempt + 1
        BY <1>2, <2>2, <3>2, <4>1 DEF Counts, Remembers
      <4> QED
        BY <1>4, <3>1, <3>2, <4>2 DEF Counts
    <3>3. CASE table'[t].attempt = table[t].attempt
      BY <1>4, <3>1, <3>3
    <3> QED
      BY <2>2, <3>2, <3>3 DEF Writing, Leases, Marks, Completes, Returns
  <2>3. ASSUME NEW h \in Handoffs, table'[t] = NewRow(h), t \notin Stored
        PROVE  started'[t] <= table'[t].attempt
    <3>1. started[t] = 0
      BY <1>1, <2>3 DEF WorkInv
    <3> QED
      BY <1>4, <2>3, <3>1 DEF NewRow
  <2>4. \/ t \in Stored /\ table'[t] = table[t]
        \/ \E h \in Handoffs : table'[t] = NewRow(h) /\ t \notin Stored
        \/ \E p \in Procs : Writing(p) /\ t = Task(p) /\ t \in Stored
    <3>1. table' = table => t \in Stored /\ table'[t] = table[t]
      BY DEF Stored
    <3>2. ASSUME NEW h \in Handoffs, Insert(h)
          PROVE  \/ t \in Stored /\ table'[t] = table[t]
                 \/ table'[t] = NewRow(h) /\ t \notin Stored
      <4>1. CASE t \in Stored
        BY <3>2, <4>1, InsertEffects
      <4>2. CASE t \notin Stored
        BY <3>2, <4>2, InsertEffects
      <4> QED
        BY <4>1, <4>2
    <3> QED
      BY <3>1, <3>2, RowSteps DEF Writing
  <2> QED
    BY <2>1, <2>2, <2>3, <2>4
<1> QED
  BY <1>3, <1>4, StartedSteps

\* For any number of handoffs and app workers with worker ids of their own, as long as
\* no statement fails unnoticed: an overtaken worker cannot match the row any more,
\* and the counter that the claim reads, adds to and writes in separate statements
\* misses no execution (tasks.py: _claim_task_sync and its peers).
THEOREM AttemptsFenceWorkers ==
    ASSUME Unshared PROVE Spec => []AttemptsFence
<1>1. Init /\ ~deployment.silent => FenceInv /\ ~deployment.silent
  BY DEF Init, FenceInv, Remembers, OwnsRow, Found, Stored
<1>2. UcInv /\ WorkInv /\ FenceInv /\ ~deployment.silent /\ [Next]_vars
         => FenceInv' /\ (~deployment.silent)'
  <2> SUFFICES ASSUME UcInv, WorkInv, FenceInv, ~deployment.silent, [Next]_vars
               PROVE  FenceInv' /\ (~deployment.silent)'
    OBVIOUS
  <2>1. deployment' = deployment
    BY DEF Next, vars
  <2> QED
    BY <2>1, UcAssumption, RemembersStep, CountedStep DEF FenceInv
<1>3. FenceInv => AttemptsFence
  BY DEF FenceInv, Remembers, AttemptsFence, StaleWorkerIsFenced, RunsAreCounted
<1>4. deployment.silent => AttemptsFence
  BY DEF AttemptsFence, StaleWorkerIsFenced, RunsAreCounted
<1>5. deployment.silent /\ [Next]_vars => deployment.silent'
  BY DEF Next, vars
<1> QED
  BY <1>1, <1>2, <1>3, <1>4, <1>5, WorkInvInductive, PTL DEF Spec

----------------------------------------------------------------------------
(* The refinement: one abstract action for each kind of statement *)

\* No key is submitted by two handoffs of a deployment, since the bus would store
\* it twice.  Worker ids may be shared and statements may fail unnoticed.
KeysApart == \A d \in Deployments : \A g, h \in d.handoffs :
                 KeyOf[Request[g]] = KeyOf[Request[h]] => g = h

LeasesHaveEnds == \A t \in Stored : table[t].status \in Leased =>
                      table[t].owner # None /\ table[t].lease \in Nat

\* What a claim takes for the time was the time.
ClaimsLookBack == \A p \in Procs : phase[p] = "leasing" => local[p].current <= now

StoredWasAsked == \A t \in Stored : \E h \in deployment.handoffs :
                      t = Request[h] /\ phase[h] \notin {"new", "inserting"}

LifeInv == LeasesHaveEnds /\ ClaimsLookBack /\ StoredWasAsked

LEMMA Clock ==
    ASSUME UcInv, UcAssumption, [Next]_vars
    PROVE  /\ now \in Nat /\ now' \in Nat /\ now <= now'
           /\ table' = table \/ now' = now
<1>1. now \in Nat
  BY DEF UcInv, Shape
<1>2. CASE Tick
  BY <1>1, <1>2 DEF Tick
<1>3. CASE UNCHANGED vars
  BY <1>1, <1>3 DEF vars
<1>4. ASSUME NEW h \in Handoffs, Lookup(h) \/ Insert(h)
      PROVE  now' = now
  BY <1>4 DEF Lookup, Insert
<1> QED
  BY <1>1, <1>2, <1>3, <1>4, Steps

LEMMA RowOrigin ==
    ASSUME UcInv, UcAssumption, [Next]_vars, NEW t \in Stored'
    PROVE  \/ t \in Stored /\ table'[t] = table[t]
           \/ \E h \in Handoffs : Insert(h) /\ t \notin Stored /\ table'[t] = NewRow(h)
           \/ \E p \in Procs : Writing(p) /\ t = Task(p) /\ t \in Stored
<1>1. table' = table => t \in Stored /\ table'[t] = table[t]
  BY DEF Stored
<1>2. ASSUME NEW h \in Handoffs, Insert(h)
      PROVE  \/ t \in Stored /\ table'[t] = table[t]
             \/ t \notin Stored /\ table'[t] = NewRow(h)
  BY <1>2, InsertEffects
<1> QED
  BY <1>1, <1>2, RowSteps DEF Writing

\* The owner and the status a statement of p leaves in its row.
LEMMA WrittenRow ==
    ASSUME UcInv, UcAssumption, WorkInv, LifeInv, NEW p \in Procs, Writing(p)
    PROVE  LET r == table[Task(p)]
               n == table'[Task(p)]
           IN \/ /\ Claimable(Task(p), local[p].current) /\ phase[p] = "leasing"
                 /\ n.status = "claimed" /\ n.owner = Me(p) /\ n.lease \in Nat
              \/ /\ r.owner = Me(p) /\ r.status \in Leased /\ n.status \in Leased
                 /\ n.owner = r.owner /\ n.lease = r.lease
              \/ /\ r.owner = Me(p) /\ r.status \in Leased /\ n.owner = None
                 /\ n.status \in {"pending"} \cup Settled
<1> DEFINE r == table[Task(p)]
           n == table'[Task(p)]
<1>1. RowEarned(Task(p)) /\ Working(p) /\ Me(p) # None /\ local[p].lease \in Nat
  BY Ids, Remembered DEF WorkInv, Writing, UcInv
<1>2. r.owner = Me(p) => r.status \in Leased
  BY <1>1 DEF RowEarned
<1>3. CASE Leases(p, r, n)
  BY <1>1, <1>3 DEF Leases
<1>4. CASE Counts(p, r, n) \/ Marks(p, r, n)
  BY <1>2, <1>4 DEF Counts, Marks, Leased
<1>5. CASE Completes(p, r, n)
  BY <1>1, <1>2, <1>5 DEF Completes, OwnsRow, Working, Settled
<1>6. CASE Returns(p, r, n)
  BY <1>1, <1>2, <1>6 DEF Returns, Working, Settled
<1> QED
  BY <1>3, <1>4, <1>5, <1>6 DEF Writing

LEMMA LeaseEndsStep ==
    ASSUME UcInv, UcAssumption, WorkInv, LifeInv, [Next]_vars
    PROVE  LeasesHaveEnds'
<1> SUFFICES ASSUME NEW t \in Stored', table'[t].status \in Leased
             PROVE  table'[t].owner # None /\ table'[t].lease \in Nat
  BY DEF LeasesHaveEnds
<1>1. CASE t \in Stored /\ table'[t] = table[t]
  BY <1>1 DEF LifeInv, LeasesHaveEnds
<1>2. ASSUME NEW h \in Handoffs, table'[t] = NewRow(h)
      PROVE  FALSE
  BY <1>2 DEF NewRow, Leased
<1>3. ASSUME NEW p \in Procs, Writing(p), t = Task(p), t \in Stored
      PROVE  table'[t].owner # None /\ table'[t].lease \in Nat
  <2>1. table[t].status \in Leased => table[t].owner # None /\ table[t].lease \in Nat
    BY <1>3 DEF LifeInv, LeasesHaveEnds
  <2>2. Me(p) # None
    BY Ids
  <2> QED
    BY <1>3, <2>1, <2>2, WrittenRow DEF Leased, Settled
<1> QED
  BY <1>1, <1>2, <1>3, RowOrigin

LEMMA WhoClaims ==
    ASSUME UcInv, NEW p \in Procs, Around(p) \/ ProcStep(p), phase'[p] = "leasing"
    PROVE  local'[p].current = now /\ now' = now
<1>1. /\ \A ph : GoTo(p, ph) => phase'[p] = ph
      /\ \A t : Begins(p, t) => local'[p].current = now
  BY DEF GoTo, Begins, NoLocal, UcInv, Shape
<1>2. CASE Around(p)
  BY <1>1, <1>2 DEF Around, Lookup, BeginClaimTask, Answer, SelectCandidate, Restarted
<1>3. CASE ClaimStep(p)
  BY <1>1, <1>3 DEF ClaimStep, LeaseRow, VerifyLease, CountAttempt, RunReturns
<1>4. CASE RunStep(p)
  BY <1>1, <1>4 DEF RunStep, Deny, MarkRunning, ConfirmRunning, ExecutorReturns
<1>5. CASE SettleStep(p)
  BY <1>1, <1>5 DEF SettleStep, CompleteRow, CheckCompleted, DecideFailure, ReturnRow, RunReturns
<1>6. CASE Interrupted(p)
  BY <1>1, <1>6 DEF Interrupted
<1> QED
  BY <1>2, <1>3, <1>4, <1>5, <1>6 DEF ProcStep

LEMMA LooksBackStep ==
    ASSUME UcInv, UcAssumption, LifeInv, [Next]_vars
    PROVE  ClaimsLookBack'
<1> SUFFICES ASSUME NEW p \in Procs, phase'[p] = "leasing" PROVE local'[p].current <= now'
  BY DEF ClaimsLookBack
<1>1. now \in Nat /\ now' \in Nat /\ now <= now'
  BY Clock
<1>2. ASSUME phase'[p] = phase[p], local'[p] = local[p]
      PROVE  local'[p].current <= now'
  <2>1. local[p].current \in Nat /\ local[p].current <= now
    BY <1>2 DEF LifeInv, ClaimsLookBack, UcInv, Shape, Local
  <2> QED
    BY <1>1, <1>2, <2>1
<1>3. ASSUME NEW h \in Handoffs, Insert(h)
      PROVE  local'[p].current <= now'
  BY <1>2, <1>3, InsertEffects
<1>4. CASE Around(p) \/ ProcStep(p)
  BY <1>1, <1>4, WhoClaims
<1> QED
  BY <1>2, <1>3, <1>4, RowSteps

LEMMA AskedStep ==
    ASSUME UcInv, UcAssumption, WorkInv, LifeInv, [Next]_vars
    PROVE  StoredWasAsked'
<1> SUFFICES ASSUME NEW t \in Stored'
             PROVE  \E h \in deployment'.handoffs :
                        t = Request[h] /\ phase'[h] \notin {"new", "inserting"}
  BY DEF StoredWasAsked
<1>1. deployment' = deployment /\ deployment \in Deployments
  BY DEF Next, vars, WorkInv
<1>2. deployment.handoffs \subseteq Handoffs /\ Handoffs \subseteq Procs
  BY <1>1, ActiveProcs DEF Procs
<1>3. ASSUME NEW h \in Handoffs, phase[h] \notin {"new", "inserting"}
      PROVE  phase'[h] \notin {"new", "inserting"}
  <2>1. h \in Procs
    BY <1>2
  <2>2. ASSUME NEW g \in Handoffs, Lookup(g)
        PROVE  phase'[h] = phase[h]
    BY <1>3, <2>2, <2>1 DEF Lookup, GoTo, UcInv, Shape
  <2>3. ASSUME NEW g \in Handoffs, Insert(g)
        PROVE  phase'[h] \notin {"new", "inserting"}
    BY <1>3, <2>3, <2>1, InsertEffects
  <2>4. ASSUME NEW p \in Procs, Moves(p)
        PROVE  phase'[h] \notin {"new", "inserting"}
    BY <1>3, <2>4, <2>1 DEF Moves
  <2>5. CASE Tick \/ UNCHANGED vars
    BY <1>3, <2>5 DEF Tick, vars
  <2> QED
    BY <1>3, <2>2, <2>3, <2>4, <2>5, Steps
<1>4. CASE t \in Stored
  BY <1>1, <1>2, <1>3, <1>4 DEF LifeInv, StoredWasAsked
<1>5. CASE t \notin Stored
  <2>1. PICK h \in Handoffs : Insert(h)
    BY <1>5, RowOrigin
  <2>2. h \in deployment.handoffs
    <3>1. h \in Active
      BY <1>2, <2>1 DEF WorkInv, Working, Insert
    <3> QED
      BY <1>1, <3>1, ActiveProcs DEF Active, UcAssumption
  <2>3. t = Request[h] /\ phase'[h] = "submitted"
    <3>1. Task(h) = Request[h]
      BY <2>1 DEF Insert, UcInv, InsertIsFirst
    <3> QED
      BY <1>5, <2>1, <3>1, InsertEffects DEF Insert, Stored
  <2> QED
    BY <1>1, <2>2, <2>3
<1> QED
  BY <1>4, <1>5

USE DEF Lifecycle!lifecycleVars

\* A statement that writes nothing, and the passing of time.
LEMMA ReadingRefines ==
    ASSUME UcInv, UcAssumption, LifeInv, [Next]_vars, table' = table
    PROVE  Lifecycle!Lapse(LapsedTasks') /\ LapsedTasks' \in SUBSET Tasks
<1>1. Stored' = Stored /\ now \in Nat /\ now' \in Nat /\ now <= now' /\ Stored \subseteq Tasks
  BY Clock DEF Stored, UcInv, Shape
<1>2. \A t \in Stored : table[t].status \in Leased =>
          table[t].owner # None /\ table[t].lease \in Nat
  BY DEF LifeInv, LeasesHaveEnds
<1>3. LapsedTasks \subseteq LapsedTasks' /\ LapsedTasks' \subseteq Stored
  BY <1>1, <1>2 DEF LapsedTasks
<1>4. \A t \in LapsedTasks' : Holder[t] # None
  BY <1>1, <1>2 DEF LapsedTasks, Holder
<1>5. Holder' = Holder /\ SettledTasks' = SettledTasks
  BY <1>1 DEF Holder, SettledTasks
<1> QED
  BY <1>1, <1>3, <1>4, <1>5 DEF Lifecycle!Lapse

LEMMA InsertRefines ==
    ASSUME UcInv, UcAssumption, WorkInv, LifeInv, KeysApart, [Next]_vars,
           NEW h \in Handoffs, Insert(h), table' # table
    PROVE  Lifecycle!Accept(Task(h)) /\ Task(h) \in Tasks
<1>1. /\ Task(h) = Request[h] /\ Request[h] \notin Stored /\ Request[h] \in Tasks
      /\ phase[h] = "inserting" /\ now' = now
  BY DEF Insert, UcInv, InsertIsFirst, UcAssumption
<1>2. /\ Stored' = Stored \cup {Task(h)} /\ table'[Task(h)] = NewRow(h)
      /\ \A t \in Stored : table'[t] = table[t]
  BY <1>1 DEF Insert, Stored
<1>3. \A x \in Stored : KeyOf[x] # KeyOf[Task(h)]
  <2>1. h \in deployment.handoffs /\ deployment \in Deployments
    <3>1. h \in Active /\ deployment \in Deployments
      BY <1>1 DEF WorkInv, Working, Procs
    <3> QED
      BY <3>1, ActiveProcs DEF Active, UcAssumption
  <2>2. ASSUME NEW x \in Stored, KeyOf[x] = KeyOf[Task(h)]
        PROVE  FALSE
    <3>1. PICK g \in deployment.handoffs :
              x = Request[g] /\ phase[g] \notin {"new", "inserting"}
      BY DEF LifeInv, StoredWasAsked
    <3>2. g = h
      BY <1>1, <2>1, <2>2, <3>1 DEF KeysApart
    <3> QED
      BY <1>1, <3>1, <3>2
  <2> QED
    BY <2>2
<1>4. Holder' = Holder
  BY <1>1, <1>2 DEF Holder, NewRow
<1>5. LapsedTasks' = LapsedTasks
  BY <1>1, <1>2 DEF LapsedTasks, NewRow, Leased
<1>6. SettledTasks' = SettledTasks
  BY <1>1, <1>2 DEF SettledTasks, NewRow, Settled
<1> QED
  BY <1>1, <1>2, <1>3, <1>4, <1>5, <1>6 DEF Lifecycle!Accept

LEMMA WritingRefines ==
    ASSUME UcInv, UcAssumption, WorkInv, LifeInv, [Next]_vars, NEW p \in Procs, Writing(p),
           table' # table
    PROVE  Lifecycle!Next \/ UNCHANGED Lifecycle!lifecycleVars
<1> DEFINE x == Task(p)
           r == table[x]
           n == table'[x]
<1>1. /\ x \in Stored /\ Stored \subseteq Tasks /\ Stored' = Stored /\ now' = now /\ now \in Nat
      /\ \A t \in Stored \ {x} : table'[t] = table[t]
  BY Clock DEF Writing, UcInv, Shape
<1>2. /\ Me(p) \in Workers /\ Me(p) # None /\ RowEarned(x)
      /\ r.status \in Leased => r.owner # None /\ r.lease \in Nat
  BY <1>1, Ids DEF WorkInv, LifeInv, LeasesHaveEnds
<1>3. /\ Holder[x] = r.owner
      /\ \A w : n.owner = w => Holder' = [Holder EXCEPT ![x] = w]
  BY <1>1 DEF Holder
<1>4. /\ n.status \in Settled => SettledTasks' = SettledTasks \cup {x}
      /\ r.status \notin Settled /\ n.status \notin Settled => SettledTasks' = SettledTasks
  BY <1>1 DEF SettledTasks
<1>5. /\ n.status \notin Leased => LapsedTasks' = LapsedTasks \ {x}
      /\ \E over \in SUBSET {x} : LapsedTasks' = (LapsedTasks \ {x}) \cup over
  <2>1. \A t \in Stored \ {x} : t \in LapsedTasks' <=> t \in LapsedTasks
    BY <1>1 DEF LapsedTasks
  <2>2. LapsedTasks \subseteq Stored /\ LapsedTasks' \subseteq Stored
    BY <1>1 DEF LapsedTasks
  <2>3. n.status \notin Leased => x \notin LapsedTasks'
    BY DEF LapsedTasks
  <2>4. LapsedTasks' = (LapsedTasks \ {x}) \cup (LapsedTasks' \cap {x})
    BY <2>1, <2>2
  <2> QED
    BY <2>3, <2>4
<1>6. Leased \cap Settled = {} /\ "pending" \notin Leased \cup Settled
  BY DEF Leased, Settled
<1>7. CASE /\ Claimable(x, local[p].current) /\ phase[p] = "leasing"
           /\ n.status = "claimed" /\ n.owner = Me(p) /\ n.lease \in Nat
  <2>1. local[p].current <= now /\ local[p].current \in Nat
    BY <1>7 DEF LifeInv, ClaimsLookBack, UcInv, Shape, Local
  <2>2. r.status \notin Settled /\ n.status \notin Settled
    BY <1>6, <1>7 DEF Claimable, Leased, Settled
  <2>3. Holder[x] = None \/ x \in LapsedTasks
    <3>1. CASE r.status = "pending"
      BY <1>2, <1>3, <1>6, <3>1 DEF RowEarned
    <3>2. CASE r.status \in Leased /\ r.lease <= local[p].current
      BY <1>1, <1>2, <2>1, <3>2 DEF LapsedTasks
    <3> QED
      BY <1>7, <3>1, <3>2 DEF Claimable
  <2>4. x \in Stored \ SettledTasks /\ SettledTasks' = SettledTasks
    BY <1>1, <1>4, <2>2 DEF SettledTasks
  <2>5. Holder' = [t \in Tasks |-> IF t = x THEN Me(p) ELSE Holder[t]]
    BY <1>1, <1>7 DEF Holder
  <2>6. Lifecycle!Lease(Me(p), x, {})
    BY <1>1, <1>5, <2>3, <2>4, <2>5 DEF Lifecycle!Lease
  <2> QED
    BY <1>1, <1>2, <2>6 DEF Lifecycle!Next
<1>8. CASE /\ r.owner = Me(p) /\ r.status \in Leased /\ n.status \in Leased
           /\ n.owner = r.owner /\ n.lease = r.lease
  <2>1. Holder' = Holder
    BY <1>1, <1>8 DEF Holder
  <2>2. SettledTasks' = SettledTasks
    BY <1>4, <1>6, <1>8
  <2>3. LapsedTasks' = LapsedTasks
    BY <1>1, <1>8 DEF LapsedTasks
  <2> QED
    BY <1>1, <2>1, <2>2, <2>3
<1>9. CASE /\ r.owner = Me(p) /\ r.status \in Leased /\ n.owner = None
           /\ n.status \in {"pending"} \cup Settled
  <2>1. /\ Holder[x] # None /\ Holder' = [Holder EXCEPT ![x] = None]
        /\ LapsedTasks' = LapsedTasks \ {x} /\ x \in Tasks
    BY <1>1, <1>2, <1>3, <1>5, <1>6, <1>9
  <2>2. CASE n.status = "pending"
    <3>1. SettledTasks' = SettledTasks
      BY <1>4, <1>6, <1>9, <2>2
    <3>2. Lifecycle!GiveBack(x)
      BY <1>1, <2>1, <3>1 DEF Lifecycle!GiveBack
    <3> QED
      BY <2>1, <3>2 DEF Lifecycle!Next
  <2>3. CASE n.status \in Settled
    <3>1. Lifecycle!Finish(x)
      BY <1>1, <1>4, <2>1, <2>3 DEF Lifecycle!Finish
    <3> QED
      BY <2>1, <3>1 DEF Lifecycle!Next
  <2> QED
    BY <1>9, <2>2, <2>3
<1> QED
  BY <1>7, <1>8, <1>9, WrittenRow

\* The Delta bus implements the abstract life cycle of a delegation task, for any
\* number of handoffs and app workers, worker ids shared or not, and statements that
\* fail unnoticed, if no two handoffs submit one key (tasks.py, the WHERE clauses).
THEOREM DurableBusImplementsLifecycle ==
    ASSUME KeysApart PROVE Spec => ImplementsLifecycle
<1>1. Init => LifeInv /\ Lifecycle!Init
  <2>1. Init => LifeInv
    BY DEF Init, LifeInv, LeasesHaveEnds, ClaimsLookBack, StoredWasAsked, Stored, Procs
  <2>2. Init => Lifecycle!Init
    BY DEF Init, Lifecycle!Init, Stored, Holder, LapsedTasks, SettledTasks
  <2> QED
    BY <2>1, <2>2
<1>2. UcInv /\ WorkInv /\ LifeInv /\ [Next]_vars => LifeInv'
  BY UcAssumption, LeaseEndsStep, LooksBackStep, AskedStep DEF LifeInv
<1>3. UcInv /\ WorkInv /\ LifeInv /\ [Next]_vars =>
          [Lifecycle!Next]_(Lifecycle!lifecycleVars)
  <2> SUFFICES ASSUME UcInv, WorkInv, LifeInv, [Next]_vars
               PROVE  Lifecycle!Next \/ UNCHANGED Lifecycle!lifecycleVars
    OBVIOUS
  <2>1. UcAssumption
    BY UcAssumption
  <2>2. CASE table' = table
    BY <2>1, <2>2, ReadingRefines DEF Lifecycle!Next
  <2>3. ASSUME NEW h \in Handoffs, Insert(h), table' # table
        PROVE  Lifecycle!Next
    BY <2>1, <2>3, InsertRefines DEF Lifecycle!Next
  <2>4. ASSUME NEW p \in Procs, Writing(p), table' # table
        PROVE  Lifecycle!Next \/ UNCHANGED Lifecycle!lifecycleVars
    BY <2>1, <2>4, WritingRefines
  <2> QED
    BY <2>1, <2>2, <2>3, <2>4, RowSteps
<1> QED
  BY <1>1, <1>2, <1>3, WorkInvInductive, PTL DEF Spec, ImplementsLifecycle, Lifecycle!Spec

=============================================================================
