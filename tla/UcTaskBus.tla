----------------------------- MODULE UcTaskBus -----------------------------
(***************************************************************************)
(* UcAgentTaskBus (infrastructure/persistence/tasks.py) and the handoffs   *)
(* and app workers of several application processes that share its Delta   *)
(* table.  Each SQL statement is awaited on its own, so each is one action *)
(* and everything else may happen in between.  What a coroutine remembers  *)
(* from one statement to the next is its `local` record.  The event table  *)
(* is only appended to and never read: its INSERTs are left out, but a     *)
(* statement that raises (Interrupted) may be one of them.                 *)
(***************************************************************************)
EXTENDS Integers, FiniteSets

CONSTANTS Handoffs,      \* calls of execute_delegation
          AppWorkers,    \* run_forever loops, of any number of processes
          Tasks, Keys, KeyOf,
          Request,       \* the task object each handoff creates
          Workers,       \* worker id strings
          WorkerId,      \* the worker id of each handoff and app worker
          Permitted,     \* the tasks each one's delegation policy allows
          MaxAttempts, LeaseSeconds,
          MaxRuns,       \* bound: attempts and executor starts of a task
          Deployments,   \* the deployments in question, one of which is running
          None           \* NULL

Procs == Handoffs \cup AppWorkers
ResultStatus == {"succeeded", "rejected"}

\* Which handoffs and app workers there are, whether a statement may fail without
\* raising, and, a bound, when the clock stops.
Deployment == [handoffs : SUBSET Handoffs, apps : SUBSET AppWorkers,
               silent : BOOLEAN, until : Nat]

ASSUME UcAssumption ==
    /\ Handoffs \cap AppWorkers = {}
    /\ KeyOf \in [Tasks -> Keys]
    /\ Request \in [Handoffs -> Tasks]
    /\ \A g, h \in Handoffs : Request[g] = Request[h] => g = h
    /\ WorkerId \in [Procs -> Workers]
    /\ Permitted \in [Procs -> SUBSET Tasks]
    /\ MaxAttempts \in Nat \ {0}
    /\ LeaseSeconds \in Nat \ {0}
    /\ MaxRuns \in Nat
    /\ Deployments \subseteq Deployment
    /\ None \notin Tasks \cup Workers \cup Nat \cup ResultStatus
    /\ None \notin {"output", "unknown", "pending", "claimed", "running", "dead_letter"}

VARIABLES deployment,
          table,    \* the rows of agent_delegation_tasks by task_id
          now,      \* utc_now() of every process
          phase,    \* the next statement of each process
          local,    \* what each process remembers
          answer,   \* what each handoff returned
          started   \* history: how often the executor of each task was started

vars == <<deployment, table, now, phase, local, answer, started>>

Stored == DOMAIN table
Leased == {"claimed", "running"}
Settled == {"succeeded", "rejected", "dead_letter"}
Status == {"pending"} \cup Leased \cup Settled

Row == [status : Status, attempt : Nat, owner : Workers \cup {None},
        lease : Nat \cup {None}, result : ResultStatus \cup {None}, created : Nat]

\* The statements a process stands before, and where it ends.
Phase == {"new", "inserting", "submitted", "polling",
          "leasing", "verifying", "counting", "claimed",
          "confirming", "executing", "completing", "checking",
          "failing", "returning", "reading", "answered", "raised"}

\* task, the attempt and the status to be written, `current` and lease_until.
Local == [task : Tasks \cup {None}, attempt : Nat, outcome : Status \cup {None},
          current : Nat, lease : Nat]
NoLocal == [task |-> None, attempt |-> 0, outcome |-> None, current |-> 0, lease |-> 0]

TypeOK ==
    /\ Stored \subseteq Tasks
    /\ table \in [Stored -> Row]
    /\ deployment \in Deployments
    /\ now \in 0..deployment.until
    /\ phase \in [Procs -> Phase]
    /\ local \in [Procs -> Local]
    /\ answer \in [Handoffs -> {"output", "unknown", None} \cup Status]
    /\ started \in [Tasks -> Nat]

Init ==
    /\ deployment \in Deployments
    /\ table = << >>
    /\ now = 0
    /\ phase = [p \in Procs |-> IF p \in Handoffs THEN "new" ELSE "polling"]
    /\ local = [p \in Procs |-> NoLocal]
    /\ answer = [h \in Handoffs |-> None]
    /\ started = [t \in Tasks |-> 0]

----------------------------------------------------------------------------
(* SQL: what a statement does to the table, or that it silently did nothing *)

GoTo(p, ph) == phase' = [phase EXCEPT ![p] = ph]

Task(p) == local[p].task
Me(p) == WorkerId[p]

\* UPDATE the row of p's task with `new` WHERE `matches`.  The API reports a
\* failed statement in its response, which _execute_sync does not look at.
UpdateRow(p, matches, new) ==
    \/ table' = IF Task(p) \in Stored /\ matches THEN [table EXCEPT ![Task(p)] = new] ELSE table
    \/ deployment.silent /\ table' = table

\* A SELECT of p's task finds its row, unless it silently failed.
Found(p) == Task(p) \in Stored

\* Mutants of Claimable: a lease does not protect; what is not leased is free.
ClaimableLeased(t, c) == table[t].status \in {"pending"} \cup Leased
ClaimableSettled(t, c) ==
    table[t].status \notin Leased \/ (table[t].lease # None /\ table[t].lease <= c)

\* The condition under which both claims lease a row at time c; expires_at is
\* not part of it.
Claimable(t, c) ==
    \/ table[t].status = "pending"
    \/ table[t].status \in Leased /\ table[t].lease # None /\ table[t].lease <= c

\* Mutants of OwnsRow: only the status is matched; only that it was claimed.
OwnsAnyLease(p) == Found(p) /\ table[Task(p)].status \in Leased
OwnsOnceClaimed(p) == Found(p) /\ table[Task(p)].status # "pending"

OwnsRow(p) == Found(p) /\ table[Task(p)].owner = Me(p) /\ table[Task(p)].status \in Leased

----------------------------------------------------------------------------
(* submit(): look the key up, then insert *)

Lookup(h) ==
    LET same == {t \in Stored : KeyOf[t] = KeyOf[Request[h]]} IN
    /\ h \in deployment.handoffs
    /\ phase[h] = "new"
    /\ \/ \E t \in same :
             /\ local' = [local EXCEPT ![h].task = t]
             /\ GoTo(h, "submitted")
       \/ /\ same = {} \/ deployment.silent
          /\ local' = [local EXCEPT ![h].task = Request[h], ![h].current = now]
          /\ GoTo(h, "inserting")
    /\ UNCHANGED <<table, now, answer, started>>

NewRow(h) == [status |-> "pending", attempt |-> 0, owner |-> None, lease |-> None,
              result |-> None, created |-> local[h].current]

Insert(h) ==
    /\ phase[h] = "inserting"
    /\ \/ table' = [t \in Stored \cup {Task(h)} |-> IF t = Task(h) THEN NewRow(h) ELSE table[t]]
       \/ deployment.silent /\ table' = table
    /\ GoTo(h, "submitted")
    /\ UNCHANGED <<now, local, answer, started>>

----------------------------------------------------------------------------
(* claim() and claim_task() *)

\* Both fix `current` and lease_until before their first statement.
Begins(p, t) ==
    local' = [local EXCEPT ![p] = [NoLocal EXCEPT !.task = t, !.current = now,
                                                  !.lease = now + LeaseSeconds]]

\* SELECT the oldest claimable task.
SelectCandidate(a) ==
    LET candidates == {t \in Stored : Claimable(t, now)} IN
    /\ a \in deployment.apps
    /\ phase[a] = "polling"
    /\ \E t \in candidates :
          /\ \A x \in candidates : table[t].created <= table[x].created
          /\ Begins(a, t)
    /\ GoTo(a, "leasing")
    /\ UNCHANGED <<table, now, answer, started>>

BeginClaimTask(h) ==
    /\ phase[h] = "submitted"
    /\ Begins(h, Task(h))
    /\ GoTo(h, "leasing")
    /\ UNCHANGED <<table, now, answer, started>>

LeaseRow(p) ==
    /\ phase[p] = "leasing"
    /\ UpdateRow(p, Claimable(Task(p), local[p].current),
                 [table[Task(p)] EXCEPT !.status = "claimed", !.owner = Me(p),
                                        !.lease = local[p].lease])
    /\ GoTo(p, "verifying")
    /\ UNCHANGED <<now, local, answer, started>>

\* run_once has nothing to do, or is done with the record in hand.
RunReturns(p) ==
    IF p \in Handoffs
      THEN GoTo(p, "reading") /\ UNCHANGED local
      ELSE GoTo(p, "polling") /\ local' = [local EXCEPT ![p] = NoLocal]

VerifyLease(p) ==
    LET verified == OwnsRow(p) /\ table[Task(p)].status = "claimed" IN
    /\ phase[p] = "verifying"
    /\ \/ /\ verified
          /\ table[Task(p)].attempt < MaxRuns
          /\ local' = [local EXCEPT ![p].attempt = table[Task(p)].attempt + 1]
          /\ GoTo(p, "counting")
       \/ /\ ~verified \/ deployment.silent
          /\ RunReturns(p)
    /\ UNCHANGED <<table, now, answer, started>>

\* A mutant of CountAttempt: the attempt that was read is written back.
CountsNothing(p) ==
    /\ phase[p] = "counting"
    /\ UpdateRow(p, table[Task(p)].owner = Me(p),
                 [table[Task(p)] EXCEPT !.attempt = local[p].attempt - 1])
    /\ GoTo(p, "claimed")
    /\ UNCHANGED <<now, local, answer, started>>

CountAttempt(p) ==
    /\ phase[p] = "counting"
    /\ UpdateRow(p, table[Task(p)].owner = Me(p),
                 [table[Task(p)] EXCEPT !.attempt = local[p].attempt])
    /\ GoTo(p, "claimed")
    /\ UNCHANGED <<now, local, answer, started>>

----------------------------------------------------------------------------
(* run_once: policy, mark_running(), the executor, complete() and fail() *)

\* The policy denies the task: complete() with "rejected".
Deny(p) ==
    /\ phase[p] = "claimed"
    /\ Task(p) \notin Permitted[p]
    /\ local' = [local EXCEPT ![p].outcome = "rejected"]
    /\ GoTo(p, "completing")
    /\ UNCHANGED <<table, now, answer, started>>

MarkRunning(p) ==
    /\ phase[p] = "claimed"
    /\ Task(p) \in Permitted[p]
    /\ UpdateRow(p, table[Task(p)].owner = Me(p) /\ table[Task(p)].status = "claimed",
                 [table[Task(p)] EXCEPT !.status = "running"])
    /\ GoTo(p, "confirming")
    /\ UNCHANGED <<now, local, answer, started>>

ConfirmRunning(p) ==
    LET running == OwnsRow(p) /\ table[Task(p)].status = "running" IN
    /\ phase[p] = "confirming"
    /\ \/ /\ running
          /\ started[Task(p)] < MaxRuns
          /\ GoTo(p, "executing")
          /\ started' = [started EXCEPT ![Task(p)] = @ + 1]
       \/ /\ ~running \/ deployment.silent
          /\ GoTo(p, "raised")
          /\ UNCHANGED started
    /\ UNCHANGED <<table, now, local, answer>>

ExecutorReturns(p) ==
    /\ phase[p] = "executing"
    /\ \/ local' = [local EXCEPT ![p].outcome = "succeeded"] /\ GoTo(p, "completing")
       \/ UNCHANGED local /\ GoTo(p, "failing")
    /\ UNCHANGED <<table, now, answer, started>>

CompleteRow(p) ==
    /\ phase[p] = "completing"
    /\ UpdateRow(p, OwnsRow(p),
                 [table[Task(p)] EXCEPT !.status = local[p].outcome,
                                        !.result = local[p].outcome,
                                        !.owner = None, !.lease = None])
    /\ GoTo(p, "checking")
    /\ UNCHANGED <<now, local, answer, started>>

\* complete() looks at the status only, not at who reached it.
CheckCompleted(p) ==
    LET reached == Found(p) /\ table[Task(p)].status = local[p].outcome IN
    /\ phase[p] = "checking"
    /\ \/ reached /\ RunReturns(p)
       \/ /\ ~reached \/ deployment.silent
          /\ GoTo(p, "raised") /\ UNCHANGED local
    /\ UNCHANGED <<table, now, answer, started>>

DecideFailure(p) ==
    /\ phase[p] = "failing"
    /\ \/ /\ OwnsRow(p)
          /\ local' = [local EXCEPT ![p].outcome =
                IF table[Task(p)].attempt >= MaxAttempts THEN "dead_letter" ELSE "pending"]
          /\ GoTo(p, "returning")
       \/ /\ ~OwnsRow(p) \/ deployment.silent
          /\ GoTo(p, "raised") /\ UNCHANGED local
    /\ UNCHANGED <<table, now, answer, started>>

\* A mutant of ReturnRow: the UPDATE does not match the lease owner.
ReturnsAnyRow(p) ==
    /\ phase[p] = "returning"
    /\ UpdateRow(p, TRUE, [table[Task(p)] EXCEPT !.status = local[p].outcome,
                                                 !.owner = None, !.lease = None])
    /\ RunReturns(p)
    /\ UNCHANGED <<now, answer, started>>

\* The UPDATE of fail(), and the read after it, which only checks that the row
\* is found.
ReturnRow(p) ==
    /\ phase[p] = "returning"
    /\ UpdateRow(p, table[Task(p)].owner = Me(p),
                 [table[Task(p)] EXCEPT !.status = local[p].outcome,
                                        !.owner = None, !.lease = None])
    /\ \/ RunReturns(p)
       \/ deployment.silent /\ GoTo(p, "raised") /\ UNCHANGED local
    /\ UNCHANGED <<now, answer, started>>

Answer(h) ==
    /\ phase[h] = "reading"
    /\ \/ /\ Found(h)
          /\ answer' = [answer EXCEPT ![h] =
                IF table[Task(h)].result = "succeeded" THEN "output" ELSE table[Task(h)].status]
       \/ /\ ~Found(h) \/ deployment.silent
          /\ answer' = [answer EXCEPT ![h] = "unknown"]
    /\ GoTo(h, "answered")
    /\ UNCHANGED <<table, now, local, started>>

----------------------------------------------------------------------------
(* Failures and time *)

\* A statement raises, the request is cancelled or the process dies between two
\* statements.  A handoff is over; an app worker is started again by the next
\* process, which may get the same process id.
Interrupted(p) ==
    /\ phase[p] \notin {"new", "polling", "answered", "raised"}
    /\ IF p \in Handoffs
         THEN GoTo(p, "raised") /\ UNCHANGED local
         ELSE GoTo(p, "polling") /\ local' = [local EXCEPT ![p] = NoLocal]
    /\ UNCHANGED <<table, now, answer, started>>

Restarted(a) ==
    /\ phase[a] = "raised"
    /\ GoTo(a, "polling")
    /\ local' = [local EXCEPT ![a] = NoLocal]
    /\ UNCHANGED <<table, now, answer, started>>

Tick ==
    /\ now < deployment.until
    /\ now' = now + 1
    /\ UNCHANGED <<table, phase, local, answer, started>>

SubmitStep(h) == Lookup(h) \/ Insert(h)
ClaimStep(p) == LeaseRow(p) \/ VerifyLease(p) \/ CountAttempt(p)
RunStep(p) == Deny(p) \/ MarkRunning(p) \/ ConfirmRunning(p) \/ ExecutorReturns(p)
SettleStep(p) == CompleteRow(p) \/ CheckCompleted(p) \/ DecideFailure(p) \/ ReturnRow(p)

ProcStep(p) == ClaimStep(p) \/ RunStep(p) \/ SettleStep(p) \/ Interrupted(p)

Step ==
    \/ \E h \in Handoffs : SubmitStep(h) \/ BeginClaimTask(h) \/ Answer(h)
    \/ \E a \in AppWorkers : SelectCandidate(a) \/ Restarted(a)
    \/ \E p \in Procs : ProcStep(p)
    \/ Tick

Next == Step /\ UNCHANGED deployment

Spec == Init /\ [][Next]_vars

----------------------------------------------------------------------------
(* What the durable bus promises *)

\* While the lease one worker got still runs, no other worker executes the same
\* task, although leasing, verifying and starting are separate statements.  If the
\* UPDATE of a claim failed unnoticed, a restarted worker may take the row of its
\* earlier run, whose lease is over, for the one it leased.
OneExecutorPerLease ==
    ~deployment.silent => \A p, q \in Procs :
        (p # q /\ phase[p] = "executing" /\ phase[q] = "executing" /\ Task(p) = Task(q))
            => (local[p].lease <= now \/ local[q].lease <= now)

\* A worker that has been overtaken can no longer match the row it worked on:
\* as long as it would match, the row still counts its own attempt, unless the
\* statement that counts it failed unnoticed.
StaleWorkerIsFenced ==
    ~deployment.silent => \A p \in Procs :
        (phase[p] \in {"executing", "completing", "failing", "returning"} /\ OwnsRow(p))
            => table[Task(p)].attempt = local[p].attempt

\* The read-modify-write of the attempt counter loses no execution, whatever
\* takeovers happen between the read and the write, unless the write failed unnoticed.
RunsAreCounted == ~deployment.silent => \A t \in Stored : started[t] <= table[t].attempt

\* Attempts tell the workers of a task apart: each execution is counted, so an
\* overtaken worker carries another number than the row.
AttemptsFence == StaleWorkerIsFenced /\ RunsAreCounted

\* fail() decides from a row it read before its UPDATE; the decision still fits
\* the row it is written to.
AttemptBudgetDecides ==
    \A t \in Stored :
        /\ table[t].status = "pending" => table[t].attempt < MaxAttempts
        /\ table[t].status = "dead_letter" => table[t].attempt >= MaxAttempts

\* Success and dead-lettering are only recorded of tasks that were executed,
\* rejection only of tasks that some policy denies, and a handoff's answer agrees
\* with the row for good once it was final.
OutcomeIsEarned ==
    /\ \A t \in Stored :
          /\ table[t].status \in {"succeeded", "dead_letter"} => started[t] > 0
          /\ table[t].status = "rejected" => \E p \in Procs : t \notin Permitted[p]
    /\ \A h \in Handoffs :
          /\ answer[h] = "output" => table[Task(h)].status = "succeeded"
          /\ answer[h] \in Settled => table[Task(h)].status = answer[h]

\* No late statement of an overtaken, cancelled or restarted worker changes a
\* settled row.
SettledRowsAreFinal ==
    [][\A t \in Stored : table[t].status \in Settled => table'[t] = table[t]]_vars

\* The abstract state a table stands for, as the rows say whatever the processes
\* remember.
Holder == [t \in Tasks |-> IF t \in Stored THEN table[t].owner ELSE None]
LapsedTasks == {t \in Stored : table[t].status \in Leased /\ table[t].lease <= now}
SettledTasks == {t \in Stored : table[t].status \in Settled}

Lifecycle == INSTANCE TaskLifecycle WITH
    accepted <- Stored,
    holder   <- Holder,
    lapsed   <- LapsedTasks,
    settled  <- SettledTasks

\* Several processes with separate statements, which may be interleaved, lost or
\* never sent, still make one bus: a task changes hands only when nobody holds it or
\* its lease has lapsed, and is never held again once it is settled.
ImplementsLifecycle == Lifecycle!Spec

----------------------------------------------------------------------------
(* What the documents say and the code does not do *)

\* tasks.py:211: "Insert a task unless its idempotency key already exists."
OneRowPerKey == \A s, t \in Stored : KeyOf[s] = KeyOf[t] => s = t
=============================================================================
