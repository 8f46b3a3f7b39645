---------------------- MODULE DelegationRuntime_proofs ----------------------
(***************************************************************************)
(* First the task bus alone: its invariants, its action properties and     *)
(* that it implements TaskLifecycle, from BusAssumption.  Then the process *)
(* that uses it: its handoffs, app workers and approvals keep what the bus *)
(* promises to any client, their leases protect and fence them, and what   *)
(* they report was earned, for any number of each.                         *)
(***************************************************************************)
EXTENDS DelegationRuntime, SequenceTheorems, FiniteSetTheorems, TLAPS

\* A record that was claimed, marked running, settled or expired is a record,
\* given that the record it was made from is one.
LEMMA RecordTypes ==
    ASSUME TypeOK, NEW t \in Stored, NEW w \in Workers, NEW s \in ResultStatus
    PROVE  /\ NewRecord \in Record
           /\ ExpiredRecord(t) \in Record
           /\ ClaimedRecord(t, w) \in Record
           /\ [records[t] EXCEPT !.status = "running"] \in Record
           /\ [records[t] EXCEPT !.status = s, !.result = s,
                                 !.owner = None, !.lease = None] \in Record
           /\ [records[t] EXCEPT !.status = FailedStatus(records[t]),
                                 !.failure = "error",
                                 !.owner = None, !.lease = None] \in Record
<1> DEFINE r == records[t]
<1>1. r \in Record /\ now \in Nat
  BY BusAssumption DEF TypeOK
<1>2. LeaseEnd \in Nat
  BY <1>1, BusAssumption DEF LeaseEnd
<1>3. FailedStatus(r) \in Status
  BY DEF FailedStatus, Status, Settled
<1>4. NewRecord \in Record
  BY DEF NewRecord, Record, Status
<1>5. ExpiredRecord(t) \in Record
  BY <1>1 DEF ExpiredRecord, Record, Status, Settled
<1>6. ClaimedRecord(t, w) \in Record
  <2>1. r.attempt + 1 \in Nat
    BY <1>1 DEF Record
  <2> QED
    BY <1>2, <2>1 DEF ClaimedRecord, NewRecord, Record, Status, Leased
<1>7. [r EXCEPT !.status = "running"] \in Record
  BY <1>1 DEF Record, Status, Leased
<1>8. [r EXCEPT !.status = s, !.result = s, !.owner = None, !.lease = None] \in Record
  BY <1>1 DEF Record, Status, Settled, ResultStatus
<1>9. [r EXCEPT !.status = FailedStatus(r), !.failure = "error",
                !.owner = None, !.lease = None] \in Record
  BY <1>1, <1>3 DEF Record
<1> QED
  BY <1>4, <1>5, <1>6, <1>7, <1>8, <1>9

\* What expiring and settling a record changes in it.
LEMMA ExpiredFields ==
    ASSUME TypeOK, NEW x \in Stored
    PROVE  /\ ExpiredRecord(x) \in Record
           /\ ExpiredRecord(x).status = "expired"
<1> DEFINE r == records[x]
<1>1. r \in Record
  BY DEF TypeOK
<1> HIDE DEF r
<1>2. [r EXCEPT !.status = "expired", !.failure = "task_expired"].status = "expired"
  BY <1>1 DEF Record
<1>3. [r EXCEPT !.status = "expired", !.failure = "task_expired"] \in Record
  BY <1>1 DEF Record, Status, Settled
<1> QED
  BY <1>2, <1>3 DEF ExpiredRecord, r

LEMMA SettledStatus ==
    ASSUME NEW r \in Record, NEW s \in Status, NEW result, NEW failure
    PROVE  /\ [r EXCEPT !.status = s, !.result = result,
                        !.owner = None, !.lease = None].status = s
           /\ [r EXCEPT !.status = s, !.failure = failure,
                        !.owner = None, !.lease = None].status = s
  BY DEF Record

\* Every method of the bus stores well-typed records.
THEOREM TypeCorrect == Spec => []TypeOK
<1>1. Init => TypeOK
  BY BusAssumption DEF Init, TypeOK, Stored
<1>2. TypeOK /\ [Next]_busVars => TypeOK'
  <2> SUFFICES ASSUME TypeOK, [Next]_busVars
               PROVE  TypeOK'
    OBVIOUS
  <2> USE BusAssumption
  <2>1. ASSUME NEW t \in Tasks, Submit(t)
        PROVE  TypeOK'
    <3>1. CASE taskIdByKey[KeyOf[t]] = None
      <4>1. Stored' = Stored \cup {t}
        BY <2>1, <3>1 DEF Submit, Stored
      <4>2. records' \in [Stored' -> Record]
        <5>1. NewRecord \in Record
          BY DEF NewRecord, Record, Status
        <5> QED
          BY <2>1, <3>1, <4>1, <5>1 DEF Submit, TypeOK
      <4>3. order' \in Seq(Stored')
        <5>1. order \in Seq(Stored) /\ Stored \subseteq Stored'
          BY <4>1 DEF TypeOK
        <5>2. order \in Seq(Stored')
          BY ONLY <5>1, SeqMonotonic
        <5>3. t \in Stored' /\ order' = Append(order, t)
          BY <2>1, <3>1, <4>1 DEF Submit
        <5>4. Append(order, t) \in Seq(Stored')
          BY ONLY <5>2, <5>3, AppendProperties
        <5> QED
          BY <5>3, <5>4
      <4> QED
        BY <2>1, <3>1, <4>1, <4>2, <4>3 DEF Submit, TypeOK
    <3>2. CASE taskIdByKey[KeyOf[t]] # None
      BY <2>1, <3>2 DEF Submit, TypeOK, Stored
    <3> QED
      BY <3>1, <3>2
  <2>2. ASSUME records' \in [Stored -> Record], UNCHANGED <<order, taskIdByKey, now>>
        PROVE  TypeOK'
    BY <2>2 DEF TypeOK, Stored
  <2>3. ASSUME NEW t \in Tasks, ClaimTaskRefused(t)
        PROVE  TypeOK'
    <3>1. t \in Stored /\ ExpiredRecord(t) \in Record
      BY <2>3, ExpiredFields DEF ClaimTaskRefused
    <3>2. records' \in [Stored -> Record] /\ UNCHANGED <<order, taskIdByKey, now>>
      BY <2>3, <3>1 DEF ClaimTaskRefused, TypeOK
    <3> QED
      BY <2>2, <3>2
  <2>4. ASSUME NEW w \in Workers, Claim(w)
        PROVE  TypeOK'
    <3>1. \A t \in Stored : ClaimedRecord(t, w) \in Record /\ ExpiredRecord(t) \in Record
      BY RecordTypes DEF ResultStatus
    <3>2. ASSUME NEW i \in 1..Len(order), ClaimAt(w, i)
          PROVE  TypeOK'
      BY <2>2, <3>1, <3>2 DEF ClaimAt, TypeOK
    <3>3. CASE ClaimNothing
      BY <2>2, <3>1, <3>3 DEF ClaimNothing, TypeOK
    <3> QED
      BY <2>4, <3>2, <3>3 DEF Claim
  <2>5. ASSUME NEW w \in Workers, NEW t \in Tasks, ClaimTask(w, t)
        PROVE  TypeOK'
    BY <2>2, <2>5, RecordTypes DEF ClaimTask, TypeOK, ResultStatus
  <2>6. ASSUME NEW w \in Workers, NEW t \in Tasks, MarkRunning(w, t)
        PROVE  TypeOK'
    <3>1. [records[t] EXCEPT !.status = "running"] \in Record
      BY <2>6, RecordTypes DEF MarkRunning, ResultStatus
    <3> QED
      BY <2>2, <2>6, <3>1 DEF MarkRunning, TypeOK
  <2>7. ASSUME NEW w \in Workers, NEW t \in Tasks, Settle(w, t)
        PROVE  TypeOK'
    <3>1. ASSUME NEW s \in ResultStatus, Complete(w, t, s)
          PROVE  TypeOK'
      BY <2>2, <3>1, RecordTypes DEF Complete, TypeOK
    <3>2. CASE Fail(w, t)
      BY <2>2, <3>2, RecordTypes DEF Fail, TypeOK, ResultStatus
    <3> QED
      BY <2>7, <3>1, <3>2 DEF Settle
  <2>8. CASE Tick
    BY <2>8 DEF Tick, TypeOK, Stored
  <2>9. CASE UNCHANGED busVars
    BY <2>9 DEF busVars, TypeOK, Stored
  <2> QED
    BY <2>1, <2>3, <2>4, <2>5, <2>6, <2>7, <2>8, <2>9 DEF Next
<1> QED
  BY <1>1, <1>2, PTL DEF Spec

----------------------------------------------------------------------------
(* What one step may do to one record: the case split every other proof uses *)

Claimed(t) == \E w \in Workers : Claimable(t) /\ records'[t] = ClaimedRecord(t, w)

Expired(t) == PastExpiry(t) /\ records'[t] = ExpiredRecord(t)

Started(t) == /\ records[t].status \in Leased
              /\ records'[t] = [records[t] EXCEPT !.status = "running"]

Completed(t) == /\ records[t].status \in Leased
                /\ \E s \in ResultStatus :
                      records'[t] = [records[t] EXCEPT !.status = s, !.result = s,
                                                       !.owner = None, !.lease = None]

Failed(t) == /\ records[t].status \in Leased
             /\ records'[t] = [records[t] EXCEPT !.status = FailedStatus(records[t]),
                                                 !.failure = "error",
                                                 !.owner = None, !.lease = None]

Untouched(t) == records'[t] = records[t]

RecordStep(t) == Untouched(t) \/ Claimed(t) \/ Expired(t) \/ Started(t)
                              \/ Completed(t) \/ Failed(t)

\* A step keeps every stored record and changes each in one of these ways.
LEMMA StepOfRecord ==
    ASSUME TypeOK, [Next]_busVars
    PROVE  /\ Stored \subseteq Stored'
           /\ \A t \in Stored : RecordStep(t)
           /\ \A t \in Stored' \ Stored : records'[t] = NewRecord
<1> USE DEF Stored
<1>1. ASSUME NEW t \in Tasks, Submit(t)
      PROVE  /\ Stored \subseteq Stored'
             /\ \A x \in Stored : Untouched(x)
             /\ \A x \in Stored' \ Stored : records'[x] = NewRecord
  BY <1>1 DEF Submit, Untouched
<1>2. ASSUME NEW t \in Tasks, ClaimTaskRefused(t)
      PROVE  Stored' = Stored /\ \A x \in Stored : Untouched(x) \/ Expired(x)
  BY <1>2 DEF ClaimTaskRefused, Untouched, Expired, TypeOK
<1>3. ASSUME NEW w \in Workers, NEW i \in 1..Len(order), ClaimAt(w, i)
      PROVE  Stored' = Stored /\ \A x \in Stored : Untouched(x) \/ Expired(x) \/ Claimed(x)
  BY <1>3 DEF ClaimAt, Untouched, Expired, Claimed
<1>4. CASE ClaimNothing
  BY <1>4 DEF ClaimNothing, Untouched, Expired, RecordStep
<1>5. ASSUME NEW w \in Workers, NEW t \in Tasks, ClaimTask(w, t)
      PROVE  Stored' = Stored /\ \A x \in Stored : Untouched(x) \/ Claimed(x)
  BY <1>5 DEF ClaimTask, Untouched, Claimed, TypeOK
<1>6. ASSUME NEW w \in Workers, NEW t \in Tasks, MarkRunning(w, t)
      PROVE  Stored' = Stored /\ \A x \in Stored : Untouched(x) \/ Started(x)
  BY <1>6 DEF MarkRunning, Owns, Untouched, Started, TypeOK
<1>7. ASSUME NEW w \in Workers, NEW t \in Tasks, NEW s \in ResultStatus, Complete(w, t, s)
      PROVE  Stored' = Stored /\ \A x \in Stored : Untouched(x) \/ Completed(x)
  BY <1>7 DEF Complete, Owns, Untouched, Completed, TypeOK
<1>8. ASSUME NEW w \in Workers, NEW t \in Tasks, Fail(w, t)
      PROVE  Stored' = Stored /\ \A x \in Stored : Untouched(x) \/ Failed(x)
  BY <1>8 DEF Fail, Owns, Untouched, Failed, TypeOK
<1>9. CASE Tick \/ UNCHANGED busVars
  BY <1>9 DEF Tick, busVars, Untouched, RecordStep
<1> QED
  BY <1>1, <1>2, <1>3, <1>4, <1>5, <1>6, <1>7, <1>8, <1>9
  DEF Next, Claim, Settle, RecordStep

----------------------------------------------------------------------------
(* The invariants: together they are inductive *)

BusInv == TypeOK /\ LeaseComplete /\ OneTaskPerKey /\ AttemptBudgetDecides /\ ResultMatchesStatus

LEMMA NoneIsNoValue == None \notin Workers /\ None \notin Nat /\ None \notin ResultStatus
  BY BusAssumption

\* Time, the leases and the results of a typed state are of the kinds they seem.
LEMMA LeaseEndIsTime ==
    ASSUME TypeOK
    PROVE  now \in Nat /\ LeaseEnd \in Nat /\ now < LeaseEnd
  BY BusAssumption DEF TypeOK, LeaseEnd

LEMMA LeaseCompleteStep ==
    ASSUME TypeOK, TypeOK', [Next]_busVars, LeaseComplete
    PROVE  LeaseComplete'
<1> SUFFICES ASSUME NEW t \in Stored', records'[t].status # "expired"
             PROVE  /\ (records'[t].status \in Leased) <=> (records'[t].owner # None)
                    /\ (records'[t].owner # None) <=> (records'[t].lease # None)
  BY DEF LeaseComplete, Leased
<1>1. CASE t \notin Stored
  BY <1>1, StepOfRecord DEF NewRecord, Leased
<1>2. CASE t \in Stored
  <2> DEFINE r == records[t]
  <2>1. r \in Record
    BY <1>2 DEF TypeOK
  <2>2. r.status # "expired" =>
           /\ (r.status \in Leased) <=> (r.owner # None)
           /\ (r.owner # None) <=> (r.lease # None)
    BY <1>2 DEF LeaseComplete
  <2>3. CASE Untouched(t)
    BY <2>2, <2>3 DEF Untouched
  <2>4. CASE Claimed(t)
    BY <2>4, NoneIsNoValue, LeaseEndIsTime DEF Claimed, ClaimedRecord, NewRecord, Leased
  <2>5. CASE Expired(t)
    BY <2>1, <2>5 DEF Expired, ExpiredRecord, Record
  <2>6. CASE Started(t)
    BY <2>1, <2>2, <2>6 DEF Started, Record, Leased
  <2>7. CASE Completed(t)
    BY <2>1, <2>7 DEF Completed, Record, Leased, ResultStatus
  <2>8. CASE Failed(t)
    BY <2>1, <2>8 DEF Failed, FailedStatus, Record, Leased
  <2> QED
    BY <1>2, <2>3, <2>4, <2>5, <2>6, <2>7, <2>8, StepOfRecord DEF RecordStep
<1> QED
  BY <1>1, <1>2

LEMMA OneTaskPerKeyStep ==
    ASSUME TypeOK, [Next]_busVars, OneTaskPerKey
    PROVE  OneTaskPerKey'
<1>1. ASSUME NEW t \in Tasks, Submit(t)
      PROVE  OneTaskPerKey'
  BY <1>1, BusAssumption DEF Submit, OneTaskPerKey, TypeOK, Stored
<1>2. ASSUME Stored' = Stored, UNCHANGED taskIdByKey
      PROVE  OneTaskPerKey'
  BY <1>2 DEF OneTaskPerKey
<1>3. CASE \E t \in Tasks : Submit(t)
  BY <1>1, <1>3
<1>4. CASE ~ \E t \in Tasks : Submit(t)
  <2>1. Stored' = Stored /\ UNCHANGED taskIdByKey
    BY <1>4 DEF Next, Claim, ClaimAt, ClaimNothing, ClaimTask, ClaimTaskRefused,
                MarkRunning, Settle, Complete, Fail, Tick, busVars, Stored, TypeOK
  <2> QED
    BY <1>2, <2>1
<1> QED
  BY <1>3, <1>4

LEMMA AttemptBudgetDecidesStep ==
    ASSUME TypeOK, [Next]_busVars, AttemptBudgetDecides
    PROVE  AttemptBudgetDecides'
<1> SUFFICES ASSUME NEW t \in Stored'
             PROVE  LET r == records'[t] IN
                    /\ r.status = "pending" => r.attempt < MaxAttempts
                    /\ r.status = "dead_letter" => r.attempt >= MaxAttempts
                    /\ (r.status = "pending" /\ r.attempt > 0) => r.failure = "error"
  BY DEF AttemptBudgetDecides
<1> USE BusAssumption
<1>1. CASE t \notin Stored
  BY <1>1, StepOfRecord DEF NewRecord
<1>2. CASE t \in Stored
  <2> DEFINE r == records[t]
  <2>1. r \in Record
    BY <1>2 DEF TypeOK
  <2>2. /\ r.status = "pending" => r.attempt < MaxAttempts
        /\ r.status = "dead_letter" => r.attempt >= MaxAttempts
        /\ (r.status = "pending" /\ r.attempt > 0) => r.failure = "error"
    BY <1>2 DEF AttemptBudgetDecides
  <2>3. CASE Untouched(t)
    BY <2>2, <2>3 DEF Untouched
  <2>4. CASE Claimed(t)
    BY <2>4 DEF Claimed, ClaimedRecord, NewRecord
  <2>5. CASE Expired(t)
    BY <2>1, <2>5 DEF Expired, ExpiredRecord, Record
  <2>6. CASE Started(t)
    BY <2>1, <2>6 DEF Started, Record
  <2>7. CASE Completed(t)
    BY <2>1, <2>7 DEF Completed, Record, ResultStatus
  <2>8. CASE Failed(t)
    BY <2>1, <2>8 DEF Failed, FailedStatus, Record
  <2> QED
    BY <1>2, <2>3, <2>4, <2>5, <2>6, <2>7, <2>8, StepOfRecord DEF RecordStep
<1> QED
  BY <1>1, <1>2

LEMMA ResultMatchesStatusStep ==
    ASSUME TypeOK, [Next]_busVars, ResultMatchesStatus
    PROVE  ResultMatchesStatus'
<1> SUFFICES ASSUME NEW t \in Stored'
             PROVE  LET r == records'[t] IN
                    /\ r.result # None => r.status \in {r.result, "expired"}
                    /\ r.status \in ResultStatus => r.result = r.status
  BY DEF ResultMatchesStatus, ResultStatus
<1>1. CASE t \notin Stored
  BY <1>1, StepOfRecord DEF NewRecord, ResultStatus
<1>2. CASE t \in Stored
  <2> DEFINE r == records[t]
  <2>1. r \in Record
    BY <1>2 DEF TypeOK
  <2>2. /\ r.result # None => r.status \in {r.result, "expired"}
        /\ r.status \in ResultStatus => r.result = r.status
    BY <1>2 DEF ResultMatchesStatus
  <2>3. r.status \in Leased => r.result = None
    BY <2>1, <2>2 DEF Record, ResultStatus, Leased
  <2>4. CASE Untouched(t)
    BY <2>2, <2>4 DEF Untouched
  <2>5. CASE Claimed(t)
    BY <2>5 DEF Claimed, ClaimedRecord, NewRecord, ResultStatus
  <2>6. CASE Expired(t)
    BY <2>1, <2>2, <2>6 DEF Expired, ExpiredRecord, Record, ResultStatus
  <2>7. CASE Started(t)
    BY <2>1, <2>3, <2>7 DEF Started, Record, ResultStatus
  <2>8. CASE Completed(t)
    BY <2>1, <2>8 DEF Completed, Record, ResultStatus
  <2>9. CASE Failed(t)
    BY <2>1, <2>3, <2>9 DEF Failed, FailedStatus, Record, ResultStatus
  <2> QED
    BY <1>2, <2>4, <2>5, <2>6, <2>7, <2>8, <2>9, StepOfRecord DEF RecordStep
<1> QED
  BY <1>1, <1>2

LEMMA BusInvInductive == Spec => []BusInv
<1>1. Init => LeaseComplete /\ OneTaskPerKey /\ AttemptBudgetDecides /\ ResultMatchesStatus
  BY DEF Init, Stored, LeaseComplete, OneTaskPerKey, AttemptBudgetDecides, ResultMatchesStatus
<1>2. TypeOK /\ TypeOK' /\ BusInv /\ [Next]_busVars => BusInv'
  BY LeaseCompleteStep, OneTaskPerKeyStep, AttemptBudgetDecidesStep, ResultMatchesStatusStep
  DEF BusInv
<1>3. TypeOK /\ LeaseComplete /\ OneTaskPerKey /\ AttemptBudgetDecides /\ ResultMatchesStatus
        => BusInv
  BY DEF BusInv
<1> QED
  BY <1>1, <1>2, <1>3, TypeCorrect, PTL DEF Spec

\* A leased record always has the owner and the lease end needed to recover it,
\* and an unleased one has neither (_require_owned relies on it).
THEOREM LeaseAlwaysComplete == Spec => []LeaseComplete
  BY BusInvInductive, PTL DEF BusInv

\* submit() stores one task per idempotency key, whatever the interleaving.
THEOREM KeysAreIdempotent == Spec => []OneTaskPerKey
  BY BusInvInductive, PTL DEF BusInv

\* fail() retries exactly the tasks that have attempts left.
THEOREM BudgetDecides == Spec => []AttemptBudgetDecides
  BY BusInvInductive, PTL DEF BusInv

\* complete() is the only source of results, and they are never misreported.
THEOREM ResultsMatch == Spec => []ResultMatchesStatus
  BY BusInvInductive, PTL DEF BusInv

----------------------------------------------------------------------------
(* The action properties *)

LEMMA NoTheftStep ==
    ASSUME BusInv, [Next]_busVars, NEW t \in Stored,
           records[t].owner \in Workers, records'[t].owner \in Workers,
           records'[t].owner # records[t].owner
    PROVE  records[t].lease <= now /\ records'[t].attempt = records[t].attempt + 1
<1>1. records[t] \in Record /\ RecordStep(t)
  BY StepOfRecord DEF BusInv, TypeOK
<1>2. Claimed(t)
  BY <1>1, NoneIsNoValue
  DEF RecordStep, Untouched, Expired, ExpiredRecord, Started, Completed, Failed, Record
<1>3. records[t].status # "pending"
  BY NoneIsNoValue DEF BusInv, LeaseComplete, Leased
<1>4. LeaseExpired(t)
  BY <1>2, <1>3 DEF Claimed, Claimable
<1>5. records'[t].attempt = records[t].attempt + 1
  BY <1>2 DEF Claimed, ClaimedRecord, NewRecord
<1> QED
  BY <1>4, <1>5 DEF LeaseExpired

\* Mutual exclusion of leases over time: claim and claim_task never take a task
\* from a worker whose lease still runs.
THEOREM NoLeaseIsStolen == Spec => LeaseNeverStolen
<1>1. BusInv /\ [Next]_busVars =>
        [\A t \in Stored :
          (/\ records[t].owner \in Workers
           /\ records'[t].owner \in Workers
           /\ records'[t].owner # records[t].owner)
          => /\ records[t].lease <= now
             /\ records'[t].attempt = records[t].attempt + 1]_busVars
  BY NoTheftStep
<1> QED
  BY <1>1, BusInvInductive, PTL DEF Spec, LeaseNeverStolen

LEMMA SettledStep ==
    ASSUME BusInv, [Next]_busVars, NEW t \in Stored, records[t].status \in Settled
    PROVE  /\ records'[t].status \in {records[t].status, "expired"}
           /\ records'[t].result = records[t].result
           /\ records'[t].attempt = records[t].attempt
<1>1. records[t] \in Record /\ RecordStep(t)
  BY StepOfRecord DEF BusInv, TypeOK
<1>2. records[t].status \notin Leased \cup {"pending"}
  BY DEF Settled, Leased
<1>3. Untouched(t) \/ Expired(t)
  BY <1>1, <1>2 DEF RecordStep, Claimed, Claimable, LeaseExpired, Started, Completed, Failed
<1> QED
  BY <1>1, <1>3 DEF Untouched, Expired, ExpiredRecord, Record

\* Work that was settled is never offered to a worker again.
THEOREM SettledStaysSettled == Spec => SettledNeverReopened
<1>1. BusInv /\ [Next]_busVars =>
        [\A t \in Stored :
          records[t].status \in Settled =>
              /\ records'[t].status \in {records[t].status, "expired"}
              /\ records'[t].result = records[t].result
              /\ records'[t].attempt = records[t].attempt]_busVars
  BY SettledStep
<1> QED
  BY <1>1, BusInvInductive, PTL DEF Spec, SettledNeverReopened

----------------------------------------------------------------------------
(* The refinement: one abstract action for each method of the bus *)

USE DEF Lifecycle!lifecycleVars

LEMMA SubmitRefines ==
    ASSUME BusInv, NEW t \in Tasks, Submit(t)
    PROVE  Lifecycle!Accept(t) \/ UNCHANGED Lifecycle!lifecycleVars
<1>1. CASE taskIdByKey[KeyOf[t]] = None
  <2>1. \A x \in Stored : KeyOf[x] # KeyOf[t]
    BY <1>1, BusAssumption DEF BusInv, OneTaskPerKey, TypeOK
  <2>2. /\ Stored' = Stored \cup {t} /\ t \notin Stored /\ now' = now
        /\ records'[t] = NewRecord
        /\ \A x \in Stored : records'[x] = records[x]
    BY <1>1 DEF Submit, Stored
  <2>3. Holder' = Holder
    BY <2>2 DEF Holder, HolderOf, NewRecord, Leased
  <2>4. LapsedTasks' = LapsedTasks
    BY <2>2 DEF LapsedTasks, LeaseExpired, NewRecord, Leased
  <2>5. SettledTasks' = SettledTasks
    BY <2>2 DEF SettledTasks, NewRecord, Settled
  <2> QED
    BY <2>1, <2>2, <2>3, <2>4, <2>5 DEF Lifecycle!Accept
<1>2. CASE taskIdByKey[KeyOf[t]] # None
  BY <1>2 DEF Submit, Stored, Holder, HolderOf, LapsedTasks, LeaseExpired, SettledTasks
<1> QED
  BY <1>1, <1>2

\* Leasing t and expiring the records of `dead`, as claim and claim_task do.
LEMMA LeaseRefines ==
    ASSUME BusInv, NEW w \in Workers, NEW t \in Stored, NEW dead \in SUBSET Stored,
           Claimable(t), t \notin dead, Stored' = Stored, now' = now,
           records'[t] = ClaimedRecord(t, w),
           \A x \in dead : records'[x] = ExpiredRecord(x),
           \A x \in Stored \ (dead \cup {t}) : records'[x] = records[x]
    PROVE  Lifecycle!Lease(w, t, dead)
<1>1. TypeOK
  BY DEF BusInv
<1>2. ASSUME NEW x \in dead
      PROVE  records'[x].status = "expired"
  <2>1. x \in Stored /\ records'[x] = ExpiredRecord(x)
    OBVIOUS
  <2> QED
    BY <1>1, <2>1, ExpiredFields
<1>3. records'[t].status = "claimed" /\ records'[t].owner = w /\ records'[t].lease = LeaseEnd
  BY DEF ClaimedRecord, NewRecord
<1>4. t \in Tasks /\ dead \subseteq Tasks
  BY DEF BusInv, TypeOK
<1>5. t \notin SettledTasks
  BY DEF Claimable, LeaseExpired, SettledTasks, Settled, Leased
<1>6. Holder[t] = None \/ t \in LapsedTasks
  BY <1>4 DEF Claimable, Holder, HolderOf, LapsedTasks, Leased
<1>7. SettledTasks' = SettledTasks \cup dead
  BY <1>2, <1>3, <1>5 DEF SettledTasks, Settled
<1>8. LapsedTasks' = LapsedTasks \ (dead \cup {t})
  <2>1. LeaseEnd \in Nat /\ now \in Nat /\ now < LeaseEnd
    BY LeaseEndIsTime DEF BusInv
  <2>2. ~LeaseExpired(t)'
    BY <1>3, <2>1 DEF LeaseExpired
  <2>3. \A x \in dead : ~LeaseExpired(x)'
    BY <1>2 DEF LeaseExpired, Leased
  <2>4. \A x \in Stored \ (dead \cup {t}) : LeaseExpired(x)' <=> LeaseExpired(x)
    BY DEF LeaseExpired
  <2> QED
    BY <2>2, <2>3, <2>4 DEF LapsedTasks
<1>9. Holder' = [x \in Tasks |-> IF x = t THEN w
                                 ELSE IF x \in dead THEN None ELSE Holder[x]]
  BY <1>2, <1>3, <1>4 DEF Holder, HolderOf, Leased
<1>10. \E over \in SUBSET {t} : LapsedTasks' = (LapsedTasks \ (dead \cup {t})) \cup over
  <2>1. LapsedTasks' = (LapsedTasks \ (dead \cup {t})) \cup {} /\ {} \in SUBSET {t}
    BY <1>8
  <2> QED
    BY <2>1
<1> QED
  BY <1>5, <1>6, <1>7, <1>9, <1>10 DEF Lifecycle!Lease

\* Expiring the records of `dead` and nothing else.
LEMMA DropRefines ==
    ASSUME BusInv, NEW dead \in SUBSET Stored, Stored' = Stored, now' = now,
           \A x \in dead : records'[x] = ExpiredRecord(x),
           \A x \in Stored \ dead : records'[x] = records[x]
    PROVE  Lifecycle!Drop(dead)
<1>1. ASSUME NEW x \in dead
      PROVE  records'[x].status = "expired"
  <2>1. TypeOK /\ x \in Stored /\ records'[x] = ExpiredRecord(x)
    BY DEF BusInv
  <2> QED
    BY <2>1, ExpiredFields
<1>2. dead \subseteq Tasks
  BY DEF BusInv, TypeOK
<1>3. SettledTasks' = SettledTasks \cup dead
  BY <1>1 DEF SettledTasks, Settled
<1>4. LapsedTasks' = LapsedTasks \ dead
  <2>1. \A x \in dead : ~LeaseExpired(x)'
    BY <1>1 DEF LeaseExpired, Leased
  <2>2. \A x \in Stored \ dead : LeaseExpired(x)' <=> LeaseExpired(x)
    BY DEF LeaseExpired
  <2> QED
    BY <2>1, <2>2 DEF LapsedTasks
<1>5. Holder' = [x \in Tasks |-> IF x \in dead THEN None ELSE Holder[x]]
  BY <1>1, <1>2 DEF Holder, HolderOf, Leased
<1> QED
  BY <1>3, <1>4, <1>5 DEF Lifecycle!Drop

LEMMA ClaimRefines ==
    ASSUME BusInv, NEW w \in Workers, Claim(w)
    PROVE  Lifecycle!Next
<1>1. ASSUME NEW i \in 1..Len(order), ClaimAt(w, i)
      PROVE  Lifecycle!Next
  <2> DEFINE t == order[i]
             dead == {x \in Stored : PastExpiry(x) /\ \E j \in 1..(i - 1) : order[j] = x}
  <2>1. t \in Stored
    BY ElementOfSeq DEF BusInv, TypeOK
  <2>2. Claimable(t) /\ t \notin dead
    BY <1>1 DEF ClaimAt, Claimable
  <2>3. /\ Stored' = Stored /\ now' = now
        /\ records'[t] = ClaimedRecord(t, w)
        /\ \A x \in dead : records'[x] = ExpiredRecord(x)
        /\ \A x \in Stored \ (dead \cup {t}) : records'[x] = records[x]
    BY <1>1, <2>1, <2>2 DEF ClaimAt, Stored
  <2> HIDE DEF dead
  <2>4. dead \in SUBSET Stored
    BY DEF dead
  <2>5. Lifecycle!Lease(w, t, dead)
    BY <2>1, <2>2, <2>3, <2>4, LeaseRefines
  <2> QED
    BY <2>1, <2>4, <2>5 DEF Lifecycle!Next, BusInv, TypeOK
<1>2. CASE ClaimNothing
  <2> DEFINE dead == {x \in Stored : PastExpiry(x)}
  <2>1. /\ Stored' = Stored /\ now' = now
        /\ \A x \in dead : records'[x] = ExpiredRecord(x)
        /\ \A x \in Stored \ dead : records'[x] = records[x]
    BY <1>2 DEF ClaimNothing, Stored
  <2> HIDE DEF dead
  <2>2. dead \in SUBSET Stored
    BY DEF dead
  <2>3. Lifecycle!Drop(dead)
    BY <2>1, <2>2, DropRefines
  <2> QED
    BY <2>2, <2>3 DEF Lifecycle!Next, BusInv, TypeOK
<1> QED
  BY <1>1, <1>2 DEF Claim

LEMMA ClaimTaskRefines ==
    ASSUME BusInv, NEW w \in Workers, NEW t \in Tasks, ClaimTask(w, t)
    PROVE  Lifecycle!Next
<1>1. /\ t \in Stored /\ Claimable(t) /\ Stored' = Stored /\ now' = now
      /\ records'[t] = ClaimedRecord(t, w)
      /\ \A x \in Stored \ {t} : records'[x] = records[x]
  BY DEF ClaimTask, Stored, BusInv, TypeOK
<1>2. Lifecycle!Lease(w, t, {})
  BY <1>1, LeaseRefines
<1> QED
  BY <1>2 DEF Lifecycle!Next

LEMMA ClaimTaskRefusedRefines ==
    ASSUME BusInv, NEW t \in Tasks, ClaimTaskRefused(t)
    PROVE  Lifecycle!Next \/ UNCHANGED Lifecycle!lifecycleVars
<1>1. CASE PastExpiry(t)
  <2>1. /\ t \in Stored /\ Stored' = Stored /\ now' = now
        /\ records'[t] = ExpiredRecord(t)
        /\ \A x \in Stored \ {t} : records'[x] = records[x]
    BY <1>1 DEF ClaimTaskRefused, Stored, BusInv, TypeOK
  <2>2. Lifecycle!Drop({t})
    BY <2>1, DropRefines
  <2> QED
    BY <2>2 DEF Lifecycle!Next
<1>2. CASE ~PastExpiry(t)
  BY <1>2
  DEF ClaimTaskRefused, Stored, Holder, HolderOf, LapsedTasks, LeaseExpired, SettledTasks
<1> QED
  BY <1>1, <1>2

LEMMA MarkRunningRefines ==
    ASSUME BusInv, NEW w \in Workers, NEW t \in Tasks, MarkRunning(w, t)
    PROVE  UNCHANGED Lifecycle!lifecycleVars
<1>1. /\ t \in Stored /\ Stored' = Stored /\ now' = now
      /\ records[t].status \in Leased /\ records'[t].status = "running"
      /\ records'[t].owner = records[t].owner /\ records'[t].lease = records[t].lease
      /\ \A x \in Stored \ {t} : records'[x] = records[x]
  BY DEF MarkRunning, Owns, Stored, BusInv, TypeOK, Record
<1> QED
  BY <1>1 DEF Holder, HolderOf, LapsedTasks, LeaseExpired, SettledTasks, Settled, Leased

LEMMA SettleRefines ==
    ASSUME BusInv, NEW w \in Workers, NEW t \in Tasks, Settle(w, t)
    PROVE  Lifecycle!GiveBack(t) \/ Lifecycle!Finish(t)
<1>1. /\ t \in Stored /\ Stored' = Stored /\ now' = now
      /\ Owns(w, t)
      /\ records'[t].status \in {"pending", "succeeded", "rejected", "dead_letter"}
      /\ \A x \in Stored \ {t} : records'[x] = records[x]
  <2> DEFINE unsettled == {"pending", "succeeded", "rejected", "dead_letter"}
             StoredAs(r) == /\ t \in Stored /\ Owns(w, t) /\ now' = now
                            /\ records' = [records EXCEPT ![t] = r]
             Moved == /\ t \in Stored /\ Stored' = Stored /\ now' = now
                      /\ Owns(w, t)
                      /\ records'[t].status \in unsettled
                      /\ \A x \in Stored \ {t} : records'[x] = records[x]
  <2>1. TypeOK /\ unsettled \subseteq Status
    BY DEF BusInv, Status, Settled
  <2>2. ASSUME NEW r, StoredAs(r), r.status \in unsettled
        PROVE  Moved
    BY <2>1, <2>2 DEF TypeOK, Stored
  <2>3. ASSUME NEW s \in ResultStatus, Complete(w, t, s)
        PROVE  Moved
    <3>1. t \in Stored /\ records[t] \in Record /\ s \in unsettled
      BY <2>1, <2>3 DEF Complete, TypeOK, ResultStatus
    <3>2. [records[t] EXCEPT !.status = s, !.result = s,
                             !.owner = None, !.lease = None].status = s
      BY <2>1, <3>1, SettledStatus
    <3> QED
      BY <2>2, <2>3, <3>1, <3>2 DEF Complete
  <2>4. CASE Fail(w, t)
    <3>1. t \in Stored /\ records[t] \in Record /\ FailedStatus(records[t]) \in unsettled
      BY <2>1, <2>4 DEF Fail, TypeOK, FailedStatus
    <3>2. [records[t] EXCEPT !.status = FailedStatus(records[t]), !.failure = "error",
                             !.owner = None, !.lease = None].status \in unsettled
      BY <2>1, <3>1, SettledStatus
    <3> QED
      BY <2>2, <2>4, <3>1, <3>2 DEF Fail
  <2> QED
    BY <2>3, <2>4 DEF Settle
<1>2. Holder[t] # None
  BY <1>1, NoneIsNoValue DEF Owns, Holder, HolderOf
<1>3. Holder' = [Holder EXCEPT ![t] = None]
  BY <1>1 DEF Holder, HolderOf, Leased
<1>4. LapsedTasks' = LapsedTasks \ {t}
  BY <1>1 DEF LapsedTasks, LeaseExpired, Leased
<1>5. CASE records'[t].status = "pending"
  <2>1. SettledTasks' = SettledTasks
    BY <1>1, <1>5 DEF SettledTasks, Settled, Owns, Leased
  <2> QED
    BY <1>1, <1>2, <1>3, <1>4, <2>1 DEF Lifecycle!GiveBack
<1>6. CASE records'[t].status # "pending"
  <2>1. SettledTasks' = SettledTasks \cup {t}
    BY <1>1, <1>6 DEF SettledTasks, Settled
  <2> QED
    BY <1>1, <1>2, <1>3, <1>4, <2>1 DEF Lifecycle!Finish
<1> QED
  BY <1>5, <1>6

LEMMA TickRefines ==
    ASSUME BusInv, Tick
    PROVE  Lifecycle!Lapse(LapsedTasks') /\ LapsedTasks' \subseteq Tasks
<1>1. Stored' = Stored /\ records' = records /\ now' = now + 1 /\ now \in Nat
  BY BusAssumption DEF Tick, Stored, BusInv, TypeOK
<1>2. \A x \in Stored : records[x] \in Record
  BY DEF BusInv, TypeOK
<1>3. LapsedTasks \subseteq LapsedTasks'
  BY <1>1, <1>2 DEF LapsedTasks, LeaseExpired, Record
<1>4. \A x \in LapsedTasks' : Holder[x] # None
  BY <1>1, NoneIsNoValue
  DEF LapsedTasks, LeaseExpired, Holder, HolderOf, BusInv, LeaseComplete, Leased, TypeOK
<1>5. LapsedTasks' \subseteq Tasks
  BY <1>1 DEF LapsedTasks, BusInv, TypeOK
<1>6. UNCHANGED <<Stored, Holder, SettledTasks>>
  BY <1>1 DEF Holder, HolderOf, SettledTasks
<1> QED
  BY <1>3, <1>4, <1>5, <1>6 DEF Lifecycle!Lapse

\* The in-memory bus implements the abstract life cycle of a delegation task.
THEOREM BusImplementsLifecycle == Spec => ImplementsLifecycle
<1>1. Init => Lifecycle!Init
  BY DEF Init, Lifecycle!Init, Stored, Holder, HolderOf, LapsedTasks, SettledTasks
<1>2. BusInv /\ [Next]_busVars => [Lifecycle!Next]_(Lifecycle!lifecycleVars)
  <2> SUFFICES ASSUME BusInv, [Next]_busVars
               PROVE  Lifecycle!Next \/ UNCHANGED Lifecycle!lifecycleVars
    OBVIOUS
  <2>1. ASSUME NEW t \in Tasks, Submit(t) \/ ClaimTaskRefused(t)
        PROVE  Lifecycle!Next \/ UNCHANGED Lifecycle!lifecycleVars
    BY <2>1, SubmitRefines, ClaimTaskRefusedRefines DEF Lifecycle!Next
  <2>2. ASSUME NEW w \in Workers, Claim(w)
        PROVE  Lifecycle!Next
    BY <2>2, ClaimRefines
  <2>3. ASSUME NEW w \in Workers, NEW t \in Tasks,
               ClaimTask(w, t) \/ MarkRunning(w, t) \/ Settle(w, t)
        PROVE  Lifecycle!Next \/ UNCHANGED Lifecycle!lifecycleVars
    <3>1. CASE ClaimTask(w, t)
      BY <3>1, ClaimTaskRefines
    <3>2. CASE MarkRunning(w, t)
      BY <3>2, MarkRunningRefines
    <3>3. CASE Settle(w, t)
      BY <3>3, SettleRefines DEF Lifecycle!Next
    <3> QED
      BY <2>3, <3>1, <3>2, <3>3
  <2>4. CASE Tick
    BY <2>4, TickRefines DEF Lifecycle!Next
  <2>5. CASE UNCHANGED busVars
    BY <2>5 DEF busVars, Stored, Holder, HolderOf, LapsedTasks, LeaseExpired, SettledTasks
  <2> QED
    BY <2>1, <2>2, <2>3, <2>4, <2>5 DEF Next
<1> QED
  BY <1>1, <1>2, BusInvInductive, PTL DEF Spec, ImplementsLifecycle, Lifecycle!Spec

-----------------------------------------------------------------------------
(* The runtime on the bus *)

\* Two lemmas about the steps as steps of the bus.
LEMMA RunIsBusStep ==
    ASSUME Stored \subseteq Tasks, NEW p \in Procs, RunStep(p)
    PROVE  [Next]_busVars
<1>1. WorkerId[p] \in Workers
  BY RuntimeAssumption
<1>2. CASE UNCHANGED busVars
  BY <1>2
<1>3. ASSUME NEW t \in Stored, MarkRunning(WorkerId[p], t) \/ Settle(WorkerId[p], t)
      PROVE  Next
  BY <1>1, <1>3 DEF Next
<1>4. CASE Rejects(p)
  <2>1. CASE LosesTask(p)
    BY <2>1, <1>2 DEF LosesTask
  <2>2. CASE Complete(WorkerId[p], local[p].task, "rejected")
    BY <2>2, <1>3 DEF Complete, Settle, ResultStatus
  <2> QED
    BY <1>4, <2>1, <2>2 DEF Rejects
<1>5. CASE Starts(p)
  <2>1. CASE LosesTask(p)
    BY <2>1, <1>2 DEF LosesTask
  <2>2. CASE MarkRunning(WorkerId[p], local[p].task)
    BY <2>2, <1>3 DEF MarkRunning
  <2> QED
    BY <1>5, <2>1, <2>2 DEF Starts
<1>6. CASE Finishes(p)
  <2>1. CASE LosesTask(p)
    BY <2>1, <1>2 DEF LosesTask
  <2>2. CASE Complete(WorkerId[p], local[p].task, "succeeded")
    BY <2>2, <1>3 DEF Complete, Settle, ResultStatus
  <2>3. CASE Fail(WorkerId[p], local[p].task)
    BY <2>3, <1>3 DEF Fail, Settle
  <2> QED
    BY <1>6, <2>1, <2>2, <2>3 DEF Finishes
<1>7. CASE ClaimedEventRaises(p)
  BY <1>7, <1>2 DEF ClaimedEventRaises
<1> QED
  BY <1>4, <1>5, <1>6, <1>7 DEF RunStep

LEMMA RuntimeIsBusStep ==
    ASSUME Stored \subseteq Tasks, [RNext]_vars
    PROVE  [Next]_busVars
<1>1. CASE UNCHANGED busVars
  BY <1>1
<1>2. ASSUME NEW h \in Handoffs, HandoffStep(h)
      PROVE  [Next]_busVars
  <2>1. Request[h] \in Tasks /\ WorkerId[h] \in Workers
    BY RuntimeAssumption DEF Procs
  <2>2. CASE HandoffSubmits(h)
    BY <2>1, <2>2 DEF HandoffSubmits, Next
  <2>3. CASE HandoffClaims(h)
    <3>1. CASE ClaimTask(WorkerId[h], local[h].task)
      BY <2>1, <3>1 DEF ClaimTask, Next
    <3>2. CASE ClaimTaskRefused(local[h].task)
      BY <3>2 DEF ClaimTaskRefused, Next
    <3> QED
      BY <2>3, <3>1, <3>2 DEF HandoffClaims
  <2>4. CASE HandoffAnswers(h) \/ HandoffCancelled(h)
    BY <1>1, <2>4 DEF HandoffAnswers, HandoffCancelled
  <2> QED
    BY <1>2, <2>2, <2>3, <2>4 DEF HandoffStep
<1>3. ASSUME NEW a \in AppWorkers, AppStep(a)
      PROVE  [Next]_busVars
  <2>1. WorkerId[a] \in Workers
    BY RuntimeAssumption DEF Procs
  <2>2. CASE AppClaims(a)
    BY <2>1, <2>2 DEF AppClaims, Claim, Next
  <2>3. CASE AppStops(a)
    BY <1>1, <2>3 DEF AppStops
  <2> QED
    BY <1>3, <2>2, <2>3 DEF AppStep
<1>4. ASSUME NEW t \in Tasks, ApprovalSubmits(t)
      PROVE  [Next]_busVars
  BY <1>4 DEF ApprovalSubmits, Next
<1>5. CASE ShutdownBegins \/ ShutdownEnds
  BY <1>1, <1>5 DEF ShutdownBegins, ShutdownEnds
<1>6. CASE TimePasses
  BY <1>6 DEF TimePasses, Next
<1>7. CASE UNCHANGED vars
  BY <1>1, <1>7 DEF vars
<1> QED
  BY <1>2, <1>3, <1>4, <1>5, <1>6, <1>7, RunIsBusStep DEF RNext

LEMMA StoredStaysKnown ==
    ASSUME Stored \subseteq Tasks, [Next]_busVars
    PROVE  Stored' \subseteq Tasks
<1>1. ASSUME NEW t \in Tasks, Submit(t) PROVE Stored' \subseteq Tasks
  BY <1>1 DEF Submit, Stored
<1>2. ASSUME NEW t \in Tasks, ClaimTaskRefused(t) PROVE Stored' = Stored
  BY <1>2 DEF ClaimTaskRefused, Stored
<1>3. ASSUME NEW w \in Workers, Claim(w) PROVE Stored' = Stored
  BY <1>3 DEF Claim, ClaimAt, ClaimNothing, Stored
<1>4. ASSUME NEW w \in Workers, NEW t \in Tasks,
             ClaimTask(w, t) \/ MarkRunning(w, t) \/ Settle(w, t)
      PROVE  Stored' = Stored
  BY <1>4 DEF ClaimTask, MarkRunning, Settle, Complete, Fail, Stored
<1>5. CASE Tick \/ UNCHANGED busVars
  BY <1>5 DEF Tick, busVars, Stored
<1> QED
  BY <1>1, <1>2, <1>3, <1>4, <1>5 DEF Next

\* The runtime is a client of the bus: worker.py, handoff.py and the approvals
\* change its records by its methods only.
THEOREM RuntimeUsesBus == RSpec => Spec
<1>1. RInit => Init /\ Stored \subseteq Tasks
  BY DEF RInit, Init, Stored
<1>2. Stored \subseteq Tasks /\ [RNext]_vars => [Next]_busVars /\ (Stored \subseteq Tasks)'
  BY RuntimeIsBusStep, StoredStaysKnown
<1> QED
  BY <1>1, <1>2, PTL DEF RSpec, Spec

\* However handoffs, approvals and app workers interleave, a key has one task.
THEOREM RuntimeKeysAreIdempotent == RSpec => []OneTaskPerKey
  BY RuntimeUsesBus, KeysAreIdempotent, PTL

\* No handoff or app worker takes over a task while another one's lease runs.
THEOREM RuntimeStealsNoLease == RSpec => LeaseNeverStolen
  BY RuntimeUsesBus, NoLeaseIsStolen, PTL

\* Handoffs, app workers and approvals implement the abstract life cycle.
THEOREM RuntimeImplementsLifecycle == RSpec => ImplementsLifecycle
  BY RuntimeUsesBus, BusImplementsLifecycle, PTL

----------------------------------------------------------------------------
(* Leases protect and fence *)

RShape == phase \in [Procs -> HandoffPhase \cup AppPhase] /\ local \in [Procs -> Local]

\* What a worker with an id of its own may rely on while it has a record in hand.
Relies(p) ==
    (Unshared(p) /\ Holding(p)) =>
        LET t == local[p].task IN
        /\ t \in Stored
        /\ OwnsLocal(p) => /\ records[t].attempt = local[p].attempt
                           /\ records[t].lease = local[p].lease
        /\ now < local[p].lease => records[t].status = "expired" \/ OwnsLocal(p)

RunInv == BusInv /\ RShape /\ \A p \in Procs : Relies(p)

\* What a method called as worker w may do to the records.
ByWorker(w) ==
    /\ Stored \subseteq Stored' /\ now' = now
    /\ \A t \in Stored :
          \/ Untouched(t) \/ Expired(t)
          \/ Claimable(t) /\ records'[t] = ClaimedRecord(t, w)
          \/ Owns(w, t) /\ records'[t].owner \in {w, None}

LEMMA NoCallByWorker ==
    ASSUME NEW w, UNCHANGED busVars
    PROVE  ByWorker(w)
  BY DEF ByWorker, busVars, Stored, Untouched

\* The methods that claim, and those that settle, as worker w.
LEMMA ClaimsByWorker ==
    ASSUME TypeOK, NEW w,
           \/ \E t \in Tasks : Submit(t)
           \/ \E i \in 1 .. Len(order) : ClaimAt(w, i)
           \/ ClaimNothing
           \/ \E t \in Stored : ClaimTask(w, t) \/ ClaimTaskRefused(t)
    PROVE  ByWorker(w)
<1> USE DEF Stored
<1>1. ASSUME NEW t \in Tasks, Submit(t) PROVE ByWorker(w)
  BY <1>1 DEF Submit, ByWorker, Untouched
<1>2. ASSUME NEW i \in 1 .. Len(order), ClaimAt(w, i) PROVE ByWorker(w)
  BY <1>2 DEF ClaimAt, ByWorker, Untouched, Expired
<1>3. CASE ClaimNothing
  BY <1>3 DEF ClaimNothing, ByWorker, Untouched, Expired
<1>4. ASSUME NEW t \in Stored, ClaimTask(w, t) PROVE ByWorker(w)
  BY <1>4 DEF ClaimTask, ByWorker, Untouched, TypeOK
<1>5. ASSUME NEW t \in Stored, ClaimTaskRefused(t) PROVE ByWorker(w)
  BY <1>5 DEF ClaimTaskRefused, ByWorker, Untouched, Expired, TypeOK
<1> QED
  BY <1>1, <1>2, <1>3, <1>4, <1>5

LEMMA SettlesByWorker ==
    ASSUME TypeOK, NEW w \in Workers, NEW t \in Stored,
           MarkRunning(w, t) \/ Settle(w, t)
    PROVE  ByWorker(w)
<1> USE DEF Stored
<1>1. records[t] \in Record
  BY DEF TypeOK
<1>2. /\ Owns(w, t) /\ Stored' = Stored /\ now' = now
      /\ \A x \in Stored \ {t} : records'[x] = records[x]
      /\ records'[t].owner \in {w, None}
  <2>1. CASE MarkRunning(w, t)
    <3>1. records'[t] = [records[t] EXCEPT !.status = "running"]
      BY <2>1 DEF MarkRunning, TypeOK
    <3>2. records'[t].owner = w
      BY <1>1, <2>1, <3>1 DEF MarkRunning, Owns, Record
    <3> QED
      BY <2>1, <3>2 DEF MarkRunning, TypeOK
  <2>2. ASSUME NEW s \in ResultStatus, Complete(w, t, s)
        PROVE  /\ Owns(w, t) /\ Stored' = Stored /\ now' = now
               /\ \A x \in Stored \ {t} : records'[x] = records[x]
               /\ records'[t].owner \in {w, None}
    BY <1>1, <2>2 DEF Complete, Record, TypeOK
  <2>3. CASE Fail(w, t)
    BY <1>1, <2>3 DEF Fail, Record, TypeOK
  <2> QED
    BY <2>1, <2>2, <2>3 DEF Settle
<1> QED
  BY <1>2 DEF ByWorker, Untouched

\* A method called under another id takes nothing from p.
LEMMA OthersLeaveRelied ==
    ASSUME RunInv, NEW p \in Procs, NEW w, ByWorker(w),
           Unshared(p) => w # WorkerId[p],
           phase'[p] = phase[p], local'[p] = local[p]
    PROVE  Relies(p)'
<1>1. SUFFICES ASSUME Unshared(p), Holding(p) PROVE Relies(p)'
  BY DEF Relies, Holding, Unshared
<1> DEFINE t == local[p].task
<1>2. /\ t \in Stored /\ records[t] \in Record /\ now' = now /\ t \in Stored'
      /\ WorkerId[p] # w /\ WorkerId[p] # None
  BY <1>1, RuntimeAssumption, NoneIsNoValue DEF RunInv, BusInv, TypeOK, Relies, ByWorker
<1>3. CASE Untouched(t)
  BY <1>1, <1>2, <1>3 DEF RunInv, Relies, Untouched, OwnsLocal, Owns
<1>4. CASE Expired(t)
  <2>1. records'[t].status = "expired"
    BY <1>2, <1>4, ExpiredFields DEF Expired, RunInv, BusInv
  <2> QED
    BY <1>2, <2>1 DEF Relies, OwnsLocal, Owns, Leased
<1>5. CASE Claimable(t) /\ records'[t] = ClaimedRecord(t, w)
  <2>1. records'[t].owner = w
    BY <1>5 DEF ClaimedRecord, NewRecord
  <2>2. ~(now < local[p].lease)
    <3>1. SUFFICES ASSUME now < local[p].lease PROVE FALSE
      OBVIOUS
    <3>2. OwnsLocal(p) /\ records[t].lease = local[p].lease
      BY <1>1, <1>5, <3>1 DEF RunInv, Relies, Claimable, LeaseExpired, Leased
    <3>3. records[t].lease <= now
      BY <1>5, <3>2 DEF Claimable, LeaseExpired, OwnsLocal, Owns, Leased
    <3> QED
      BY <3>1, <3>2, <3>3 DEF RunInv, RShape, Local, BusInv, TypeOK
  <2> QED
    BY <1>2, <2>1, <2>2 DEF Relies, OwnsLocal, Owns
<1>6. CASE Owns(w, t) /\ records'[t].owner \in {w, None}
  <2>1. ~OwnsLocal(p) /\ records[t].status # "expired"
    BY <1>2, <1>6 DEF OwnsLocal, Owns, Leased
  <2>2. ~(now < local[p].lease)
    BY <1>1, <2>1 DEF RunInv, Relies
  <2> QED
    BY <1>2, <1>6, <2>2 DEF Relies, OwnsLocal, Owns
<1> QED
  BY <1>2, <1>3, <1>4, <1>5, <1>6 DEF ByWorker

\* What each process calls, it calls under its own id.
LEMMA StepsByWorker ==
    ASSUME RunInv, NEW q \in Procs,
           \/ q \in Handoffs /\ HandoffStep(q)
           \/ q \in AppWorkers /\ AppStep(q)
           \/ RunStep(q)
    PROVE  /\ ByWorker(WorkerId[q])
           /\ \A p \in Procs \ {q} : phase'[p] = phase[p] /\ local'[p] = local[p]
<1>1. TypeOK /\ RShape /\ WorkerId[q] \in Workers /\ Stored \subseteq Tasks
  BY RuntimeAssumption DEF RunInv, BusInv, TypeOK
<1>2. CASE q \in Handoffs /\ HandoffSubmits(q)
  <2>1. Request[q] \in Tasks
    BY <1>2, RuntimeAssumption
  <2> QED
    BY <1>1, <1>2, <2>1, ClaimsByWorker DEF HandoffSubmits, GoTo, RShape
<1>3. CASE q \in Handoffs /\ HandoffClaims(q)
  <2>1. ASSUME ClaimTask(WorkerId[q], local[q].task) \/ ClaimTaskRefused(local[q].task)
        PROVE  ByWorker(WorkerId[q])
    <3>1. local[q].task \in Stored
      BY <2>1 DEF ClaimTask, ClaimTaskRefused
    <3> QED
      BY <1>1, <2>1, <3>1, ClaimsByWorker
  <2> QED
    BY <1>1, <1>3, <2>1 DEF HandoffClaims, TakesRecord, GoTo, RShape
<1>4. CASE HandoffAnswers(q) \/ HandoffCancelled(q)
  BY <1>1, <1>4, NoCallByWorker DEF HandoffAnswers, HandoffCancelled, GoTo, RShape
<1>5. CASE AppClaims(q)
  BY <1>1, <1>5, ClaimsByWorker DEF AppClaims, TakesRecord, GoTo, RShape
<1>6. CASE AppStops(q)
  BY <1>1, <1>6, NoCallByWorker DEF AppStops, GoTo, RShape
<1>7. CASE RunStep(q)
  <2>1. \A p \in Procs \ {q} : phase'[p] = phase[p] /\ local'[p] = local[p]
    BY <1>1, <1>7 DEF RunStep, Rejects, Starts, Finishes, ClaimedEventRaises, LosesTask,
                      AfterSettling, RunReturns, GoTo, RShape
  <2>2. CASE UNCHANGED busVars
    BY <2>1, <2>2, NoCallByWorker
  <2>3. ASSUME NEW t \in Stored, MarkRunning(WorkerId[q], t) \/ Settle(WorkerId[q], t)
        PROVE  ByWorker(WorkerId[q])
    BY <1>1, <2>3, SettlesByWorker
  <2>4. \/ UNCHANGED busVars
        \/ \E t \in Stored : MarkRunning(WorkerId[q], t) \/ Settle(WorkerId[q], t)
    <3>1. CASE Rejects(q)
      BY <3>1 DEF Rejects, LosesTask, Settle, Complete, ResultStatus
    <3>2. CASE Starts(q)
      BY <3>2 DEF Starts, LosesTask, MarkRunning
    <3>3. CASE Finishes(q)
      BY <3>3 DEF Finishes, LosesTask, Settle, Complete, Fail, ResultStatus
    <3>4. CASE ClaimedEventRaises(q)
      BY <3>4 DEF ClaimedEventRaises
    <3> QED
      BY <1>7, <3>1, <3>2, <3>3, <3>4 DEF RunStep
  <2> QED
    BY <2>1, <2>2, <2>3, <2>4
<1> QED
  BY <1>2, <1>3, <1>4, <1>5, <1>6, <1>7 DEF HandoffStep, AppStep

\* Its own step leaves a process with nothing in hand, or with what it just claimed
\* or started.
LEMMA ClaimGivesRelied ==
    ASSUME RunInv, NEW p \in Procs, NEW t \in Stored, Stored' = Stored, now' = now,
           records'[t] = ClaimedRecord(t, WorkerId[p]), TakesRecord(p, t)
    PROVE  Relies(p)' /\ local' \in [Procs -> Local]
<1>1. /\ records'[t].owner = WorkerId[p] /\ records'[t].status = "claimed"
      /\ records'[t].attempt \in Nat /\ records'[t].lease \in Nat
  <2>1. records[t].attempt \in Nat /\ LeaseEnd \in Nat
    BY LeaseEndIsTime DEF RunInv, BusInv, TypeOK, Record
  <2> QED
    BY <2>1 DEF ClaimedRecord, NewRecord
<1>2. /\ local' \in [Procs -> Local]
      /\ local'[p] = [task |-> t, attempt |-> records'[t].attempt, lease |-> records'[t].lease]
  BY <1>1 DEF TakesRecord, RunInv, RShape, Local, BusInv, TypeOK
<1> QED
  BY <1>1, <1>2 DEF Relies, OwnsLocal, Owns, Leased

LEMMA OwnStepRelied ==
    ASSUME RunInv, NEW p \in Procs,
           \/ p \in Handoffs /\ HandoffStep(p)
           \/ p \in AppWorkers /\ AppStep(p)
           \/ RunStep(p)
    PROVE  Relies(p)'
<1>1. RShape /\ TypeOK
  BY DEF RunInv, BusInv
<1>2. CASE phase'[p] \notin {"claimed", "executing"}
  BY <1>2 DEF Relies, Holding
<1>3. CASE phase'[p] \in {"claimed", "executing"}
  <2>1. CASE p \in Handoffs /\ HandoffClaims(p)
    <3>1. ClaimTask(WorkerId[p], local[p].task) /\ TakesRecord(p, local[p].task)
      BY <1>1, <1>3, <2>1 DEF HandoffClaims, GoTo, RShape
    <3> QED
      BY <1>1, <3>1, ClaimGivesRelied DEF ClaimTask, TypeOK, Stored
  <2>2. CASE p \in AppWorkers /\ AppClaims(p)
    <3>1. CASE ClaimNothing /\ UNCHANGED <<phase, local>>
      <4>1. phase[p] = "polling"
        BY <2>2 DEF AppClaims
      <4> QED
        BY <1>3, <3>1, <4>1
    <3>2. ASSUME NEW i \in 1 .. Len(order), ClaimAt(WorkerId[p], i), TakesRecord(p, order[i])
          PROVE  Relies(p)'
      <4>1. order[i] \in Stored
        BY <1>1, <3>2 DEF TypeOK
      <4> QED
        BY <3>2, <4>1, ClaimGivesRelied DEF ClaimAt, Stored
    <3> QED
      BY <2>2, <3>1, <3>2 DEF AppClaims
  <2>3. CASE Starts(p)
    <3> DEFINE t == local[p].task
    <3>1. /\ MarkRunning(WorkerId[p], t) /\ local' = local
          /\ phase[p] = "claimed" /\ t \in Stored /\ OwnsLocal(p)
      BY <1>1, <1>3, <2>3 DEF Starts, LosesTask, GoTo, RShape, MarkRunning, OwnsLocal
    <3>2. /\ Stored' = Stored /\ now' = now /\ records[t] \in Record
          /\ records'[t] = [records[t] EXCEPT !.status = "running"]
      BY <1>1, <3>1 DEF MarkRunning, TypeOK, Stored
    <3>3. /\ records'[t].owner = records[t].owner /\ records'[t].status = "running"
          /\ records'[t].attempt = records[t].attempt /\ records'[t].lease = records[t].lease
      BY <3>2 DEF Record
    <3>4. OwnsLocal(p)'
      BY <3>1, <3>3 DEF OwnsLocal, Owns, Leased
    <3> QED
      BY <3>1, <3>2, <3>3, <3>4 DEF Relies, Holding, RunInv, Unshared
  <2>4. CASE ~(p \in Handoffs /\ HandoffClaims(p)) /\ ~(p \in AppWorkers /\ AppClaims(p)) /\ ~Starts(p)
    <3>1. CASE HandoffSubmits(p) \/ HandoffAnswers(p) \/ HandoffCancelled(p) \/ AppStops(p)
      BY <1>1, <1>3, <3>1 DEF HandoffSubmits, HandoffAnswers, HandoffCancelled, AppStops,
                              GoTo, RShape
    <3>2. CASE Rejects(p) \/ Finishes(p) \/ ClaimedEventRaises(p)
      BY <1>1, <1>3, <3>2 DEF Rejects, Finishes, ClaimedEventRaises, LosesTask, AfterSettling,
                              RunReturns, GoTo, RShape
    <3> QED
      BY <2>4, <3>1, <3>2 DEF HandoffStep, AppStep, RunStep
  <2> QED
    BY <2>1, <2>2, <2>3, <2>4
<1> QED
  BY <1>2, <1>3

LEMMA StepKeepsShape ==
    ASSUME RunInv, BusInv', [RNext]_vars
    PROVE  RShape'
<1>1. TypeOK /\ RShape
  BY DEF RunInv, BusInv
<1>2. ASSUME NEW p \in Procs, NEW ph \in HandoffPhase \cup AppPhase, GoTo(p, ph)
      PROVE  phase' \in [Procs -> HandoffPhase \cup AppPhase]
  BY <1>1, <1>2 DEF GoTo, RShape
<1>3. NoLocal \in Local
  BY DEF NoLocal, Local
<1>4. ASSUME NEW p \in Procs, RunReturns(p) PROVE RShape'
  BY <1>1, <1>2, <1>3, <1>4 DEF RunReturns, RShape, HandoffPhase, AppPhase
<1>5. ASSUME NEW p \in Procs, GoTo(p, "raised"), local' = local PROVE RShape'
  BY <1>1, <1>2, <1>5 DEF RShape, HandoffPhase
<1>6. ASSUME NEW p \in Procs, RunStep(p) PROVE RShape'
  <2>1. CASE Starts(p)
    BY <1>1, <1>2, <1>5, <1>6, <2>1 DEF Starts, LosesTask, RShape, HandoffPhase
  <2>2. CASE Rejects(p) \/ Finishes(p) \/ ClaimedEventRaises(p)
    BY <1>4, <1>5, <1>6, <2>2 DEF Rejects, Finishes, ClaimedEventRaises, LosesTask, AfterSettling
  <2> QED
    BY <1>6, <2>1, <2>2 DEF RunStep
<1>7. ASSUME NEW p \in Procs, NEW t \in Stored, records'[t] = ClaimedRecord(t, WorkerId[p]),
             Stored' = Stored, now' = now, TakesRecord(p, t), GoTo(p, "claimed")
      PROVE  RShape'
  BY <1>2, <1>7, ClaimGivesRelied DEF RShape, HandoffPhase
<1>8. ASSUME NEW h \in Handoffs, HandoffStep(h) PROVE RShape'
  <2>1. h \in Procs /\ Request[h] \in Tasks
    BY RuntimeAssumption DEF Procs
  <2>2. CASE HandoffSubmits(h)
    <3>1. SubmittedId(Request[h]) \in Tasks
      <4>1. KeyOf[Request[h]] \in Keys
        BY <2>1, BusAssumption
      <4> QED
        BY <1>1, <2>1, <4>1 DEF SubmittedId, TypeOK
    <3>2. [local[h] EXCEPT !.task = SubmittedId(Request[h])] \in Local
      BY <1>1, <2>1, <3>1 DEF RShape, Local
    <3>3. local' = [local EXCEPT ![h] = [local[h] EXCEPT !.task = SubmittedId(Request[h])]]
      BY <1>1, <2>1, <2>2 DEF HandoffSubmits, RShape
    <3> QED
      BY <1>1, <1>2, <2>1, <2>2, <3>2, <3>3 DEF HandoffSubmits, RShape, HandoffPhase
  <2>3. CASE HandoffClaims(h)
    <3>1. CASE ClaimTask(WorkerId[h], local[h].task) /\ TakesRecord(h, local[h].task)
                 /\ GoTo(h, "claimed")
      BY <1>1, <1>7, <2>1, <3>1 DEF ClaimTask, TypeOK, Stored
    <3>2. CASE GoTo(h, "reading") /\ local' = local
      BY <1>1, <1>2, <2>1, <3>2 DEF RShape, HandoffPhase
    <3> QED
      BY <2>3, <3>1, <3>2 DEF HandoffClaims
  <2>4. CASE HandoffAnswers(h) \/ HandoffCancelled(h)
    BY <1>1, <1>2, <2>1, <2>4 DEF HandoffAnswers, HandoffCancelled, RShape, HandoffPhase
  <2> QED
    BY <1>8, <2>2, <2>3, <2>4 DEF HandoffStep
<1>9. ASSUME NEW a \in AppWorkers, AppStep(a) PROVE RShape'
  <2>1. a \in Procs
    BY DEF Procs
  <2>2. ASSUME NEW i \in 1 .. Len(order), ClaimAt(WorkerId[a], i), TakesRecord(a, order[i]),
               GoTo(a, "claimed")
        PROVE  RShape'
    <3>1. order[i] \in Stored
      BY <1>1 DEF TypeOK
    <3> QED
      BY <1>7, <2>1, <2>2, <3>1 DEF ClaimAt, Stored
  <2>3. CASE UNCHANGED <<phase, local>>
    BY <1>1, <2>3 DEF RShape
  <2>4. CASE AppStops(a)
    BY <1>1, <1>2, <2>1, <2>4 DEF AppStops, RShape, AppPhase
  <2> QED
    BY <1>9, <2>2, <2>3, <2>4 DEF AppStep, AppClaims
<1>10. CASE UNCHANGED <<phase, local>>
  BY <1>1, <1>10 DEF RShape
<1> QED
  BY <1>6, <1>8, <1>9, <1>10 DEF RNext, ApprovalSubmits, ShutdownBegins, ShutdownEnds,
                                 TimePasses, runtimeVars, vars

LEMMA StepKeepsRelied ==
    ASSUME RunInv, [RNext]_vars, NEW p \in Procs
    PROVE  Relies(p)'
<1>1. TypeOK
  BY DEF RunInv, BusInv
<1>2. ASSUME NEW q \in Procs,
             \/ q \in Handoffs /\ HandoffStep(q)
             \/ q \in AppWorkers /\ AppStep(q)
             \/ RunStep(q)
      PROVE  Relies(p)'
  <2>1. CASE p = q
    BY <1>2, <2>1, OwnStepRelied
  <2>2. CASE p # q
    <3>1. ByWorker(WorkerId[q]) /\ phase'[p] = phase[p] /\ local'[p] = local[p]
      BY <1>2, <2>2, StepsByWorker
    <3>2. Unshared(p) => WorkerId[q] # WorkerId[p]
      BY <2>2 DEF Unshared
    <3> QED
      BY <3>1, <3>2, OthersLeaveRelied
  <2> QED
    BY <2>1, <2>2
<1>3. None # WorkerId[p]
  BY RuntimeAssumption, NoneIsNoValue
<1>4. ASSUME NEW t \in Tasks, ApprovalSubmits(t) PROVE Relies(p)'
  <2>1. ByWorker(None) /\ phase' = phase /\ local' = local
    BY <1>1, <1>4, ClaimsByWorker DEF ApprovalSubmits, runtimeVars
  <2> QED
    BY <1>3, <2>1, OthersLeaveRelied
<1>5. CASE ShutdownBegins \/ ShutdownEnds \/ UNCHANGED vars
  <2>1. ByWorker(None) /\ phase' = phase /\ local' = local
    BY <1>5, NoCallByWorker DEF ShutdownBegins, ShutdownEnds, vars, runtimeVars
  <2> QED
    BY <1>3, <2>1, OthersLeaveRelied
<1>6. CASE TimePasses
  <2>1. UNCHANGED <<records, phase, local>> /\ now' = now + 1 /\ now \in Nat
    BY <1>6, LeaseEndIsTime, <1>1 DEF TimePasses, Tick, runtimeVars
  <2>2. Holding(p) => (now + 1 < local[p].lease => now < local[p].lease)
    BY <2>1 DEF RunInv, RShape, Local
  <2> QED
    BY <2>1, <2>2 DEF RunInv, Relies, Holding, OwnsLocal, Owns, Stored, Unshared
<1> QED
  BY <1>2, <1>4, <1>5, <1>6 DEF RNext, Procs

\* The invariant of the runtime, on top of that of the bus.
LEMMA RunInvInductive == RSpec => []RunInv
<1>1. RInit => RShape /\ \A p \in Procs : Relies(p)
  <2>1. NoLocal \in Local
    BY DEF NoLocal, Local
  <2> QED
    BY <2>1 DEF RInit, RShape, HandoffPhase, AppPhase, Relies, Holding
<1>2. RunInv /\ BusInv' /\ [RNext]_vars => RShape' /\ \A p \in Procs : Relies(p)'
  BY StepKeepsShape, StepKeepsRelied
<1>3. RSpec => []BusInv
  BY RuntimeUsesBus, BusInvInductive, PTL
<1>4. BusInv /\ RShape /\ (\A p \in Procs : Relies(p)) <=> RunInv
  BY DEF RunInv
<1>5. (\A p \in Procs : Relies(p))' <=> \A p \in Procs : Relies(p)'
  OBVIOUS
<1> QED
  BY <1>1, <1>2, <1>3, <1>4, <1>5, PTL DEF RSpec

\* A worker with an id of its own keeps its task and its attempt while its lease
\* runs, whoever else calls the bus (worker.py: run_once; handoff.py).
THEOREM LeasesProtect == RSpec => []LeaseProtectsWorker
<1>1. RunInv => LeaseProtectsWorker
  <2> SUFFICES ASSUME RunInv, NEW p \in Procs, Unshared(p), Holding(p), now < local[p].lease
               PROVE  LET r == records[local[p].task] IN
                      r.status = "expired" \/ (OwnsLocal(p) /\ r.attempt = local[p].attempt)
    BY DEF LeaseProtectsWorker
  <2> QED
    BY DEF RunInv, Relies
<1> QED
  BY <1>1, RunInvInductive, PTL

\* Once such a worker has been overtaken it does not pass _require_owned again: if
\* it does, the attempt and the lease are its own.
THEOREM StaleWorkersAreFenced == RSpec => []StaleWorkerIsFenced
<1>1. RunInv => StaleWorkerIsFenced
  BY DEF RunInv, Relies, StaleWorkerIsFenced
<1> QED
  BY <1>1, RunInvInductive, PTL
----------------------------------------------------------------------------
(* Outcomes are earned *)

\* What one step does to the records, the executions and the answers: the case
\* split of the lemmas that follow.
Moves(q) == /\ phase[q] # "answered"
            /\ \A p \in Procs \ {q} : phase'[p] = phase[p] /\ local'[p] = local[p]

Takes(q, t) ==
    /\ Moves(q) /\ phase[q] # "claimed" /\ phase'[q] = "claimed" /\ local'[q].task = t
    /\ t \in Stored /\ Stored' = Stored /\ records'[t] = ClaimedRecord(t, WorkerId[q])
    /\ \A x \in Stored \ {t} : Untouched(x) \/ Expired(x)
    /\ UNCHANGED <<started, answer>>

Runs(q, t) ==
    /\ Moves(q) /\ phase[q] = "claimed" /\ phase'[q] = "executing" /\ local'[q] = local[q]
    /\ t = local[q].task /\ t \in Stored /\ Stored' = Stored
    /\ records'[t] = [records[t] EXCEPT !.status = "running"]
    /\ \A x \in Stored \ {t} : Untouched(x)
    /\ started' = [started EXCEPT ![t] = @ + 1] /\ UNCHANGED answer

Settles(q, t) ==
    /\ Moves(q) /\ phase'[q] \notin {"claimed", "executing", "answered"}
    /\ t = local[q].task /\ t \in Stored /\ Stored' = Stored
    /\ \A x \in Stored \ {t} : Untouched(x)
    /\ \/ phase[q] = "claimed" /\ t \notin Permitted[q] /\ Complete(WorkerId[q], t, "rejected")
       \/ phase[q] = "executing" /\ Complete(WorkerId[q], t, "succeeded")
       \/ phase[q] = "executing" /\ Fail(WorkerId[q], t)
    /\ UNCHANGED <<started, answer>>

\* q's own record is not concerned, and neither is any execution.
Passes ==
    /\ UNCHANGED <<phase, local>>
          \/ \E q \in Procs : Moves(q) /\ phase'[q] \notin {"claimed", "executing", "answered"}
    /\ Stored \subseteq Stored'
    /\ \A x \in Stored : Untouched(x) \/ Expired(x)
    /\ \A x \in Stored' \ Stored : records'[x] = NewRecord
    /\ UNCHANGED <<started, answer>>

Answers(h) ==
    /\ Moves(h) /\ phase[h] = "reading" /\ HandoffAnswers(h)
    /\ phase'[h] = "answered" /\ local'[h] = local[h]

LEMMA ClaimEffects ==
    ASSUME TypeOK, RShape, NEW q \in Procs, NEW t \in Stored, phase[q] \notin {"claimed", "answered"},
           \/ ClaimTask(WorkerId[q], t)
           \/ \E i \in 1 .. Len(order) : t = order[i] /\ ClaimAt(WorkerId[q], i),
           TakesRecord(q, t), GoTo(q, "claimed"), UNCHANGED <<answer, started>>
    PROVE  Takes(q, t)
<1>1. /\ \A p \in Procs \ {q} : phase'[p] = phase[p] /\ local'[p] = local[p]
      /\ phase'[q] = "claimed" /\ local'[q].task = t
  BY DEF RShape, TakesRecord, GoTo
<1>2. /\ Stored' = Stored /\ records'[t] = ClaimedRecord(t, WorkerId[q])
      /\ \A x \in Stored \ {t} : Untouched(x) \/ Expired(x)
  <2>1. CASE ClaimTask(WorkerId[q], t)
    BY <2>1 DEF ClaimTask, Untouched, TypeOK, Stored
  <2>2. ASSUME NEW i \in 1 .. Len(order), t = order[i], ClaimAt(WorkerId[q], i)
        PROVE  /\ Stored' = Stored /\ records'[t] = ClaimedRecord(t, WorkerId[q])
               /\ \A x \in Stored \ {t} : Untouched(x) \/ Expired(x)
    BY <2>2 DEF ClaimAt, Untouched, Expired, Stored
  <2> QED
    BY <2>1, <2>2
<1> QED
  BY <1>1, <1>2 DEF Takes, Moves

LEMMA RunEffects ==
    ASSUME TypeOK, RShape, started \in [Tasks -> Nat], NEW q \in Procs, RunStep(q)
    PROVE  \/ Passes \/ \E t \in Tasks : Runs(q, t) \/ Settles(q, t)
<1> DEFINE t == local[q].task
<1>1. \A ph : GoTo(q, ph) => /\ phase'[q] = ph
                             /\ \A p \in Procs \ {q} : phase'[p] = phase[p]
  BY DEF GoTo, RShape
<1>2. phase[q] \in {"claimed", "executing"}
  BY DEF RunStep, Rejects, Starts, Finishes, ClaimedEventRaises
<1>3. Stored \subseteq Tasks
  BY DEF TypeOK
<1>4. ASSUME GoTo(q, "raised"), UNCHANGED <<busVars, local, started, answer>>
      PROVE  Passes
  BY <1>1, <1>2, <1>4 DEF Passes, Moves, Untouched, busVars, Stored
<1>5. ASSUME AfterSettling(q)
      PROVE  Moves(q) /\ phase'[q] \in {"reading", "polling", "raised"}
  <2>1. \A p \in Procs \ {q} : local'[p] = local[p]
    BY <1>5 DEF AfterSettling, RunReturns, RShape
  <2>2. Moves(q)
    BY <1>1, <1>2, <1>5, <2>1 DEF AfterSettling, RunReturns, Moves
  <2> QED
    BY <1>1, <1>5, <2>2 DEF AfterSettling, RunReturns
<1>6. ASSUME NEW s, Complete(WorkerId[q], t, s) \/ Fail(WorkerId[q], t)
      PROVE  t \in Stored /\ Stored' = Stored /\ \A x \in Stored \ {t} : Untouched(x)
  BY <1>6 DEF Complete, Fail, TypeOK, Stored, Untouched
<1>7. CASE Rejects(q)
  <2>1. CASE LosesTask(q)
    BY <1>4, <1>7, <2>1 DEF LosesTask, Rejects
  <2>2. CASE Complete(WorkerId[q], t, "rejected") /\ AfterSettling(q) /\ UNCHANGED started
    <3>1. Settles(q, t)
      BY <1>5, <1>6, <1>7, <2>2 DEF Rejects, Settles
    <3> QED
      BY <1>3, <1>6, <2>2, <3>1
  <2> QED
    BY <1>7, <2>1, <2>2 DEF Rejects
<1>8. CASE Finishes(q)
  <2>1. CASE LosesTask(q)
    BY <1>4, <1>8, <2>1 DEF LosesTask, Finishes
  <2>2. CASE /\ Complete(WorkerId[q], t, "succeeded") \/ Fail(WorkerId[q], t)
             /\ AfterSettling(q) /\ UNCHANGED started
    <3>1. Settles(q, t)
      BY <1>5, <1>6, <1>8, <2>2 DEF Finishes, Settles
    <3> QED
      BY <1>3, <1>6, <2>2, <3>1
  <2> QED
    BY <1>8, <2>1, <2>2 DEF Finishes
<1>9. CASE Starts(q)
  <2>1. CASE LosesTask(q)
    BY <1>4, <1>9, <2>1 DEF LosesTask, Starts
  <2>2. CASE /\ MarkRunning(WorkerId[q], t) /\ GoTo(q, "executing")
             /\ started' = [started EXCEPT ![t] = @ + 1] /\ local' = local
    <3>1. /\ t \in Stored /\ Stored' = Stored
          /\ records'[t] = [records[t] EXCEPT !.status = "running"]
          /\ \A x \in Stored \ {t} : Untouched(x)
      BY <2>2 DEF MarkRunning, TypeOK, Stored, Untouched
    <3>2. Moves(q) /\ phase'[q] = "executing"
      BY <1>1, <1>2, <2>2 DEF Moves
    <3>3. Runs(q, t)
      BY <1>9, <2>2, <3>1, <3>2 DEF Starts, Runs
    <3> QED
      BY <1>3, <3>1, <3>3
  <2> QED
    BY <1>9, <2>1, <2>2 DEF Starts
<1>10. CASE ClaimedEventRaises(q)
  BY <1>4, <1>10 DEF ClaimedEventRaises
<1> QED
  BY <1>7, <1>8, <1>9, <1>10 DEF RunStep

\* A call that only submits or expires, or none at all.
LEMMA QuietCalls ==
    ASSUME TypeOK,
           \/ \E t \in Tasks : Submit(t)
           \/ \E t : ClaimTaskRefused(t)
           \/ ClaimNothing \/ Tick \/ UNCHANGED busVars
    PROVE  /\ Stored \subseteq Stored'
           /\ \A x \in Stored : Untouched(x) \/ Expired(x)
           /\ \A x \in Stored' \ Stored : records'[x] = NewRecord
<1> USE DEF Stored, Untouched, Expired
<1>1. ASSUME NEW t \in Tasks, Submit(t)
      PROVE  /\ Stored \subseteq Stored' /\ \A x \in Stored : Untouched(x)
             /\ \A x \in Stored' \ Stored : records'[x] = NewRecord
  BY <1>1 DEF Submit
<1>2. ASSUME NEW t, ClaimTaskRefused(t)
      PROVE  Stored' = Stored /\ \A x \in Stored : Untouched(x) \/ Expired(x)
  BY <1>2 DEF ClaimTaskRefused, TypeOK
<1>3. CASE ClaimNothing
  BY <1>3 DEF ClaimNothing
<1>4. CASE Tick \/ UNCHANGED busVars
  BY <1>4 DEF Tick, busVars
<1> QED
  BY <1>1, <1>2, <1>3, <1>4

\* Every step of the runtime is one of these.
LEMMA StepEffects ==
    ASSUME TypeOK, RShape, started \in [Tasks -> Nat], answer \in [Handoffs -> Answer],
           [RNext]_vars
    PROVE  \/ Passes
           \/ \E q \in Procs, t \in Tasks : Takes(q, t) \/ Runs(q, t) \/ Settles(q, t)
           \/ \E h \in Handoffs : Answers(h)
<1> Stored \subseteq Tasks
  BY DEF TypeOK
<1>1. ASSUME NEW q \in Procs, RunStep(q)
      PROVE  Passes \/ \E t \in Tasks : Runs(q, t) \/ Settles(q, t)
  BY <1>1, RunEffects
<1>2. ASSUME NEW q \in Procs, NEW ph, GoTo(q, ph)
      PROVE  phase'[q] = ph /\ \A p \in Procs \ {q} : phase'[p] = phase[p]
  BY <1>2 DEF GoTo, RShape
<1>3. ASSUME NEW q \in Procs, NEW ph \in {"submitted", "reading", "cancelled", "stopped"},
             GoTo(q, ph), phase[q] # "answered",
             \A p \in Procs \ {q} : local'[p] = local[p], UNCHANGED <<answer, started>>,
             \/ \E t \in Tasks : Submit(t)
             \/ \E t : ClaimTaskRefused(t)
             \/ UNCHANGED busVars
      PROVE  Passes
  <2>1. Moves(q) /\ phase'[q] = ph
    BY <1>2, <1>3 DEF Moves
  <2> QED
    BY <1>3, <2>1, QuietCalls DEF Passes
<1>4. ASSUME NEW h \in Handoffs, HandoffStep(h)
      PROVE  Passes \/ Answers(h) \/ \E t \in Tasks : Takes(h, t)
  <2>1. h \in Procs /\ Request[h] \in Tasks
    BY RuntimeAssumption DEF Procs
  <2>2. CASE HandoffSubmits(h)
    BY <1>3, <2>1, <2>2 DEF HandoffSubmits, RShape
  <2>3. CASE HandoffClaims(h)
    <3>1. CASE ClaimTask(WorkerId[h], local[h].task) /\ TakesRecord(h, local[h].task)
               /\ GoTo(h, "claimed")
      <4>1. local[h].task \in Stored
        BY <3>1 DEF ClaimTask
      <4> QED
        BY <2>1, <2>3, <3>1, <4>1, ClaimEffects DEF HandoffClaims
    <3>2. CASE ClaimTaskRefused(local[h].task) /\ GoTo(h, "reading") /\ UNCHANGED local
      BY <1>3, <2>1, <2>3, <3>2 DEF HandoffClaims
    <3> QED
      BY <2>3, <3>1, <3>2 DEF HandoffClaims
  <2>4. CASE HandoffAnswers(h)
    BY <1>2, <2>1, <2>4 DEF HandoffAnswers, Answers, Moves
  <2>5. CASE HandoffCancelled(h)
    BY <1>3, <2>1, <2>5 DEF HandoffCancelled
  <2> QED
    BY <1>4, <2>2, <2>3, <2>4, <2>5 DEF HandoffStep
<1>5. ASSUME NEW a \in AppWorkers, AppStep(a)
      PROVE  Passes \/ \E t \in Tasks : Takes(a, t)
  <2>1. a \in Procs
    BY DEF Procs
  <2>2. ASSUME NEW i \in 1 .. Len(order), ClaimAt(WorkerId[a], i), TakesRecord(a, order[i]),
               GoTo(a, "claimed"), phase[a] = "polling", UNCHANGED <<answer, started>>
        PROVE  \E t \in Tasks : Takes(a, t)
    <3>1. order[i] \in Stored
      BY <2>2 DEF TypeOK
    <3> QED
      BY <2>1, <2>2, <3>1, ClaimEffects
  <2>3. CASE ClaimNothing /\ UNCHANGED <<phase, local>> /\ UNCHANGED <<answer, started>>
    BY <2>3, QuietCalls DEF Passes
  <2>4. CASE AppStops(a)
    BY <1>3, <2>1, <2>4 DEF AppStops
  <2> QED
    BY <1>5, <2>2, <2>3, <2>4 DEF AppStep, AppClaims
<1>6. ASSUME UNCHANGED <<phase, local, answer, started>>,
             (\E t \in Tasks : Submit(t)) \/ Tick \/ UNCHANGED busVars
      PROVE  Passes
  BY <1>6, QuietCalls DEF Passes
<1>7. CASE \/ \E t \in Tasks : ApprovalSubmits(t)
           \/ ShutdownBegins \/ ShutdownEnds \/ TimePasses \/ UNCHANGED vars
  BY <1>6, <1>7 DEF ApprovalSubmits, ShutdownBegins, ShutdownEnds, TimePasses, vars, runtimeVars
<1> QED
  <2>1. Handoffs \subseteq Procs /\ AppWorkers \subseteq Procs
    BY DEF Procs
  <2> QED
    BY <1>1, <1>4, <1>5, <1>7, <2>1 DEF RNext

\* The processes that have claimed t and not yet started or rejected it.  Their
\* claims are counted and their executions are still to come: without them nothing
\* says that the next execution has an attempt of its own, since two handoffs with
\* one worker id may both start what either claimed.
Claimers(t) == {p \in Procs : phase[p] = "claimed" /\ local[p].task = t}

Counted(t) == /\ IsFiniteSet(Claimers(t))
              /\ started[t] + Cardinality(Claimers(t)) <= records[t].attempt

Earned(t) ==
    /\ records[t].status \in {"succeeded", "dead_letter"} => started[t] > 0
    /\ records[t].result = "rejected" => \E p \in Procs : t \notin Permitted[p]

\* What a process has in hand is stored; what it executes was started; an answer is
\* given once, at the end, and stays true.
InHand(p) ==
    /\ p \in Handoffs => phase[p] \in HandoffPhase
    /\ p \in AppWorkers => phase[p] \in AppPhase
    /\ phase[p] \in {"submitted", "claimed", "executing", "reading", "answered"}
         => local[p].task \in Stored
    /\ phase[p] = "executing" => started[local[p].task] > 0

Answered(h) ==
    LET r == records[local[h].task] IN
    /\ answer[h] # None => phase[h] = "answered"
    /\ answer[h] = "output" => r.result = "succeeded"
    /\ answer[h] \in Settled => r.status \in {answer[h], "expired"}

HistoryShape == /\ started \in [Tasks -> Nat]
                /\ answer \in [Handoffs -> Answer]
                /\ lifespan \in {"serving", "stopping", "closed", "aborted"}
                /\ \A t \in Tasks \ Stored : started[t] = 0

EarnInv == /\ HistoryShape
           /\ \A t \in Stored : Counted(t) /\ Earned(t)
           /\ \A p \in Procs : InHand(p)
           /\ \A h \in Handoffs : Answered(h)

\* A record's attempts never go down, and a settled record keeps its outcome.
LEMMA RecordsGoOn ==
    ASSUME BusInv, [Next]_busVars, NEW t \in Stored
    PROVE  /\ t \in Stored'
           /\ records[t].attempt \in Nat /\ records'[t].attempt \in Nat
           /\ records[t].attempt <= records'[t].attempt
           /\ records[t].status \in Settled =>
                 /\ records'[t].status \in {records[t].status, "expired"}
                 /\ records'[t].result = records[t].result
<1>1. records[t] \in Record
  BY DEF BusInv, TypeOK
<1>2. t \in Stored' /\ RecordStep(t)
  BY StepOfRecord DEF BusInv
<1>3. records'[t].attempt \in {records[t].attempt, records[t].attempt + 1}
  BY <1>1, <1>2 DEF RecordStep, Untouched, Claimed, Expired, Started, Completed, Failed,
                    ClaimedRecord, NewRecord, ExpiredRecord, Record
<1> QED
  BY <1>1, <1>2, <1>3, SettledStep DEF Record

\* The fields that the lemmas below look at, after each way to change a record.
LEMMA ChangedFields ==
    ASSUME BusInv, NEW t \in Stored
    PROVE  /\ Expired(t) => /\ records'[t].status = "expired"
                            /\ records'[t].result = records[t].result
                            /\ records'[t].attempt = records[t].attempt
           /\ \A w : records'[t] = ClaimedRecord(t, w) =>
                 /\ records'[t].status = "claimed" /\ records'[t].result = None
                 /\ records'[t].attempt = records[t].attempt + 1
           /\ records'[t] = [records[t] EXCEPT !.status = "running"] =>
                 /\ records'[t].status = "running"
                 /\ records'[t].result = records[t].result
                 /\ records'[t].attempt = records[t].attempt
<1>1. records[t] \in Record
  BY DEF BusInv, TypeOK
<1> QED
  BY <1>1 DEF Expired, ExpiredRecord, ClaimedRecord, NewRecord, Record

LEMMA SettlingFields ==
    ASSUME BusInv, NEW t \in Stored, NEW w
    PROVE  /\ \A s \in ResultStatus : Complete(w, t, s) =>
                 /\ records'[t].status = s /\ records'[t].result = s
                 /\ records'[t].attempt = records[t].attempt
           /\ Fail(w, t) =>
                 /\ records'[t].result = None
                 /\ records'[t].attempt = records[t].attempt
<1>1. records[t] \in Record /\ records \in [Stored -> Record]
  BY DEF BusInv, TypeOK
<1>2. records[t].status \in Leased => records[t].result = None
  BY <1>1 DEF BusInv, ResultMatchesStatus, Leased, Record, ResultStatus
<1>3. ASSUME NEW s \in ResultStatus, Complete(w, t, s)
      PROVE  /\ records'[t].status = s /\ records'[t].result = s
             /\ records'[t].attempt = records[t].attempt
  <2>1. records'[t] = [records[t] EXCEPT !.status = s, !.result = s,
                                         !.owner = None, !.lease = None]
    BY <1>1, <1>3 DEF Complete
  <2> QED
    BY <1>1, <2>1 DEF Record
<1>4. ASSUME Fail(w, t)
      PROVE  records'[t].result = None /\ records'[t].attempt = records[t].attempt
  <2>1. /\ records'[t] = [records[t] EXCEPT !.status = FailedStatus(records[t]),
                              !.failure = "error", !.owner = None, !.lease = None]
        /\ records[t].status \in Leased
    BY <1>1, <1>4 DEF Fail, Owns
  <2> QED
    BY <1>1, <1>2, <2>1 DEF Record
<1> QED
  BY <1>3, <1>4

\* Fewer claims, one more with one more attempt, or one execution instead of one
\* claim: in each case the count is kept.
LEMMA FewerClaims ==
    ASSUME NEW A, IsFiniteSet(A), NEW B, B \subseteq A, NEW n \in Nat, NEW k \in Nat,
           n + Cardinality(A) <= k
    PROVE  IsFiniteSet(B) /\ n + Cardinality(B) <= k
<1>1. Cardinality(A) \in Nat
  BY FS_CardinalityType
<1>2. IsFiniteSet(B) /\ Cardinality(B) <= Cardinality(A)
  BY FS_Subset
<1>3. Cardinality(B) \in Nat
  BY <1>2, FS_CardinalityType
<1> QED
  BY <1>1, <1>2, <1>3

LEMMA OneMoreClaim ==
    ASSUME NEW A, IsFiniteSet(A), NEW q, NEW B, B \subseteq A \cup {q},
           NEW n \in Nat, NEW k \in Nat, n + Cardinality(A) <= k
    PROVE  IsFiniteSet(B) /\ n + Cardinality(B) <= k + 1
<1>1. Cardinality(A) \in Nat
  BY FS_CardinalityType
<1>2. /\ IsFiniteSet(A \cup {q})
      /\ Cardinality(A \cup {q}) = Cardinality(A) \/ Cardinality(A \cup {q}) = Cardinality(A) + 1
  BY FS_AddElement
<1>3. n + Cardinality(A \cup {q}) <= k + 1
  BY <1>1, <1>2
<1> QED
  BY <1>2, <1>3, FewerClaims

LEMMA OneLessClaim ==
    ASSUME NEW A, IsFiniteSet(A), NEW q \in A, NEW B, B \subseteq A \ {q},
           NEW n \in Nat, NEW k \in Nat, n + Cardinality(A) <= k
    PROVE  IsFiniteSet(B) /\ (n + 1) + Cardinality(B) <= k
<1>1. Cardinality(A) \in Nat
  BY FS_CardinalityType
<1>2. IsFiniteSet(A \ {q}) /\ Cardinality(A \ {q}) = Cardinality(A) - 1
  BY FS_RemoveElement
<1> QED
  BY <1>1, <1>2, FewerClaims

LEMMA CountedStep ==
    ASSUME RunInv, EarnInv, [RNext]_vars, NEW t \in Stored'
    PROVE  Counted(t)'
<1>1. /\ TypeOK /\ RShape /\ BusInv /\ Stored \subseteq Tasks /\ [Next]_busVars
      /\ started \in [Tasks -> Nat] /\ answer \in [Handoffs -> Answer]
  BY RuntimeIsBusStep DEF RunInv, BusInv, TypeOK, EarnInv, HistoryShape
<1> DEFINE Old == Claimers(t)
           New == Claimers(t)'
<1>2. ASSUME t \in Stored
      PROVE  /\ IsFiniteSet(Old) /\ started[t] \in Nat
             /\ started[t] + Cardinality(Old) <= records[t].attempt
             /\ records[t].attempt \in Nat /\ records'[t].attempt \in Nat
             /\ records[t].attempt <= records'[t].attempt
  BY <1>1, <1>2, RecordsGoOn DEF EarnInv, Counted
<1>3. ASSUME t \in Stored, New \subseteq Old, started'[t] = started[t]
      PROVE  Counted(t)'
  <2> HIDE DEF Old, New
  <2>1. IsFiniteSet(New) /\ started[t] + Cardinality(New) <= records[t].attempt
    BY <1>2, <1>3, FewerClaims
  <2>2. Cardinality(New) \in Nat
    BY <2>1, FS_CardinalityType
  <2>3. started[t] + Cardinality(New) <= records'[t].attempt
    BY <1>2, <1>3, <2>1, <2>2
  <2> USE DEF New
  <2> QED
    BY <1>3, <2>1, <2>3 DEF Counted
<1>4. ASSUME NEW q \in Procs, Moves(q), phase'[q] # "claimed"
      PROVE  New \subseteq Old \ {q}
  BY <1>4 DEF Claimers, Moves
<1>5. CASE Passes
  <2>1. New \subseteq Old
    BY <1>4, <1>5 DEF Passes, Claimers
  <2>2. CASE t \in Stored
    BY <1>3, <1>5, <2>1, <2>2 DEF Passes
  <2>3. CASE t \notin Stored
    <3>1. Old = {}
      BY <2>3 DEF Claimers, EarnInv, InHand
    <3>2. t \in Tasks /\ records'[t] = NewRecord /\ started'[t] = 0
      <4>1. t \in Tasks
        BY <1>1, StoredStaysKnown
      <4> QED
        BY <1>5, <2>3, <4>1 DEF Passes, EarnInv, HistoryShape
    <3>3. New = {} /\ IsFiniteSet({}) /\ Cardinality({}) = 0
      BY <2>1, <3>1, FS_EmptySet
    <3> QED
      BY <3>2, <3>3 DEF Counted, NewRecord
  <2> QED
    BY <2>2, <2>3
<1>6. ASSUME NEW q \in Procs, NEW x \in Tasks, Takes(q, x)
      PROVE  Counted(t)'
  <2>1. t \in Stored /\ x \in Stored /\ started'[t] = started[t]
    BY <1>6 DEF Takes
  <2>2. CASE t = x
    <3>1. New \subseteq Old \cup {q}
      BY <1>6 DEF Takes, Moves, Claimers
    <3>2. records'[t].attempt = records[t].attempt + 1
      BY <1>1, <1>6, <2>1, <2>2, ChangedFields DEF Takes
    <3>3. IsFiniteSet(New) /\ started[t] + Cardinality(New) <= records[t].attempt + 1
      <4> HIDE DEF Old, New
      <4> QED
        BY <1>2, <2>1, <3>1, OneMoreClaim
    <3> QED
      BY <2>1, <3>2, <3>3 DEF Counted
  <2>3. CASE t # x
    <3>1. New \subseteq Old
      BY <1>6, <2>3 DEF Takes, Moves, Claimers
    <3> QED
      BY <1>3, <2>1, <3>1
  <2> QED
    BY <2>2, <2>3
<1>7. ASSUME NEW q \in Procs, NEW x \in Tasks, Runs(q, x)
      PROVE  Counted(t)'
  <2>1. t \in Stored /\ x \in Stored /\ New \subseteq Old \ {q}
    BY <1>4, <1>7 DEF Runs
  <2>2. CASE t = x
    <3>1. q \in Old
      BY <1>7, <2>2 DEF Runs, Claimers
    <3>2. records'[t].attempt = records[t].attempt /\ started'[t] = started[t] + 1
      BY <1>1, <1>7, <2>1, <2>2, ChangedFields DEF Runs
    <3>3. IsFiniteSet(New) /\ (started[t] + 1) + Cardinality(New) <= records[t].attempt
      <4> HIDE DEF Old, New
      <4>1. New \subseteq Old \ {q} /\ q \in Old
        BY <2>1, <3>1
      <4> QED
        BY <1>2, <2>1, <4>1, OneLessClaim
    <3> QED
      BY <3>2, <3>3 DEF Counted
  <2>3. CASE t # x
    <3>1. started'[t] = started[t]
      BY <1>1, <1>7, <2>3 DEF Runs
    <3> QED
      BY <1>3, <2>1, <3>1
  <2> QED
    BY <2>2, <2>3
<1>8. ASSUME NEW q \in Procs, NEW x \in Tasks, Settles(q, x)
      PROVE  Counted(t)'
  BY <1>3, <1>4, <1>8 DEF Settles
<1>9. ASSUME NEW h \in Handoffs, Answers(h)
      PROVE  Counted(t)'
  BY <1>3, <1>4, <1>9 DEF Answers, HandoffAnswers, busVars, Procs, Stored
<1> QED
  BY <1>1, <1>5, <1>6, <1>7, <1>8, <1>9, StepEffects

LEMMA EarnedStep ==
    ASSUME RunInv, EarnInv, [RNext]_vars, NEW t \in Stored'
    PROVE  Earned(t)' /\ (t \in Stored => started[t] <= started'[t])
<1>1. /\ TypeOK /\ RShape /\ BusInv /\ Stored \subseteq Tasks /\ [Next]_busVars
      /\ started \in [Tasks -> Nat] /\ answer \in [Handoffs -> Answer]
  BY RuntimeIsBusStep DEF RunInv, BusInv, TypeOK, EarnInv, HistoryShape
<1>2. ASSUME t \in Stored, Untouched(t) \/ Expired(t), started'[t] = started[t]
      PROVE  Earned(t)' /\ started[t] <= started'[t]
  <2>1. /\ records'[t].status \in {records[t].status, "expired"}
        /\ records'[t].result = records[t].result
    BY <1>1, <1>2, ChangedFields DEF Untouched
  <2>2. Earned(t) /\ t \in Tasks
    BY <1>1, <1>2 DEF EarnInv
  <2> QED
    BY <1>1, <1>2, <2>1, <2>2 DEF Earned
<1>3. CASE Passes
  <2>1. CASE t \in Stored
    BY <1>2, <1>3, <2>1 DEF Passes
  <2>2. CASE t \notin Stored
    BY <1>3, <2>2, NoneIsNoValue DEF Passes, NewRecord, Earned, ResultStatus
  <2> QED
    BY <2>1, <2>2
<1>4. ASSUME NEW q \in Procs, NEW x \in Tasks, Takes(q, x)
      PROVE  Earned(t)' /\ started[t] <= started'[t]
  <2>1. t \in Stored /\ started'[t] = started[t] /\ started[t] \in Nat
    BY <1>1, <1>4 DEF Takes
  <2>2. CASE t = x
    <3>1. records'[t].status = "claimed" /\ records'[t].result = None
      BY <1>1, <1>4, <2>1, <2>2, ChangedFields DEF Takes
    <3> QED
      BY <2>1, <3>1, NoneIsNoValue DEF Earned, ResultStatus
  <2> QED
    BY <1>2, <1>4, <2>1, <2>2 DEF Takes
<1>5. ASSUME NEW q \in Procs, NEW x \in Tasks, Runs(q, x)
      PROVE  Earned(t)' /\ started[t] <= started'[t]
  <2>1. t \in Stored /\ started[t] \in Nat
    BY <1>1, <1>5 DEF Runs
  <2>2. CASE t = x
    <3>1. records'[t].status = "running" /\ records'[t].result = records[t].result
      BY <1>1, <1>5, <2>1, <2>2, ChangedFields DEF Runs
    <3>2. started'[t] = started[t] + 1
      BY <1>1, <1>5, <2>1, <2>2 DEF Runs
    <3> QED
      BY <2>1, <3>1, <3>2 DEF EarnInv, Earned
  <2>3. CASE t # x
    <3>1. started'[t] = started[t] /\ Untouched(t)
      BY <1>1, <1>5, <2>1, <2>3 DEF Runs
    <3> QED
      BY <1>2, <2>1, <3>1
  <2> QED
    BY <2>2, <2>3
<1>6. ASSUME NEW q \in Procs, NEW x \in Tasks, Settles(q, x)
      PROVE  Earned(t)' /\ started[t] <= started'[t]
  <2>1. t \in Stored /\ started[t] \in Nat /\ started'[t] = started[t]
    BY <1>1, <1>6 DEF Settles
  <2>2. CASE t = x
    <3>1. CASE t \notin Permitted[q] /\ Complete(WorkerId[q], t, "rejected")
      <4>1. records'[t].status = "rejected"
        BY <1>1, <2>1, <3>1, SettlingFields DEF ResultStatus
      <4> QED
        BY <2>1, <3>1, <4>1 DEF Earned
    <3>2. CASE phase[q] = "executing" /\ t = local[q].task
      <4>1. started'[t] > 0
        BY <2>1, <3>2 DEF EarnInv, InHand
      <4>2. CASE Complete(WorkerId[q], t, "succeeded")
        BY <1>1, <2>1, <4>1, <4>2, SettlingFields DEF Earned, ResultStatus
      <4>3. CASE Fail(WorkerId[q], t)
        BY <1>1, <2>1, <4>1, <4>3, SettlingFields, NoneIsNoValue DEF Earned, ResultStatus
      <4>4. CASE Complete(WorkerId[q], t, "rejected") /\ t \notin Permitted[q]
        BY <3>1, <4>4
      <4> QED
        BY <1>6, <2>2, <4>2, <4>3, <4>4 DEF Settles
    <3> QED
      BY <1>6, <2>2, <3>1, <3>2 DEF Settles
  <2>3. CASE t # x
    BY <1>2, <1>6, <2>1, <2>3 DEF Settles
  <2> QED
    BY <2>2, <2>3
<1>7. ASSUME NEW h \in Handoffs, Answers(h)
      PROVE  Earned(t)' /\ started[t] <= started'[t]
  BY <1>2, <1>7 DEF Answers, HandoffAnswers, busVars, Untouched, Stored
<1> QED
  BY <1>1, <1>3, <1>4, <1>5, <1>6, <1>7, StepEffects

LEMMA StartedGrows ==
    ASSUME RunInv, EarnInv, [RNext]_vars
    PROVE  /\ started' \in [Tasks -> Nat]
           /\ \A t \in Tasks : started[t] <= started'[t]
           /\ \A t \in Tasks \ Stored' : started'[t] = 0
<1>1. /\ TypeOK /\ RShape /\ BusInv /\ Stored \subseteq Tasks /\ [Next]_busVars
      /\ started \in [Tasks -> Nat] /\ answer \in [Handoffs -> Answer]
  BY RuntimeIsBusStep DEF RunInv, BusInv, TypeOK, EarnInv, HistoryShape
<1>2. Stored \subseteq Stored'
  BY <1>1, StepOfRecord
<1>3. CASE started' = started
  BY <1>1, <1>2, <1>3 DEF EarnInv, HistoryShape
<1>4. ASSUME NEW q \in Procs, NEW t \in Tasks, Runs(q, t)
      PROVE  /\ started' \in [Tasks -> Nat]
             /\ \A x \in Tasks : started[x] <= started'[x]
             /\ \A x \in Tasks \ Stored' : started'[x] = 0
  <2>1. /\ t \in Stored /\ started' = [started EXCEPT ![t] = started[t] + 1]
        /\ started[t] + 1 \in Nat
    BY <1>1, <1>4 DEF Runs
  <2> QED
    BY <1>1, <1>2, <1>3, <2>1 DEF EarnInv, HistoryShape
<1> QED
  BY <1>1, <1>3, <1>4, StepEffects DEF Passes, Takes, Settles, Answers, HandoffAnswers

\* The phases of handoffs and of app workers, and the tasks they have in hand.
LEMMA PhasesByKind ==
    ASSUME RunInv, EarnInv, [RNext]_vars, NEW p \in Procs
    PROVE  /\ p \in Handoffs => phase'[p] \in HandoffPhase
           /\ p \in AppWorkers => phase'[p] \in AppPhase
           /\ phase'[p] \in {"submitted", "claimed", "executing", "reading", "answered"}
                => local'[p].task \in Stored'
<1> DEFINE Fine == /\ p \in Handoffs => phase'[p] \in HandoffPhase
                   /\ p \in AppWorkers => phase'[p] \in AppPhase
                   /\ phase'[p] \in {"submitted", "claimed", "executing", "reading", "answered"}
                        => local'[p].task \in Stored'
<1>1. /\ TypeOK /\ RShape /\ BusInv /\ Stored \subseteq Stored' /\ InHand(p)
      /\ Handoffs \cap AppWorkers = {} /\ Handoffs \subseteq Procs /\ AppWorkers \subseteq Procs
      /\ OneTaskPerKey'
  BY RuntimeIsBusStep, StepOfRecord, OneTaskPerKeyStep, RuntimeAssumption
  DEF RunInv, BusInv, TypeOK, EarnInv, Procs
<1>2. CASE phase'[p] = phase[p] /\ local'[p] = local[p]
  BY <1>1, <1>2 DEF InHand
<1>3. ASSUME NEW q \in Procs, NEW ph, GoTo(q, ph)
      PROVE  phase'[q] = ph /\ \A x \in Procs \ {q} : phase'[x] = phase[x]
  BY <1>1, <1>3 DEF GoTo, RShape
<1>4. CASE RunStep(p)
  <2>1. CASE phase'[p] = "raised"
    BY <2>1 DEF HandoffPhase, AppPhase
  <2>2. CASE RunReturns(p)
    <3>1. CASE p \in Handoffs
      <4>1. phase'[p] = "reading" /\ local'[p] = local[p]
        BY <1>3, <2>2, <3>1 DEF RunReturns
      <4>2. phase[p] \in {"claimed", "executing"}
        BY <1>4 DEF RunStep, Rejects, Starts, Finishes, ClaimedEventRaises
      <4> QED
        BY <1>1, <3>1, <4>1, <4>2 DEF InHand, HandoffPhase
    <3>2. CASE p \notin Handoffs
      <4>1. phase'[p] = "polling"
        BY <1>3, <2>2, <3>2 DEF RunReturns
      <4> QED
        BY <3>2, <4>1 DEF AppPhase
    <3> QED
      BY <3>1, <3>2
  <2>3. CASE Starts(p) /\ local' = local
    <3>1. phase[p] = "claimed" /\ phase'[p] \in {"executing", "raised"}
      BY <1>3, <2>3 DEF Starts, LosesTask
    <3> QED
      BY <1>1, <2>1, <2>3, <3>1 DEF InHand, HandoffPhase, AppPhase
  <2> QED
    BY <1>3, <1>4, <2>1, <2>2, <2>3
    DEF RunStep, Rejects, Starts, Finishes, ClaimedEventRaises, LosesTask, AfterSettling
<1>5. CASE p \in Handoffs /\ HandoffStep(p)
  <2>1. CASE HandoffSubmits(p)
    <3>1. Request[p] \in Tasks /\ Submit(Request[p]) /\ phase'[p] = "submitted"
      BY <1>1, <1>3, <1>5, <2>1, RuntimeAssumption DEF HandoffSubmits
    <3>2. local'[p].task = SubmittedId(Request[p])
      BY <1>1, <1>5, <2>1 DEF HandoffSubmits, RShape, Local
    <3>3. SubmittedId(Request[p]) \in Stored'
      <4>1. KeyOf[Request[p]] \in Keys
        BY <3>1, BusAssumption
      <4>2. CASE taskIdByKey[KeyOf[Request[p]]] = None
        BY <3>1, <4>2 DEF Submit, SubmittedId, Stored
      <4>3. CASE taskIdByKey[KeyOf[Request[p]]] # None
        BY <1>1, <4>1, <4>3 DEF SubmittedId, TypeOK
      <4> QED
        BY <4>2, <4>3
    <3> QED
      BY <1>1, <1>5, <3>1, <3>2, <3>3 DEF HandoffPhase
  <2>2. CASE HandoffClaims(p)
    <3>1. phase[p] = "submitted" /\ phase'[p] \in {"claimed", "reading"}
      BY <1>3, <1>1, <1>5, <2>2 DEF HandoffClaims
    <3>2. local'[p].task = local[p].task
      BY <1>1, <1>5, <2>2 DEF HandoffClaims, TakesRecord, RShape
    <3> QED
      BY <1>1, <1>5, <3>1, <3>2 DEF InHand, HandoffPhase
  <2>3. CASE HandoffAnswers(p)
    <3>1. phase[p] = "reading" /\ phase'[p] = "answered" /\ local'[p] = local[p]
      BY <1>1, <1>3, <1>5, <2>3 DEF HandoffAnswers
    <3> QED
      BY <1>1, <1>5, <3>1 DEF InHand, HandoffPhase
  <2>4. CASE HandoffCancelled(p)
    <3>1. phase'[p] = "cancelled"
      BY <1>1, <1>3, <1>5, <2>4 DEF HandoffCancelled
    <3> QED
      BY <1>1, <1>5, <3>1 DEF HandoffPhase
  <2> QED
    BY <1>5, <2>1, <2>2, <2>3, <2>4 DEF HandoffStep
<1>6. CASE p \in AppWorkers /\ AppStep(p)
  <2>1. CASE AppStops(p)
    <3>1. phase'[p] = "stopped"
      BY <1>1, <1>3, <1>6, <2>1 DEF AppStops
    <3> QED
      BY <1>1, <1>6, <3>1 DEF AppPhase
  <2>2. ASSUME NEW i \in 1 .. Len(order), TakesRecord(p, order[i]), GoTo(p, "claimed")
        PROVE  Fine
    <3>1. order[i] \in Stored /\ local'[p].task = order[i] /\ phase'[p] = "claimed"
      BY <1>1, <1>3, <2>2 DEF TypeOK, TakesRecord, RShape
    <3> QED
      BY <1>1, <1>6, <3>1 DEF AppPhase
  <2> QED
    BY <1>2, <1>6, <2>1, <2>2 DEF AppStep, AppClaims
<1>7. ASSUME NEW q \in Procs \ {p},
             \/ q \in Handoffs /\ HandoffStep(q)
             \/ q \in AppWorkers /\ AppStep(q)
             \/ RunStep(q)
      PROVE  Fine
  BY <1>2, <1>7, StepsByWorker
<1>8. CASE UNCHANGED <<phase, local>>
  BY <1>2, <1>8
<1> QED
  BY <1>1, <1>4, <1>5, <1>6, <1>7, <1>8
  DEF RNext, ApprovalSubmits, ShutdownBegins, ShutdownEnds, TimePasses, runtimeVars, vars

LEMMA InHandStep ==
    ASSUME RunInv, EarnInv, [RNext]_vars, NEW p \in Procs
    PROVE  InHand(p)'
<1>1. /\ TypeOK /\ RShape /\ Stored \subseteq Tasks
      /\ started \in [Tasks -> Nat] /\ answer \in [Handoffs -> Answer]
      /\ started' \in [Tasks -> Nat] /\ \A t \in Tasks : started[t] <= started'[t]
  BY StartedGrows DEF RunInv, BusInv, TypeOK, EarnInv, HistoryShape
<1>2. ASSUME phase'[p] = "executing" PROVE started'[local'[p].task] > 0
  <2>1. CASE phase[p] = "executing" /\ local'[p] = local[p]
    <3>1. local[p].task \in Tasks /\ started[local[p].task] > 0
      BY <1>1, <2>1 DEF EarnInv, InHand
    <3> QED
      BY <1>1, <2>1, <3>1
  <2>2. CASE \E t \in Tasks : Runs(p, t)
    BY <1>1, <2>2 DEF Runs
  <2>3. \/ phase[p] = "executing" /\ local'[p] = local[p]
        \/ \E t \in Tasks : Runs(p, t)
    <3>1. ASSUME NEW q \in Procs, Moves(q), phase'[q] # "executing"
          PROVE  phase[p] = "executing" /\ local'[p] = local[p]
      BY <1>2, <3>1 DEF Moves
    <3>2. ASSUME NEW q \in Procs, NEW t \in Tasks, Runs(q, t), q # p
          PROVE  phase[p] = "executing" /\ local'[p] = local[p]
      BY <1>2, <3>2 DEF Runs, Moves
    <3>3. ASSUME NEW h \in Handoffs, Answers(h)
          PROVE  phase[p] = "executing" /\ local'[p] = local[p]
      BY <3>1, <3>3 DEF Answers, Procs
    <3> QED
      BY <1>1, <1>2, <3>1, <3>2, <3>3, StepEffects DEF Passes, Takes, Settles
  <2> QED
    BY <2>1, <2>2, <2>3
<1> QED
  BY <1>2, PhasesByKind DEF InHand

LEMMA AnsweredStep ==
    ASSUME RunInv, EarnInv, [RNext]_vars, NEW h \in Handoffs
    PROVE  Answered(h)'
<1>1. /\ TypeOK /\ RShape /\ BusInv /\ [Next]_busVars /\ h \in Procs
      /\ started \in [Tasks -> Nat] /\ answer \in [Handoffs -> Answer]
      /\ InHand(h) /\ Answered(h)
  BY RuntimeIsBusStep DEF RunInv, BusInv, TypeOK, EarnInv, HistoryShape, Procs
<1>2. None \notin {"output"} \cup Settled
  BY RuntimeAssumption DEF Status
<1>3. CASE answer'[h] = None
  BY <1>2, <1>3 DEF Answered
<1>4. CASE answer'[h] # None /\ answer'[h] = answer[h]
  <2>1. phase[h] = "answered" /\ local[h].task \in Stored
    BY <1>1, <1>4 DEF InHand, Answered
  <2>2. phase'[h] = "answered" /\ local'[h] = local[h]
    <3>1. ASSUME NEW q \in Procs, Moves(q)
          PROVE  phase'[h] = "answered" /\ local'[h] = local[h]
      BY <1>1, <2>1, <3>1 DEF Moves
    <3> QED
      BY <1>1, <2>1, <3>1, StepEffects DEF Passes, Takes, Runs, Settles, Answers, Procs
  <2> DEFINE t == local[h].task
  <2>3. records[t].result = "succeeded" => records[t].status \in Settled
    BY <1>1, <2>1, NoneIsNoValue DEF BusInv, ResultMatchesStatus, Settled, ResultStatus
  <2>4. records[t].status \in Settled =>
           /\ records'[t].status \in {records[t].status, "expired"}
           /\ records'[t].result = records[t].result
    BY <1>1, <2>1, RecordsGoOn
  <2>5. answer[h] = "output" => records[t].result = "succeeded"
    BY <1>1 DEF Answered
  <2>6. answer[h] \in Settled => records[t].status \in {answer[h], "expired"}
    BY <1>1 DEF Answered
  <2>7. answer[h] \in Settled => records'[t].status \in {answer[h], "expired"}
    BY <2>4, <2>6 DEF Settled
  <2>8. answer[h] = "output" => records'[t].result = "succeeded"
    BY <2>3, <2>4, <2>5
  <2> QED
    BY <1>4, <2>2, <2>7, <2>8 DEF Answered
<1>5. ASSUME NEW g \in Handoffs, Answers(g) PROVE Answered(h)'
  <2>1. CASE g = h
    <3>1. /\ local'[h] = local[h] /\ records' = records /\ phase'[h] = "answered"
          /\ answer'[h] = IF records[local[h].task].result = "succeeded" THEN "output"
                          ELSE records[local[h].task].status
      BY <1>1, <1>5, <2>1 DEF Answers, HandoffAnswers, busVars
    <3>2. local[h].task \in Stored
      BY <1>1, <1>5, <2>1 DEF InHand, Answers
    <3>3. records[local[h].task].status # "output"
      BY <1>1, <3>2 DEF TypeOK, Record, Status, Leased, Settled
    <3> QED
      BY <3>1, <3>3 DEF Answered, Settled
  <2>2. CASE g # h
    <3>1. answer'[h] = answer[h]
      BY <1>1, <1>5, <2>2 DEF Answers, HandoffAnswers
    <3> QED
      BY <1>3, <1>4, <3>1
  <2> QED
    BY <2>1, <2>2
<1> QED
  BY <1>1, <1>3, <1>4, <1>5, StepEffects DEF Passes, Takes, Runs, Settles

LEMMA HistoryStep ==
    ASSUME RunInv, EarnInv, [RNext]_vars
    PROVE  HistoryShape'
<1>1. answer' \in [Handoffs -> Answer]
  <2>1. /\ TypeOK /\ RShape /\ started \in [Tasks -> Nat] /\ answer \in [Handoffs -> Answer]
    BY DEF RunInv, BusInv, EarnInv, HistoryShape
  <2>2. ASSUME NEW h \in Handoffs, Answers(h) PROVE answer' \in [Handoffs -> Answer]
    <3>1. h \in Procs /\ phase[h] = "reading"
      BY <2>2 DEF Answers, Procs
    <3>2. records[local[h].task] \in Record
      BY <2>1, <3>1 DEF EarnInv, InHand, TypeOK
    <3>3. (IF records[local[h].task].result = "succeeded" THEN "output"
           ELSE records[local[h].task].status) \in Answer
      BY <3>2 DEF Answer, Record
    <3> QED
      BY <2>1, <2>2, <3>3 DEF Answers, HandoffAnswers
  <2> QED
    BY <2>1, <2>2, StepEffects DEF Passes, Takes, Runs, Settles
<1>2. lifespan' \in {"serving", "stopping", "closed", "aborted"}
  <2>1. CASE UNCHANGED lifespan
    BY <2>1 DEF EarnInv, HistoryShape
  <2>2. CASE ShutdownBegins \/ ShutdownEnds
    BY <2>2 DEF ShutdownBegins, ShutdownEnds
  <2> QED
    BY <2>1, <2>2 DEF RNext, HandoffStep, RunStep, AppStep, HandoffSubmits, HandoffClaims,
          HandoffAnswers, HandoffCancelled, Rejects, Starts, Finishes, ClaimedEventRaises,
          AppClaims, AppStops, ApprovalSubmits, TimePasses, runtimeVars, vars
<1> QED
  BY <1>1, <1>2, StartedGrows DEF HistoryShape

LEMMA EarnInvInductive == RSpec => []EarnInv
<1>1. RInit => EarnInv
  <2> SUFFICES ASSUME RInit PROVE EarnInv
    OBVIOUS
  <2>1. Stored = {}
    BY DEF RInit, Init, Stored
  <2>2. HistoryShape
    BY DEF RInit, HistoryShape, Answer
  <2>3. \A p \in Procs : InHand(p)
    BY RuntimeAssumption DEF RInit, InHand, Procs, HandoffPhase, AppPhase
  <2>4. ASSUME NEW h \in Handoffs PROVE Answered(h)
    <3>1. answer[h] = None
      BY DEF RInit
    <3>2. None \notin {"output"} \cup Settled
      BY RuntimeAssumption DEF Status
    <3> QED
      BY <3>1, <3>2 DEF Answered
  <2> QED
    BY <2>1, <2>2, <2>3, <2>4 DEF EarnInv
<1>2. RunInv /\ EarnInv /\ [RNext]_vars => EarnInv'
  <2> SUFFICES ASSUME RunInv, EarnInv, [RNext]_vars PROVE EarnInv'
    OBVIOUS
  <2>1. \A t \in Stored' : Counted(t)' /\ Earned(t)'
    BY CountedStep, EarnedStep
  <2>2. (\A p \in Procs : InHand(p)') /\ \A h \in Handoffs : Answered(h)'
    BY InHandStep, AnsweredStep
  <2> QED
    BY <2>1, <2>2, HistoryStep DEF EarnInv
<1> QED
  BY <1>1, <1>2, RunInvInductive, PTL DEF RSpec

\* Every process, record, answer and counter of the runtime is what it seems, and
\* what a process has in hand is stored.
THEOREM RuntimeTypeCorrect == RSpec => []RTypeOK
<1>1. RunInv /\ EarnInv => RTypeOK
  <2> SUFFICES ASSUME RunInv, EarnInv PROVE RTypeOK
    OBVIOUS
  <2>1. /\ \A h \in Handoffs : phase[h] \in HandoffPhase
        /\ \A a \in AppWorkers : phase[a] \in AppPhase
    BY DEF EarnInv, InHand, Procs
  <2> QED
    BY <2>1 DEF RunInv, BusInv, RShape, EarnInv, HistoryShape, InHand, RTypeOK
<1> QED
  BY <1>1, RunInvInductive, EarnInvInductive, PTL

\* However handoffs, app workers, cancellations and takeovers interleave: success and
\* dead-lettering follow an execution, each execution has a counted attempt, rejection
\* a policy that denies, and a final answer stays true of the record.
THEOREM RuntimeOutcomesAreEarned == RSpec => []OutcomeIsEarned
<1>1. RunInv /\ EarnInv => OutcomeIsEarned
  <2> SUFFICES ASSUME RunInv, EarnInv PROVE OutcomeIsEarned
    OBVIOUS
  <2>1. RunsAreCounted
    <3> SUFFICES ASSUME NEW t \in Stored PROVE started[t] <= records[t].attempt
      BY DEF RunsAreCounted
    <3>1. /\ started[t] \in Nat /\ records[t].attempt \in Nat /\ IsFiniteSet(Claimers(t))
          /\ started[t] + Cardinality(Claimers(t)) <= records[t].attempt
      BY DEF RunInv, BusInv, TypeOK, Record, EarnInv, HistoryShape, Counted
    <3>2. Cardinality(Claimers(t)) \in Nat
      BY <3>1, FS_CardinalityType
    <3> QED
      BY <3>1, <3>2
  <2>2. AnswersStayTrue
    BY DEF EarnInv, Answered, AnswersStayTrue
  <2> QED
    BY <2>1, <2>2 DEF EarnInv, Earned, OutcomeIsEarned
<1> QED
  BY <1>1, RunInvInductive, EarnInvInductive, PTL

=============================================================================
