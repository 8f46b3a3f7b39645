------------------------------ MODULE TaskBus ------------------------------
(***************************************************************************)
(* InMemoryAgentTaskBus (infrastructure/persistence/tasks.py), the store   *)
(* of delegated tasks, under its most general client: any worker may call  *)
(* any method at any time.  Every method holds the bus's asyncio.Lock for  *)
(* its whole body, so a method is one action.  `order` is the insertion    *)
(* order of the dict `_records`, which `claim` follows.                    *)
(***************************************************************************)
EXTENDS Integers, Sequences

CONSTANTS Tasks,         \* task ids (uuid4) that can be submitted
          Keys,          \* idempotency keys
          KeyOf,         \* the idempotency key each task is created with
          ExpiresAt,     \* expires_at of each task, or None
          Workers,       \* worker id strings
          MaxAttempts,   \* DelegationTask.max_attempts
          LeaseSeconds,  \* lease_seconds of claim and claim_task
          MaxTime,       \* bound: the clock stops here
          None           \* Python's None

\* The statuses with which the worker calls complete().
ResultStatus == {"succeeded", "rejected"}

ASSUME BusAssumption ==
    /\ KeyOf \in [Tasks -> Keys]
    /\ ExpiresAt \in [Tasks -> Nat \cup {None}]
    /\ MaxAttempts \in Nat \ {0}
    /\ LeaseSeconds \in Nat
    /\ MaxTime \in Nat
    /\ None \notin Tasks \cup Workers \cup Nat \cup ResultStatus

VARIABLES records,       \* _records: the stored DelegationTaskRecords by task id
          order,         \* insertion order of the keys of _records
          taskIdByKey,   \* _task_id_by_idempotency_key
          now            \* utc_now()

busVars == <<records, order, taskIdByKey, now>>

Settled == {"succeeded", "rejected", "expired", "dead_letter"}
Leased  == {"claimed", "running"}
Status  == {"pending"} \cup Leased \cup Settled

Record == [status  : Status,
           attempt : Nat,
           owner   : Workers \cup {None},
           lease   : Nat \cup {None},
           result  : ResultStatus \cup {None},
           failure : {"task_expired", "error", None}]

Stored == DOMAIN records

TypeOK ==
    /\ Stored \subseteq Tasks
    /\ records \in [Stored -> Record]
    /\ order \in Seq(Stored)
    /\ taskIdByKey \in [Keys -> Stored \cup {None}]
    /\ now \in 0..MaxTime

----------------------------------------------------------------------------
(* What the methods read and write *)

NewRecord == [status |-> "pending", attempt |-> 0, owner |-> None,
              lease |-> None, result |-> None, failure |-> None]

LeaseEnd == now + (IF LeaseSeconds > 1 THEN LeaseSeconds ELSE 1)

PastExpiry(t) == ExpiresAt[t] # None /\ ExpiresAt[t] <= now

\* A mutant of LeaseExpired: a running task is not recovered.
LeaseExpiredIfClaimed(t) == /\ records[t].status = "claimed"
                            /\ records[t].lease # None
                            /\ records[t].lease <= now

LeaseExpired(t) == /\ records[t].status \in Leased
                   /\ records[t].lease # None
                   /\ records[t].lease <= now

\* Mutants of Claimable: a lease does not protect; what is not leased is free.
ClaimableLeased(t) == ~PastExpiry(t) /\ records[t].status \in {"pending"} \cup Leased
ClaimableSettled(t) == ~PastExpiry(t) /\ (records[t].status \notin Leased \/ LeaseExpired(t))

\* A record that claim and claim_task may lease.
Claimable(t) == /\ ~PastExpiry(t)
                /\ records[t].status = "pending" \/ LeaseExpired(t)

\* replace(record, status="expired", ...) keeps the owner, lease and result.
ExpiredRecord(t) ==
    [records[t] EXCEPT !.status = "expired", !.failure = "task_expired"]

\* A mutant of ClaimedRecord: the attempt is not counted.
ClaimedRecordUncounted(t, w) ==
    [NewRecord EXCEPT !.status = "claimed", !.attempt = records[t].attempt,
                      !.owner = w, !.lease = LeaseEnd]

\* A fresh DelegationTaskRecord: result and failure_code are dropped.
ClaimedRecord(t, w) ==
    [NewRecord EXCEPT !.status = "claimed", !.attempt = records[t].attempt + 1,
                      !.owner = w, !.lease = LeaseEnd]

\* A mutant of Owns: only the status is checked.
OwnsAnyLease(w, t) == records[t].status \in Leased

\* The guard of _require_owned; when it is false the method raises RuntimeError.
Owns(w, t) == records[t].owner = w /\ records[t].status \in Leased

\* The id of the record submit() returns for task t.
SubmittedId(t) ==
    IF taskIdByKey[KeyOf[t]] = None THEN t ELSE taskIdByKey[KeyOf[t]]

----------------------------------------------------------------------------
(* The methods of the bus *)

Init ==
    /\ records = << >>
    /\ order = << >>
    /\ taskIdByKey = [k \in Keys |-> None]
    /\ now = 0

\* A mutant of Submit: the index is written and not read.
SubmitAgain(t) ==
    /\ t \notin Stored
    /\ ~PastExpiry(t)
    /\ records' = [x \in Stored \cup {t} |-> IF x = t THEN NewRecord ELSE records[x]]
    /\ order' = Append(order, t)
    /\ taskIdByKey' = [taskIdByKey EXCEPT ![KeyOf[t]] = t]
    /\ UNCHANGED now

\* submit() of a task object created now (contracts/delegation.py refuses
\* an expiry that is not after the creation); a known key stores nothing.
Submit(t) ==
    /\ t \notin Stored
    /\ ~PastExpiry(t)
    /\ IF taskIdByKey[KeyOf[t]] = None
         THEN /\ records' = [x \in Stored \cup {t} |->
                                IF x = t THEN NewRecord ELSE records[x]]
              /\ order' = Append(order, t)
              /\ taskIdByKey' = [taskIdByKey EXCEPT ![KeyOf[t]] = t]
         ELSE UNCHANGED <<records, order, taskIdByKey>>
    /\ UNCHANGED now

\* claim() with limit 1 that leases the i-th record: the loop passes the
\* records before it, none of them claimable, and expires those past expiry.
ClaimAt(w, i) ==
    /\ Claimable(order[i])
    /\ \A j \in 1..(i - 1) : ~Claimable(order[j])
    /\ records' = [t \in Stored |->
          IF t = order[i] THEN ClaimedRecord(t, w)
          ELSE IF PastExpiry(t) /\ \E j \in 1..(i - 1) : order[j] = t
                 THEN ExpiredRecord(t)
          ELSE records[t]]
    /\ UNCHANGED <<order, taskIdByKey, now>>

\* claim() that leases nothing: the loop expires every record past expiry.
ClaimNothing ==
    /\ \A t \in Stored : ~Claimable(t)
    /\ records' = [t \in Stored |->
          IF PastExpiry(t) THEN ExpiredRecord(t) ELSE records[t]]
    /\ UNCHANGED <<order, taskIdByKey, now>>

\* claim_task() that leases the named record.
ClaimTask(w, t) ==
    /\ t \in Stored /\ Claimable(t)
    /\ records' = [records EXCEPT ![t] = ClaimedRecord(t, w)]
    /\ UNCHANGED <<order, taskIdByKey, now>>

\* claim_task() that returns None, expiring the record when it is past expiry.
ClaimTaskRefused(t) ==
    /\ t \in Stored /\ ~Claimable(t)
    /\ records' = IF PastExpiry(t)
                    THEN [records EXCEPT ![t] = ExpiredRecord(t)]
                    ELSE records
    /\ UNCHANGED <<order, taskIdByKey, now>>

MarkRunning(w, t) ==
    /\ t \in Stored /\ Owns(w, t)
    /\ records' = [records EXCEPT ![t].status = "running"]
    /\ UNCHANGED <<order, taskIdByKey, now>>

Complete(w, t, resultStatus) ==
    /\ t \in Stored /\ Owns(w, t)
    /\ records' = [records EXCEPT
          ![t] = [records[t] EXCEPT !.status = resultStatus, !.result = resultStatus,
                                    !.owner = None, !.lease = None]]
    /\ UNCHANGED <<order, taskIdByKey, now>>

\* fail(): back to pending, or to dead_letter once the attempts are used up.
FailedStatus(r) == IF r.attempt >= MaxAttempts THEN "dead_letter" ELSE "pending"

Fail(w, t) ==
    /\ t \in Stored /\ Owns(w, t)
    /\ records' = [records EXCEPT
          ![t] = [records[t] EXCEPT !.status = FailedStatus(records[t]), !.failure = "error",
                                    !.owner = None, !.lease = None]]
    /\ UNCHANGED <<order, taskIdByKey, now>>

Tick ==
    /\ now < MaxTime
    /\ now' = now + 1
    /\ UNCHANGED <<records, order, taskIdByKey>>

Claim(w) == (\E i \in 1..Len(order) : ClaimAt(w, i)) \/ ClaimNothing

Settle(w, t) == (\E s \in ResultStatus : Complete(w, t, s)) \/ Fail(w, t)

Next ==
    \/ \E t \in Tasks : Submit(t) \/ ClaimTaskRefused(t)
    \/ \E w \in Workers : Claim(w)
    \/ \E w \in Workers, t \in Tasks :
          ClaimTask(w, t) \/ MarkRunning(w, t) \/ Settle(w, t)
    \/ Tick

Spec == Init /\ [][Next]_busVars

----------------------------------------------------------------------------
(* What the bus promises *)

\* A lease is a status, an owner and an end, together or not at all: without
\* the lease end an abandoned task could never be recovered, with a left-over
\* owner a worker that has settled could write again.  Only the rewrite to
\* "expired" (tasks.py:60-64) leaves the owner and the lease of the old record.
LeaseComplete ==
    \A t \in Stored :
        LET r == records[t] IN
        r.status # "expired" =>
            /\ (r.status \in Leased) <=> (r.owner # None)
            /\ (r.owner # None) <=> (r.lease # None)

\* The idempotency index and the records agree: however submissions race, a
\* key names exactly one stored task, and no stored task is unreachable.
OneTaskPerKey ==
    /\ \A t \in Stored : taskIdByKey[KeyOf[t]] = t
    /\ \A k \in Keys : taskIdByKey[k] # None => KeyOf[taskIdByKey[k]] = k

\* fail() never hands back work whose attempts are used up, and never gives up
\* on work that has attempts left, whatever takeovers came in between.
AttemptBudgetDecides ==
    \A t \in Stored :
        LET r == records[t] IN
        /\ r.status = "pending" => r.attempt < MaxAttempts
        /\ r.status = "dead_letter" => r.attempt >= MaxAttempts
        /\ (r.status = "pending" /\ r.attempt > 0) => r.failure = "error"

\* A stored result is the outcome the record reports, unless the record was
\* rewritten to "expired" afterwards; nothing else is reported with a result.
ResultMatchesStatus ==
    \A t \in Stored :
        LET r == records[t] IN
        /\ r.result # None => r.status \in {r.result, "expired"}
        /\ r.status \in ResultStatus => r.result = r.status

\* No worker takes a task over while the lease of another one still runs, and
\* each takeover counts as an attempt.
LeaseNeverStolen ==
    [][\A t \in Stored :
          (/\ records[t].owner \in Workers
           /\ records'[t].owner \in Workers
           /\ records'[t].owner # records[t].owner)
          => /\ records[t].lease <= now
             /\ records'[t].attempt = records[t].attempt + 1]_busVars

\* A task that was settled is never offered, leased or executed again; only
\* the rewrite to "expired" may touch it, and its result stays.
SettledNeverReopened ==
    [][\A t \in Stored :
          records[t].status \in Settled =>
              /\ records'[t].status \in {records[t].status, "expired"}
              /\ records'[t].result = records[t].result
              /\ records'[t].attempt = records[t].attempt]_busVars

\* The abstract state a state of the bus stands for.
HolderOf(t) == IF t \in Stored /\ records[t].status \in Leased
                 THEN records[t].owner ELSE None

Holder == [t \in Tasks |-> HolderOf(t)]

LapsedTasks == {t \in Stored : LeaseExpired(t)}

SettledTasks == {t \in Stored : records[t].status \in Settled}

Lifecycle == INSTANCE TaskLifecycle WITH
    accepted <- Stored,
    holder   <- Holder,
    lapsed   <- LapsedTasks,
    settled  <- SettledTasks

\* Every behaviour of the bus is one the abstract life cycle allows: one task
\* per key, one holder at a time, takeover only of a lapsed lease, and no way
\* back from a settled state.
ImplementsLifecycle == Lifecycle!Spec
=============================================================================
