--------------------------- MODULE TaskLifecycle ---------------------------
(***************************************************************************)
(* What a delegation task bus promises its clients, without records,       *)
(* statuses, attempts or a clock: a task is accepted once per idempotency  *)
(* key, is held by one worker at a time, changes hands only when nobody    *)
(* holds it or the holder's lease has lapsed, and once settled it is never *)
(* held again.  (AgentTaskBus in application/ports/tasks.py.)              *)
(***************************************************************************)
CONSTANTS Tasks, Keys, KeyOf, Workers, None

VARIABLES accepted,   \* the tasks the bus has taken responsibility for
          holder,     \* the worker leasing each task, or None
          lapsed,     \* the held tasks whose lease has run out
          settled     \* the tasks with a final outcome

lifecycleVars == <<accepted, holder, lapsed, settled>>

Init ==
    /\ accepted = {}
    /\ holder = [t \in Tasks |-> None]
    /\ lapsed = {}
    /\ settled = {}

Accept(t) ==
    /\ \A x \in accepted : KeyOf[x] # KeyOf[t]
    /\ accepted' = accepted \cup {t}
    /\ UNCHANGED <<holder, lapsed, settled>>

\* Settling the tasks of `dead` because they are past their expiry.
Drop(dead) ==
    /\ dead \subseteq accepted
    /\ settled' = settled \cup dead
    /\ lapsed' = lapsed \ dead
    /\ holder' = [t \in Tasks |-> IF t \in dead THEN None ELSE holder[t]]
    /\ UNCHANGED accepted

\* Leasing t to w, and dropping the expired tasks passed on the way.  The end of the
\* lease is fixed by whoever asks for it, so it may be over when it is granted.
Lease(w, t, dead) ==
    /\ t \in accepted \ (settled \cup dead)
    /\ holder[t] = None \/ t \in lapsed
    /\ dead \subseteq accepted
    /\ settled' = settled \cup dead
    /\ \E over \in SUBSET {t} : lapsed' = (lapsed \ (dead \cup {t})) \cup over
    /\ holder' = [x \in Tasks |-> IF x = t THEN w
                                  ELSE IF x \in dead THEN None ELSE holder[x]]
    /\ UNCHANGED accepted

\* The holder gives the task back for another attempt.
GiveBack(t) ==
    /\ holder[t] # None
    /\ holder' = [holder EXCEPT ![t] = None]
    /\ lapsed' = lapsed \ {t}
    /\ UNCHANGED <<accepted, settled>>

\* The holder reports the final outcome.
Finish(t) ==
    /\ holder[t] # None
    /\ holder' = [holder EXCEPT ![t] = None]
    /\ lapsed' = lapsed \ {t}
    /\ settled' = settled \cup {t}
    /\ UNCHANGED accepted

\* Leases run out as time passes.
Lapse(tasks) ==
    /\ \A t \in tasks : holder[t] # None
    /\ lapsed' = lapsed \cup tasks
    /\ UNCHANGED <<accepted, holder, settled>>

Next ==
    \/ \E t \in Tasks : Accept(t) \/ GiveBack(t) \/ Finish(t)
    \/ \E dead \in SUBSET Tasks : Drop(dead) \/ Lapse(dead)
    \/ \E w \in Workers, t \in Tasks, dead \in SUBSET Tasks : Lease(w, t, dead)

Spec == Init /\ [][Next]_lifecycleVars
=============================================================================
