------------------------- MODULE DelegationRuntime -------------------------
(***************************************************************************)
(* The clients of the task bus in one application process: the lifespan-   *)
(* managed AgentTaskWorker.run_forever loops (application/delegation/      *)
(* worker.py, api/server.py), the synchronous handoffs of requests         *)
(* (application/delegation/handoff.py), and the approval API that submits  *)
(* follow-up tasks.  An action is the code from one await of the task bus  *)
(* or of the executor to the next.                                         *)
(***************************************************************************)
EXTENDS TaskBus, FiniteSets

CONSTANTS Handoffs,     \* calls of delegate_to_agent
          AppWorkers,   \* run_forever tasks
          Request,      \* the task object each handoff creates
          Approvals,    \* the task objects the approval API submits
          WorkerId,     \* the worker id of each of them
          Permitted,    \* the tasks each one's delegation policy allows
          EventsFail    \* whether publish() may raise (message_bus_fail_open = false)

Procs == Handoffs \cup AppWorkers

ASSUME RuntimeAssumption ==
    /\ Handoffs \cap AppWorkers = {}
    /\ Request \in [Handoffs -> Tasks]
    /\ \A g, h \in Handoffs : Request[g] = Request[h] => g = h
    /\ Approvals \subseteq Tasks
    /\ \A h \in Handoffs : Request[h] \notin Approvals
    /\ WorkerId \in [Procs -> Workers]
    /\ Permitted \in [Procs -> SUBSET Tasks]
    /\ EventsFail \in BOOLEAN
    /\ None \notin {"output"} \cup Status

VARIABLES phase,     \* where each process is
          local,     \* the record each process last got from the bus
          answer,    \* what each handoff returned to the model
          lifespan,  \* the application lifespan
          started    \* history: how often each task's executor was started

runtimeVars == <<phase, local, answer, lifespan, started>>
vars == <<busVars, runtimeVars>>

HandoffPhase == {"new", "submitted", "claimed", "executing", "reading",
                 "answered", "raised", "cancelled"}
AppPhase == {"polling", "claimed", "executing", "raised", "stopped"}

\* The task a process works on and, once it has claimed it, the attempt and the
\* end of the lease of the record the claim returned.
Local == [task : Tasks \cup {None}, attempt : Nat, lease : Nat]
NoLocal == [task |-> None, attempt |-> 0, lease |-> 0]

\* A handoff returns the output of the task, or a failure naming its status.
Answer == {"output", None} \cup Status

RTypeOK ==
    /\ TypeOK
    /\ phase \in [Procs -> HandoffPhase \cup AppPhase]
    /\ \A h \in Handoffs : phase[h] \in HandoffPhase
    /\ \A a \in AppWorkers : phase[a] \in AppPhase
    /\ local \in [Procs -> Local]
    /\ \A p \in Procs : phase[p] \in {"submitted", "claimed", "executing", "reading", "answered"}
                          => local[p].task \in Stored
    /\ answer \in [Handoffs -> Answer]
    /\ lifespan \in {"serving", "stopping", "closed", "aborted"}
    /\ started \in [Tasks -> Nat]

RInit ==
    /\ Init
    /\ phase = [p \in Procs |-> IF p \in Handoffs THEN "new" ELSE "polling"]
    /\ local = [p \in Procs |-> NoLocal]
    /\ answer = [h \in Handoffs |-> None]
    /\ lifespan = "serving"
    /\ started = [t \in Tasks |-> 0]

GoTo(p, ph) == phase' = [phase EXCEPT ![p] = ph]

\* run_once returns: a handoff goes on to read the record it settled, and the
\* loop of an app worker starts again with nothing in hand.
RunReturns(p) ==
    IF p \in Handoffs
      THEN GoTo(p, "reading") /\ UNCHANGED local
      ELSE GoTo(p, "polling") /\ local' = [local EXCEPT ![p] = NoLocal]

\* The event after a settled task, which may raise, and the end of run_once.
AfterSettling(p) ==
    \/ RunReturns(p)
    \/ EventsFail /\ GoTo(p, "raised") /\ UNCHANGED local

OwnsLocal(p) == Owns(WorkerId[p], local[p].task)

----------------------------------------------------------------------------
(* execute_delegation: submit, run_once(task_id), get *)

HandoffSubmits(h) ==
    /\ phase[h] = "new"
    /\ Submit(Request[h])
    /\ local' = [local EXCEPT ![h].task = SubmittedId(Request[h])]
    /\ GoTo(h, "submitted")
    /\ UNCHANGED <<answer, lifespan, started>>

\* The record a claim of t hands to p.
TakesRecord(p, t) ==
    local' = [local EXCEPT ![p] = [task |-> t, attempt |-> records'[t].attempt,
                                   lease |-> records'[t].lease]]

HandoffClaims(h) ==
    LET t == local[h].task IN
    /\ phase[h] = "submitted"
    /\ \/ /\ ClaimTask(WorkerId[h], t)
          /\ TakesRecord(h, t)
          /\ GoTo(h, "claimed")
       \/ /\ ClaimTaskRefused(t)
          /\ GoTo(h, "reading")
          /\ UNCHANGED local
    /\ UNCHANGED <<answer, lifespan, started>>

HandoffAnswers(h) ==
    LET r == records[local[h].task] IN
    /\ phase[h] = "reading"
    /\ answer' = [answer EXCEPT ![h] = IF r.result = "succeeded" THEN "output" ELSE r.status]
    /\ GoTo(h, "answered")
    /\ UNCHANGED <<busVars, local, lifespan, started>>

\* The request is cancelled (timeout, client gone) while the handoff awaits:
\* CancelledError is no Exception, so the claimed record is left as it is.
HandoffCancelled(h) ==
    /\ phase[h] \in {"submitted", "claimed", "executing", "reading"}
    /\ GoTo(h, "cancelled")
    /\ UNCHANGED <<busVars, local, answer, lifespan, started>>

----------------------------------------------------------------------------
(* run_once, for a claimed record, in handoffs and app workers alike *)

\* The RuntimeError of _require_owned escapes run_once (and run_forever).
LosesTask(p) ==
    /\ ~OwnsLocal(p)
    /\ GoTo(p, "raised")
    /\ UNCHANGED <<busVars, local, started>>

\* A mutant of Rejects: the policy is not asked.
RejectsUnasked(p) ==
    /\ phase[p] = "claimed"
    /\ Complete(WorkerId[p], local[p].task, "rejected")
    /\ RunReturns(p)
    /\ UNCHANGED <<started, answer, lifespan>>

Rejects(p) ==
    /\ phase[p] = "claimed"
    /\ local[p].task \notin Permitted[p]
    /\ \/ /\ Complete(WorkerId[p], local[p].task, "rejected")
          /\ AfterSettling(p)
          /\ UNCHANGED started
       \/ LosesTask(p)
    /\ UNCHANGED <<answer, lifespan>>

\* The event "delegation.task.claimed" raises before anything is done.
ClaimedEventRaises(p) ==
    /\ EventsFail
    /\ phase[p] = "claimed"
    /\ GoTo(p, "raised")
    /\ UNCHANGED <<busVars, local, answer, lifespan, started>>

Starts(p) ==
    /\ phase[p] = "claimed"
    /\ local[p].task \in Permitted[p]
    /\ \/ /\ MarkRunning(WorkerId[p], local[p].task)
          /\ GoTo(p, "executing")
          /\ started' = [started EXCEPT ![local[p].task] = @ + 1]
          /\ UNCHANGED local
       \/ LosesTask(p)
    /\ UNCHANGED <<answer, lifespan>>

\* The executor returns an output or raises, and the outcome is settled.
Finishes(p) ==
    /\ phase[p] = "executing"
    /\ \/ /\ \/ Complete(WorkerId[p], local[p].task, "succeeded")
             \/ Fail(WorkerId[p], local[p].task)
          /\ AfterSettling(p)
          /\ UNCHANGED started
       \/ LosesTask(p)
    /\ UNCHANGED <<answer, lifespan>>

----------------------------------------------------------------------------
(* run_forever and the lifespan that starts and stops it *)

AppClaims(a) ==
    /\ phase[a] = "polling"
    /\ lifespan = "serving"
    /\ \/ \E i \in 1..Len(order) :
             /\ ClaimAt(WorkerId[a], i)
             /\ TakesRecord(a, order[i])
             /\ GoTo(a, "claimed")
       \/ ClaimNothing /\ UNCHANGED <<phase, local>>
    /\ UNCHANGED <<answer, lifespan, started>>

\* A mutant of AppStops: the loop wants to see an empty queue first.
AppStopsWhenIdle(a) ==
    /\ phase[a] = "polling"
    /\ lifespan # "serving"
    /\ \A t \in Stored : ~Claimable(t)
    /\ GoTo(a, "stopped")
    /\ UNCHANGED <<busVars, local, answer, lifespan, started>>

\* The loop sees the stop event between two runs.
AppStops(a) ==
    /\ phase[a] = "polling"
    /\ lifespan # "serving"
    /\ GoTo(a, "stopped")
    /\ UNCHANGED <<busVars, local, answer, lifespan, started>>

\* _stop_delegation_worker sets the stop event and awaits the worker's task.
ShutdownBegins ==
    /\ lifespan = "serving"
    /\ lifespan' = "stopping"
    /\ UNCHANGED <<busVars, phase, local, answer, started>>

\* `await _worker_task` returns, or raises what the task raised; only when it
\* returns does _lifespan go on to close the message bus.
ShutdownEnds ==
    /\ lifespan = "stopping"
    /\ \A a \in AppWorkers : phase[a] \in {"stopped", "raised"}
    /\ lifespan' = IF \E a \in AppWorkers : phase[a] = "raised" THEN "aborted" ELSE "closed"
    /\ UNCHANGED <<busVars, phase, local, answer, started>>

\* The approval API submits a follow-up task (application/approvals/service.py).
ApprovalSubmits(t) ==
    /\ t \in Approvals
    /\ Submit(t)
    /\ UNCHANGED runtimeVars

TimePasses == Tick /\ UNCHANGED runtimeVars

HandoffStep(h) == HandoffSubmits(h) \/ HandoffClaims(h) \/ HandoffAnswers(h)
                     \/ HandoffCancelled(h)
RunStep(p) == Rejects(p) \/ Starts(p) \/ Finishes(p) \/ ClaimedEventRaises(p)
AppStep(a) == AppClaims(a) \/ AppStops(a)

RNext ==
    \/ \E h \in Handoffs : HandoffStep(h)
    \/ \E p \in Procs : RunStep(p)
    \/ \E a \in AppWorkers : AppStep(a)
    \/ \E t \in Tasks : ApprovalSubmits(t)
    \/ ShutdownBegins \/ ShutdownEnds
    \/ TimePasses

RSpec == RInit /\ [][RNext]_vars

\* The event loop runs every ready coroutine, an executor returns or raises, and
\* time goes on; nothing obliges a request, an approval or a shutdown to come.
Fairness ==
    /\ \A a \in AppWorkers : WF_vars(AppStep(a))
    /\ \A p \in Procs : WF_vars(RunStep(p))
    /\ \A h \in Handoffs : WF_vars(HandoffClaims(h) \/ HandoffAnswers(h))
    /\ WF_vars(ShutdownEnds)
    /\ WF_vars(TimePasses)

FairRSpec == RSpec /\ Fairness

----------------------------------------------------------------------------
(* What the runtime promises *)

Unshared(p) == \A q \in Procs \ {p} : WorkerId[q] # WorkerId[p]

Holding(p) == phase[p] \in {"claimed", "executing"}

\* While its lease runs, a worker with an id of its own keeps its task and its
\* attempt: nobody settles, restarts or takes over the task under its feet.
\* Only the expiry of the task itself ends the lease early.
LeaseProtectsWorker ==
    \A p \in Procs :
        (Unshared(p) /\ Holding(p) /\ now < local[p].lease) =>
            LET r == records[local[p].task] IN
            r.status = "expired" \/ (OwnsLocal(p) /\ r.attempt = local[p].attempt)

\* A worker with an id of its own that lost its lease cannot settle the attempt
\* of its successor: whenever it passes _require_owned, the attempt is its own.
StaleWorkerIsFenced ==
    \A p \in Procs :
        (Unshared(p) /\ Holding(p) /\ OwnsLocal(p)) =>
            /\ records[local[p].task].attempt = local[p].attempt
            /\ records[local[p].task].lease = local[p].lease

\* The executor of a task is started at most once for each recorded attempt,
\* so the attempt counter that fail() compares with max_attempts misses no run.
RunsAreCounted == \A t \in Stored : started[t] <= records[t].attempt

\* What a handoff reported as final stays true of the stored record, although
\* other workers go on using the record after the handoff has read it.
AnswersStayTrue ==
    \A h \in Handoffs :
        LET r == records[local[h].task] IN
        /\ answer[h] = "output" => r.result = "succeeded"
        /\ answer[h] \in Settled => r.status \in {answer[h], "expired"}

\* No outcome without its cause, and none that is taken back: success and
\* dead-lettering need an execution, every execution a counted attempt, rejection
\* a worker whose policy denies the task, and final answers stay true.
OutcomeIsEarned ==
    /\ \A t \in Stored :
          LET r == records[t] IN
          /\ r.status \in {"succeeded", "dead_letter"} => started[t] > 0
          /\ r.result = "rejected" => \E p \in Procs : t \notin Permitted[p]
    /\ RunsAreCounted
    /\ AnswersStayTrue

\* The horizon of the bounded clock: a lease that ends after MaxTime never lapses.
BeyondHorizon(t) == t \in Stored /\ records[t].status \in Leased /\ records[t].lease > MaxTime

\* As long as the workers live and the application serves, every stored task is
\* settled in the end, also those that cancelled handoffs left claimed.
TasksGetSettled ==
    \A t \in Tasks :
        (t \in Stored) ~> (\/ t \in SettledTasks
                           \/ BeyondHorizon(t)
                           \/ lifespan # "serving"
                           \/ \E a \in AppWorkers : phase[a] = "raised")

\* Shutdown does not hang: the worker loop sees the stop event after the run in
\* hand, whatever tasks are still pending.
ShutdownTerminates == (lifespan = "stopping") ~> (lifespan \in {"closed", "aborted"})

----------------------------------------------------------------------------
(* What the documents say and the code does not do *)

\* worker.py:90: "Continuously claim work until application shutdown signals
\* cancellation": no worker has ended while the application serves.
WorkerRunsUntilShutdown ==
    \A a \in AppWorkers : lifespan = "serving" => phase[a] # "raised"
=============================================================================
