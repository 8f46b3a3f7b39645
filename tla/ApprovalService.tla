-------------------------- MODULE ApprovalService --------------------------
(***************************************************************************)
(* POST /approval-decisions (api/approvals.py): ApprovalService.submit     *)
(* (application/approvals/service.py) over the approval repository         *)
(* (infrastructure/persistence/approvals.py), the follow-up delegation     *)
(* task, and the app worker that runs it.  The service awaits nothing      *)
(* before the task bus, so the calls of one process are serialised up to   *)
(* that point; the calls of different processes are not.                   *)
(***************************************************************************)
EXTENDS DelegationPolicy

CONSTANTS Calls,       \* POSTs; a retry by the client is a call of its own
          Requests,    \* request ids
          RequestOf,   \* the request id of each call
          FormOf,      \* what each call decides
          Processes,   \* application processes
          Texts,       \* contents of the optional fields, "" among them
          Names, Intents, Logical,
          Agents,      \* SUBAGENTS, the registry of every process
          Settings,    \* the deployments to consider
          None         \* Python's None

Decision == {"approved", "rejected", "more_info_requested"}

\* A decision and its optional fields (store_id, approver, reason, notes).
Form == [decision : Decision, text : Texts \cup {None}]

TaskStatus == {"pending", "succeeded", "rejected"}
FollowUpTask == [status : TaskStatus, form : Form]

\* A deployment: where decisions and tasks are kept, what a failing statement
\* does, the follow-up task of an approval as the policy sees it, and the process
\* that serves each call.
Deployment ==
    [enabled        : BOOLEAN,  \* approval_delegation_enabled
     durable        : BOOLEAN,  \* approval_backend is uc_table rather than memory
     durableTasks   : BOOLEAN,  \* agent_task_backend is uc_table rather than memory
     failOpen       : BOOLEAN,  \* approval_fail_open
     silentFailures : BOOLEAN,  \* a SQL statement may fail without raising
     followUp       : PolicyTask(Names, Intents),
     process        : [Calls -> Processes]]

OneProcess(s) == \A c, d \in Calls : s.process[c] = s.process[d]

ASSUME ApprovalAssumption ==
    /\ RequestOf \in [Calls -> Requests]
    /\ FormOf \in [Calls -> Form]
    /\ "" \in Texts
    /\ None \notin Texts \cup Form \cup FollowUpTask \cup Calls
    /\ Logical \in [Names -> Names]
    /\ DOMAIN Agents \subseteq Names
    /\ Agents \in [DOMAIN Agents -> AgentConfig(Names, Intents)]
    /\ \A s \in Settings :
          /\ s \in Deployment
          /\ s.silentFailures => (s.durable \/ s.durableTasks)
          /\ ~(s.durable /\ s.durableTasks) => OneProcess(s)

VARIABLES settings,    \* the deployment, which does not change
          decisions,   \* the repository: the record stored for each request id
          tasks,       \* the task bus: the follow-ups stored under each request's key
          phase,       \* where each call is
          running      \* the call that each process's event loop is executing

vars == <<settings, decisions, tasks, phase, running>>

Phase == {"new", "saving", "responding", "submitting", "inserting",
          "answered", "refused", "conflict", "raised", "lost"}

ProcessOf(c) == settings.process[c]

TypeOK ==
    /\ settings \in Settings
    /\ decisions \in [Requests -> Form \cup {None}]
    /\ tasks \in [Requests -> SUBSET FollowUpTask]
    /\ phase \in [Calls -> Phase]
    /\ running \in [Processes -> Calls \cup {None}]
    /\ \A c \in Calls : phase[c] \in {"saving", "responding"} <=> running[ProcessOf(c)] = c

Init ==
    /\ settings \in Settings
    /\ decisions = [r \in Requests |-> None]
    /\ tasks = [r \in Requests |-> {}]
    /\ phase = [c \in Calls |-> "new"]
    /\ running = [p \in Processes |-> None]

\* The status of a statement's response is not looked at by either store.
DecisionsMayBeSilent == settings.durable /\ settings.silentFailures
TasksMayBeSilent == settings.durableTasks /\ settings.silentFailures

GoTo(c, ph) == phase' = [phase EXCEPT ![c] = ph]
Yields(c) == running' = [running EXCEPT ![ProcessOf(c)] = None]

\* _parameters writes `value or ""`: an absent field comes back as "".
AsStored(form) ==
    IF settings.durable /\ form.text = None THEN [form EXCEPT !.text = ""] ELSE form

----------------------------------------------------------------------------
(* ApprovalService.submit *)

\* Mutants of Lookup: whatever is stored is answered; an equal decision is answered
\* without a look at its follow-up; nothing is looked up.
LookupAnyDecision(c) ==
    /\ phase[c] = "new" /\ running[ProcessOf(c)] = None
    /\ GoTo(c, IF decisions[RequestOf[c]] = None THEN "saving" ELSE "responding")
    /\ running' = [running EXCEPT ![ProcessOf(c)] = c]
    /\ UNCHANGED <<settings, decisions, tasks>>

LookupAnswersEqual(c) ==
    /\ phase[c] = "new" /\ running[ProcessOf(c)] = None
    /\ \/ /\ decisions[RequestOf[c]] = None
          /\ GoTo(c, "saving")
          /\ running' = [running EXCEPT ![ProcessOf(c)] = c]
       \/ /\ decisions[RequestOf[c]] = FormOf[c]
          /\ GoTo(c, "answered")
          /\ UNCHANGED running
    /\ UNCHANGED <<settings, decisions, tasks>>

LookupNothing(c) ==
    /\ phase[c] = "new" /\ running[ProcessOf(c)] = None
    /\ GoTo(c, "saving")
    /\ running' = [running EXCEPT ![ProcessOf(c)] = c]
    /\ UNCHANGED <<settings, decisions, tasks>>

\* repository.get: no decision yet, the same decision, or another one (409).
\* A SELECT that fails without raising finds nothing; one that raises ends the
\* call.
Lookup(c) ==
    LET existing == decisions[RequestOf[c]]
        goesOn(ph) == /\ GoTo(c, ph)
                      /\ running' = [running EXCEPT ![ProcessOf(c)] = c]
    IN
    /\ phase[c] = "new"
    /\ running[ProcessOf(c)] = None
    /\ \/ (existing = None \/ DecisionsMayBeSilent) /\ goesOn("saving")
       \/ existing = FormOf[c] /\ goesOn("responding")
       \/ existing \notin {None, FormOf[c]} /\ GoTo(c, "conflict") /\ UNCHANGED running
       \/ settings.durable /\ GoTo(c, "raised") /\ UNCHANGED running
    /\ UNCHANGED <<settings, decisions, tasks>>

\* repository.save: the MERGE overwrites whatever is stored by now.  It may
\* raise, which fail_open swallows, or fail without raising.
Save(c) ==
    /\ phase[c] = "saving"
    /\ \/ /\ decisions' = [decisions EXCEPT ![RequestOf[c]] = AsStored(FormOf[c])]
          /\ GoTo(c, "responding") /\ UNCHANGED running
       \/ /\ settings.durable /\ ~settings.failOpen
          /\ UNCHANGED decisions
          /\ GoTo(c, "raised") /\ Yields(c)
       \/ /\ (settings.durable /\ settings.failOpen) \/ DecisionsMayBeSilent
          /\ UNCHANGED decisions
          /\ GoTo(c, "responding") /\ UNCHANGED running
    /\ UNCHANGED <<settings, tasks>>

SubmissionAllowed ==
    Allows(settings.followUp, ResolvedAgents(settings.followUp.target, Agents, Logical))

\* A mutant of Respond: the decision is not looked at.
RespondToAll(c) ==
    /\ phase[c] = "responding"
    /\ GoTo(c, IF settings.enabled /\ SubmissionAllowed THEN "submitting" ELSE "answered")
    /\ Yields(c)
    /\ UNCHANGED <<settings, decisions, tasks>>

\* _submit_post_approval_task up to its await: nothing to submit, refused by the
\* policy (the event of which may raise), or on to the task bus.
Respond(c) ==
    LET wanted == FormOf[c].decision = "approved" /\ settings.enabled IN
    /\ phase[c] = "responding"
    /\ \/ ~wanted /\ GoTo(c, "answered")
       \/ wanted /\ ~SubmissionAllowed /\ \E ph \in {"refused", "raised"} : GoTo(c, ph)
       \/ wanted /\ SubmissionAllowed /\ GoTo(c, "submitting")
    /\ Yields(c)
    /\ UNCHANGED <<settings, decisions, tasks>>

FollowUpOf(c) == [status |-> "pending", form |-> FormOf[c]]
Stores(c) == tasks' = [tasks EXCEPT ![RequestOf[c]] = @ \cup {FollowUpOf(c)}]

\* task_bus.submit under the key of the request, and the event after it.  In memory
\* one locked method looks the key up and stores the task; on Delta they are two
\* statements, and a lookup that fails without raising finds nothing.
SubmitTask(c) ==
    LET exists == tasks[RequestOf[c]] # {}
        submitted == \E ph \in {"answered", "raised"} : GoTo(c, ph)
    IN
    /\ phase[c] = "submitting"
    /\ \/ exists /\ UNCHANGED tasks /\ submitted
       \/ ~exists /\ ~settings.durableTasks /\ Stores(c) /\ submitted
       \/ /\ settings.durableTasks /\ (~exists \/ TasksMayBeSilent)
          /\ UNCHANGED tasks /\ GoTo(c, "inserting")
    /\ UNCHANGED <<settings, decisions, running>>

\* A mutant of InsertTask: the INSERT is left to be awaited by nobody.
InsertTaskInBackground(c) ==
    /\ phase[c] = "inserting"
    /\ Stores(c) \/ UNCHANGED tasks
    /\ \E ph \in {"answered", "raised"} : GoTo(c, ph)
    /\ UNCHANGED <<settings, decisions, running>>

\* The INSERT of the Delta bus, which may not have happened: submit returns the
\* record either way.
InsertTask(c) ==
    /\ phase[c] = "inserting"
    /\ Stores(c) \/ (TasksMayBeSilent /\ UNCHANGED tasks)
    /\ \E ph \in {"answered", "raised"} : GoTo(c, ph)
    /\ UNCHANGED <<settings, decisions, running>>

\* task_bus.submit raises.
SubmitTaskFails(c) ==
    /\ phase[c] \in {"submitting", "inserting"}
    /\ GoTo(c, "raised")
    /\ UNCHANGED <<settings, decisions, tasks, running>>

----------------------------------------------------------------------------
(* The app worker and restarts *)

\* run_once on a follow-up: the policy decides over SUBAGENTS as they are, and
\* execute_post_approval_planning only returns.
WorkerRuns(r) ==
    LET status == IF Allows(settings.followUp, Agents) THEN "succeeded" ELSE "rejected" IN
    \E t \in tasks[r] :
        /\ t.status = "pending"
        /\ tasks' = [tasks EXCEPT ![r] = (@ \ {t}) \cup {[t EXCEPT !.status = status]}]
        /\ UNCHANGED <<settings, decisions, phase, running>>

InFlight(c) == phase[c] \in {"saving", "responding", "submitting", "inserting"}

\* A mutant of Restart: the task outlives the decision.
RestartKeepsTasks(p) ==
    /\ phase' = [c \in Calls |-> IF ProcessOf(c) = p /\ InFlight(c) THEN "lost" ELSE phase[c]]
    /\ running' = [running EXCEPT ![p] = None]
    /\ decisions' = IF settings.durable THEN decisions ELSE [r \in Requests |-> None]
    /\ UNCHANGED <<settings, tasks>>

\* A process dies and is started again: its calls are lost, and so is what the
\* memory backends hold.
Restart(p) ==
    /\ p \in {ProcessOf(c) : c \in Calls}
    /\ phase' = [c \in Calls |-> IF ProcessOf(c) = p /\ InFlight(c) THEN "lost" ELSE phase[c]]
    /\ running' = [running EXCEPT ![p] = None]
    /\ decisions' = IF settings.durable THEN decisions ELSE [r \in Requests |-> None]
    /\ tasks' = IF settings.durableTasks THEN tasks ELSE [r \in Requests |-> {}]
    /\ UNCHANGED settings

Call(c) == \/ Lookup(c) \/ Save(c) \/ Respond(c)
           \/ SubmitTask(c) \/ InsertTask(c) \/ SubmitTaskFails(c)

Next ==
    \/ \E c \in Calls : Call(c)
    \/ \E r \in Requests : WorkerRuns(r)
    \/ \E p \in Processes : Restart(p)

Spec == Init /\ [][Next]_vars

----------------------------------------------------------------------------
(* What the approval API promises *)

\* One process writes, every statement that returns took effect, and decisions
\* and tasks are kept alike.
Reliable ==
    /\ OneProcess(settings)
    /\ ~settings.silentFailures
    /\ settings.durable => ~settings.failOpen
    /\ settings.durable = settings.durableTasks

\* A decision in the table is not replaced by another: whoever comes second, also
\* after a crash between saving and answering, gets a conflict.
DecisionIsFinal ==
    [][Reliable /\ settings.durable =>
          \A r \in Requests : decisions[r] # None => decisions'[r] = decisions[r]]_vars

\* A planning task exists only for a request whose stored decision is an
\* approval, and it carries the fields that were stored; a restart loses both or
\* neither.
FollowUpOnlyIfApproved ==
    Reliable =>
        \A r \in Requests :
            \A t \in tasks[r] : /\ decisions[r] # None
                                /\ decisions[r].decision = "approved"
                                /\ decisions[r] = AsStored(t.form)

\* A caller that was answered, or refused by the policy, finds its decision in
\* the table.
AnsweredIsStored ==
    (Reliable /\ settings.durable) =>
        \A c \in Calls :
            phase[c] \in {"answered", "refused"} =>
                decisions[RequestOf[c]] = AsStored(FormOf[c])

\* Where tasks are durable and a statement that returns took effect, a manager whose
\* approval was answered has a follow-up task, also when another call or an earlier
\* attempt of the same call has created it, and whatever becomes of the stored
\* decision.  (tasks.py:216 does not look at the status of the INSERT: where it
\* fails without raising, the answer names a task that does not exist.)
AnsweredApprovalHasFollowUp ==
    (settings.enabled /\ settings.durableTasks /\ ~settings.silentFailures) =>
        \A c \in Calls :
            (phase[c] = "answered" /\ FormOf[c].decision = "approved")
                => tasks[RequestOf[c]] # {}

\* What a caller was answered lasts: its decision, and its follow-up.
AnswersAreKept == AnsweredIsStored /\ AnsweredApprovalHasFollowUp

\* Only an approval leads to a follow-up, whatever else is lost or overwritten:
\* a caller that approved the request, and was not sent away, stands behind it.
FollowUpHasApprover ==
    \A r \in Requests : \A t \in tasks[r] :
        \E c \in Calls : /\ RequestOf[c] = r
                         /\ FormOf[c] = t.form
                         /\ FormOf[c].decision = "approved"
                         /\ phase[c] \notin {"new", "conflict", "refused"}

\* Every planning task goes back to an approval, by a caller in every deployment
\* and by the stored decision in the reliable ones.
FollowUpIsApproved == FollowUpOnlyIfApproved /\ FollowUpHasApprover

----------------------------------------------------------------------------
(* What the documents say and the code does not do *)

\* docs/governance/human-approval.md:121: "If and only if `decision=approved`,
\* the approval API then creates" the task: no repetition of the approval that is
\* stored is sent away while there is no task.
RepeatedApprovalHasFollowUp ==
    \A c \in Calls :
        (/\ phase[c] = "conflict"
         /\ FormOf[c].decision = "approved"
         /\ decisions[RequestOf[c]] = AsStored(FormOf[c]))
            => tasks[RequestOf[c]] # {}
=============================================================================
