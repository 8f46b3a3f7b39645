--------------------------- MODULE Services_proofs ---------------------------
(***************************************************************************)
(* Two services beside the delegation: decisions and their follow-ups      *)
(* belong together, for any number of calls, requests and processes, any   *)
(* deployment and any policy; and the background event queue keeps order   *)
(* and loses nothing unrecorded, for every size and number of events.      *)
(***************************************************************************)
EXTENDS ApprovalService, AsyncMessageBus, TLAPS

----------------------------------------------------------------------------
(* ApprovalService *)

\* The event loop of a process is held by at most one call.
Serial ==
    \A c \in Calls : phase[c] \in {"saving", "responding"} => running[ProcessOf(c)] = c

Shape ==
    /\ settings \in Settings
    /\ decisions \in [Requests -> Form \cup {None}]
    /\ tasks \in [Requests -> SUBSET FollowUpTask]
    /\ phase \in [Calls -> Phase]
    /\ running \in [Processes -> Calls \cup {None}]
    /\ Serial

\* What the Delta table holds has no absent field.
TableIsFilled ==
    settings.durable => \A r \in Requests : decisions[r] # None => decisions[r].text # None

\* A call that is about to save has found nothing, and still would.
SavingFindsNone ==
    Reliable => \A c \in Calls : phase[c] = "saving" => decisions[RequestOf[c]] = None

\* A call past its save finds its decision stored; in the table it does for ever.
DecisionIsStored ==
    Reliable => \A c \in Calls :
        (\/ phase[c] \in {"responding", "submitting", "inserting"}
         \/ settings.durable /\ phase[c] \in {"answered", "refused"})
            => decisions[RequestOf[c]] = AsStored(FormOf[c])

OnlyApprovalsSubmit ==
    \A c \in Calls : phase[c] \in {"submitting", "inserting"} => FormOf[c].decision = "approved"

\* The call that created a follow-up has ended, so that no step takes back that
\* it stands behind it.
CreatorHasEnded ==
    \A r \in Requests : \A t \in tasks[r] :
        \E c \in Calls : /\ RequestOf[c] = r /\ FormOf[c] = t.form
                         /\ FormOf[c].decision = "approved"
                         /\ phase[c] \in {"answered", "raised"}

ApprovalInv ==
    /\ Shape
    /\ TableIsFilled
    /\ SavingFindsNone
    /\ DecisionIsStored
    /\ OnlyApprovalsSubmit
    /\ CreatorHasEnded
    /\ FollowUpOnlyIfApproved
    /\ AnsweredApprovalHasFollowUp

----------------------------------------------------------------------------
(* Forms, calls and processes *)

LEMMA Typed ==
    ASSUME Shape
    PROVE  /\ settings.durable \in BOOLEAN /\ settings.durableTasks \in BOOLEAN
           /\ \A c \in Calls : /\ ProcessOf(c) \in Processes
                               /\ RequestOf[c] \in Requests
                               /\ FormOf[c] \in Form
                               /\ c # None
<1>1. settings \in Deployment
  BY ApprovalAssumption DEF Shape
<1>2. settings.process \in [Calls -> Processes]
  BY <1>1 DEF Deployment
<1> QED
  BY <1>1, <1>2, ApprovalAssumption DEF Deployment, ProcessOf

LEMMA StoredForm ==
    ASSUME NEW f \in Form
    PROVE  /\ AsStored(f) \in Form /\ AsStored(f) # None
           /\ AsStored(f).decision = f.decision
           /\ settings.durable => AsStored(f).text # None
           /\ (f.text # None \/ ~settings.durable) => AsStored(f) = f
  BY ApprovalAssumption DEF AsStored, Form

\* In one process no two calls hold the event loop.
LEMMA OneAtATime ==
    ASSUME Shape, Reliable, NEW c \in Calls, NEW d \in Calls,
           phase[c] \in {"saving", "responding"}, phase[d] \in {"saving", "responding"}
    PROVE  c = d
<1>1. ProcessOf(c) = ProcessOf(d)
  BY DEF Reliable, OneProcess, ProcessOf
<1> QED
  BY <1>1 DEF Shape, Serial

LEMMA LoopIsFree ==
    ASSUME Shape, Reliable, NEW c \in Calls, running[ProcessOf(c)] = None, NEW d \in Calls
    PROVE  phase[d] \notin {"saving", "responding"}
<1>1. ProcessOf(c) = ProcessOf(d)
  BY DEF Reliable, OneProcess, ProcessOf
<1> QED
  BY <1>1, Typed DEF Shape, Serial

\* A deployment is reliable or not for good.
LEMMA SameDeployment ==
    ASSUME settings' = settings
    PROVE  /\ Reliable' <=> Reliable
           /\ \A f : AsStored(f)' = AsStored(f)
           /\ \A c : ProcessOf(c)' = ProcessOf(c)
  BY DEF Reliable, OneProcess, AsStored, ProcessOf

----------------------------------------------------------------------------
(* One lemma for each action *)

LEMMA LookupStep == ASSUME ApprovalInv, NEW c \in Calls, Lookup(c) PROVE ApprovalInv'
<1> DEFINE r == RequestOf[c]
<1>1. Shape /\ SavingFindsNone /\ DecisionIsStored /\ OnlyApprovalsSubmit
  BY DEF ApprovalInv
<1>2. /\ UNCHANGED <<settings, decisions, tasks>>
      /\ phase[c] = "new" /\ running[ProcessOf(c)] = None
      /\ phase'[c] \in {"saving", "responding", "conflict", "raised"}
      /\ phase'[c] \in Phase
      /\ \A d \in Calls \ {c} : phase'[d] = phase[d]
      /\ phase' \in [Calls -> Phase]
  BY <1>1 DEF Lookup, GoTo, Shape, Phase
<1>3. /\ phase'[c] = "saving" => (decisions[r] = None \/ settings.silentFailures)
      /\ phase'[c] = "responding" => decisions[r] = FormOf[c]
  BY <1>1 DEF Lookup, DecisionsMayBeSilent, GoTo, Shape
<1>4. \/ running' = [running EXCEPT ![ProcessOf(c)] = c]
      \/ running' = running /\ phase'[c] \in {"conflict", "raised"}
  BY <1>1 DEF Lookup, GoTo, Shape
<1>5. Shape'
  <2>1. \A d \in Calls : phase'[d] \in {"saving", "responding"} => running'[ProcessOf(d)] = d
    BY <1>1, <1>2, <1>4, Typed DEF Shape, Serial
  <2>2. running' \in [Processes -> Calls \cup {None}]
    BY <1>1, <1>4, Typed DEF Shape
  <2> QED
    BY <1>1, <1>2, <2>1, <2>2, SameDeployment DEF Shape, Serial
<1>6. TableIsFilled'
  BY <1>2 DEF ApprovalInv, TableIsFilled
<1>7. SavingFindsNone'
  BY <1>1, <1>2, <1>3, SameDeployment DEF SavingFindsNone, Reliable
<1>8. DecisionIsStored'
  <2>1. phase'[c] = "responding" => decisions[r] = AsStored(FormOf[c])
    <3> SUFFICES ASSUME phase'[c] = "responding" PROVE decisions[r] = AsStored(FormOf[c])
      OBVIOUS
    <3>1. FormOf[c] \in Form /\ FormOf[c] # None /\ r \in Requests
      BY <1>1, Typed, ApprovalAssumption
    <3>2. FormOf[c].text # None \/ ~settings.durable
      BY <1>3, <3>1 DEF ApprovalInv, TableIsFilled
    <3> QED
      BY <1>3, <3>1, <3>2, StoredForm
  <2> QED
    BY <1>1, <1>2, <2>1, SameDeployment DEF DecisionIsStored
<1>9. OnlyApprovalsSubmit'
  BY <1>1, <1>2 DEF OnlyApprovalsSubmit
<1>10. CreatorHasEnded'
  BY <1>2 DEF ApprovalInv, CreatorHasEnded
<1>11. FollowUpOnlyIfApproved'
  BY <1>2, SameDeployment DEF ApprovalInv, FollowUpOnlyIfApproved
<1>12. AnsweredApprovalHasFollowUp'
  BY <1>2 DEF ApprovalInv, AnsweredApprovalHasFollowUp
<1> QED
  BY <1>5, <1>6, <1>7, <1>8, <1>9, <1>10, <1>11, <1>12 DEF ApprovalInv

LEMMA SaveStep == ASSUME ApprovalInv, NEW c \in Calls, Save(c) PROVE ApprovalInv'
<1> DEFINE r == RequestOf[c]
<1>1. Shape /\ SavingFindsNone /\ DecisionIsStored /\ OnlyApprovalsSubmit
  BY DEF ApprovalInv
<1>2. /\ UNCHANGED <<settings, tasks>>
      /\ phase[c] = "saving"
      /\ phase'[c] \in {"responding", "raised"}
      /\ \A d \in Calls \ {c} : phase'[d] = phase[d]
      /\ phase' \in [Calls -> Phase]
  BY <1>1 DEF Save, GoTo, Shape, Phase
<1>3. /\ FormOf[c] \in Form /\ FormOf[c] # None /\ r \in Requests
      /\ AsStored(FormOf[c]) \in Form /\ AsStored(FormOf[c]) # None
      /\ settings.durable => AsStored(FormOf[c]).text # None
  BY <1>1, Typed, StoredForm, ApprovalAssumption
<1>4. \/ /\ decisions' = [decisions EXCEPT ![r] = AsStored(FormOf[c])]
         /\ phase'[c] = "responding"
      \/ decisions' = decisions /\ (Reliable => phase'[c] = "raised")
  BY <1>1, Typed DEF Save, GoTo, Shape, Reliable, DecisionsMayBeSilent
<1>5. \/ running' = running
      \/ phase'[c] = "raised" /\ running' = [running EXCEPT ![ProcessOf(c)] = None]
  BY <1>1 DEF Save, GoTo, Yields, Shape
<1>6. Reliable => /\ decisions[r] = None /\ tasks[r] = {}
                  /\ \A d \in Calls \ {c} : phase[d] \notin {"saving", "responding"}
  <2> SUFFICES ASSUME Reliable
               PROVE  /\ decisions[r] = None /\ tasks[r] = {}
                      /\ \A d \in Calls \ {c} : phase[d] \notin {"saving", "responding"}
    OBVIOUS
  <2>1. decisions[r] = None
    BY <1>1, <1>2 DEF SavingFindsNone
  <2>2. tasks[r] = {}
    BY <1>3, <2>1 DEF ApprovalInv, FollowUpOnlyIfApproved
  <2>3. \A d \in Calls \ {c} : phase[d] \notin {"saving", "responding"}
    BY <1>1, <1>2, OneAtATime
  <2> QED
    BY <2>1, <2>2, <2>3
<1>7. Shape'
  <2>1. \A d \in Calls : phase'[d] \in {"saving", "responding"} => running'[ProcessOf(d)] = d
    <3> SUFFICES ASSUME NEW d \in Calls, phase'[d] \in {"saving", "responding"}
                 PROVE  running'[ProcessOf(d)] = d
      OBVIOUS
    <3>1. running[ProcessOf(d)] = d /\ running[ProcessOf(c)] = c
      BY <1>1, <1>2 DEF Shape, Serial
    <3>2. CASE d = c
      BY <1>5, <3>1, <3>2
    <3>3. CASE d # c
      BY <1>1, <1>5, <3>1, <3>3, Typed DEF Shape
    <3> QED
      BY <3>2, <3>3
  <2>2. running' \in [Processes -> Calls \cup {None}]
    BY <1>1, <1>5 DEF Shape
  <2>3. decisions' \in [Requests -> Form \cup {None}]
    BY <1>1, <1>3, <1>4 DEF Shape
  <2> QED
    BY <1>1, <1>2, <2>1, <2>2, <2>3, SameDeployment DEF Shape, Serial
<1>8. TableIsFilled'
  BY <1>1, <1>2, <1>3, <1>4 DEF ApprovalInv, TableIsFilled, Shape
<1>9. SavingFindsNone'
  BY <1>2, <1>6, SameDeployment DEF SavingFindsNone
<1>10. DecisionIsStored'
  <2> SUFFICES ASSUME Reliable, NEW d \in Calls,
                      \/ phase'[d] \in {"responding", "submitting", "inserting"}
                      \/ settings.durable /\ phase'[d] \in {"answered", "refused"}
               PROVE  decisions'[RequestOf[d]] = AsStored(FormOf[d])
    BY <1>2, SameDeployment DEF DecisionIsStored
  <2>1. CASE d = c
    BY <1>1, <1>2, <1>3, <1>4, <2>1 DEF Shape
  <2>2. CASE d # c
    <3>1. decisions[RequestOf[d]] = AsStored(FormOf[d])
      BY <1>1, <1>2, <2>2 DEF DecisionIsStored
    <3>2. decisions[RequestOf[d]] # None
      BY <1>1, <3>1, Typed, StoredForm
    <3>3. RequestOf[d] # r
      BY <1>6, <3>2
    <3> QED
      BY <1>1, <1>4, <3>1, <3>3, Typed DEF Shape
  <2> QED
    BY <2>1, <2>2
<1>11. OnlyApprovalsSubmit'
  BY <1>1, <1>2 DEF OnlyApprovalsSubmit
<1>12. CreatorHasEnded'
  BY <1>2 DEF ApprovalInv, CreatorHasEnded
<1>13. FollowUpOnlyIfApproved'
  <2>1. ASSUME Reliable, NEW q \in Requests, tasks[q] # {}
        PROVE  decisions'[q] = decisions[q]
    BY <1>1, <1>4, <1>6, <2>1 DEF Shape
  <2> QED
    BY <1>2, <2>1, SameDeployment DEF ApprovalInv, FollowUpOnlyIfApproved
<1>14. AnsweredApprovalHasFollowUp'
  BY <1>2 DEF ApprovalInv, AnsweredApprovalHasFollowUp
<1> QED
  BY <1>7, <1>8, <1>9, <1>10, <1>11, <1>12, <1>13, <1>14 DEF ApprovalInv

LEMMA RespondStep == ASSUME ApprovalInv, NEW c \in Calls, Respond(c) PROVE ApprovalInv'
<1>1. Shape /\ SavingFindsNone /\ DecisionIsStored /\ OnlyApprovalsSubmit
  BY DEF ApprovalInv
<1>2. /\ UNCHANGED <<settings, decisions, tasks>>
      /\ phase[c] = "responding"
      /\ phase'[c] \in {"answered", "refused", "raised", "submitting"}
      /\ \A d \in Calls \ {c} : phase'[d] = phase[d]
      /\ phase' \in [Calls -> Phase]
      /\ running' = [running EXCEPT ![ProcessOf(c)] = None]
  BY <1>1 DEF Respond, GoTo, Yields, Shape, Phase
<1>3. /\ phase'[c] = "submitting" => FormOf[c].decision = "approved"
      /\ phase'[c] = "answered" => ~(FormOf[c].decision = "approved" /\ settings.enabled)
  BY <1>1 DEF Respond, GoTo, Shape
<1>4. Shape'
  <2>1. \A d \in Calls : phase'[d] \in {"saving", "responding"} => running'[ProcessOf(d)] = d
    <3> SUFFICES ASSUME NEW d \in Calls, phase'[d] \in {"saving", "responding"}
                 PROVE  running'[ProcessOf(d)] = d
      OBVIOUS
    <3>1. d # c /\ running[ProcessOf(d)] = d /\ running[ProcessOf(c)] = c
      BY <1>1, <1>2 DEF Shape, Serial
    <3> QED
      BY <1>1, <1>2, <3>1, Typed DEF Shape
  <2> QED
    BY <1>1, <1>2, <2>1, SameDeployment DEF Shape, Serial
<1>5. TableIsFilled'
  BY <1>2 DEF ApprovalInv, TableIsFilled
<1>6. SavingFindsNone'
  BY <1>1, <1>2, SameDeployment DEF SavingFindsNone
<1>7. DecisionIsStored'
  BY <1>1, <1>2, SameDeployment DEF DecisionIsStored
<1>8. OnlyApprovalsSubmit'
  BY <1>1, <1>2, <1>3 DEF OnlyApprovalsSubmit
<1>9. CreatorHasEnded'
  BY <1>2 DEF ApprovalInv, CreatorHasEnded
<1>10. FollowUpOnlyIfApproved'
  BY <1>2, SameDeployment DEF ApprovalInv, FollowUpOnlyIfApproved
<1>11. AnsweredApprovalHasFollowUp'
  BY <1>2, <1>3 DEF ApprovalInv, AnsweredApprovalHasFollowUp
<1> QED
  BY <1>4, <1>5, <1>6, <1>7, <1>8, <1>9, <1>10, <1>11 DEF ApprovalInv

LEMMA SubmitStep ==
    ASSUME ApprovalInv, NEW c \in Calls,
           SubmitTask(c) \/ InsertTask(c) \/ SubmitTaskFails(c)
    PROVE  ApprovalInv'
<1> DEFINE r == RequestOf[c]
           new == FollowUpOf(c)
<1>1. Shape /\ SavingFindsNone /\ DecisionIsStored /\ OnlyApprovalsSubmit
  BY DEF ApprovalInv
<1>2. /\ UNCHANGED <<settings, decisions, running>>
      /\ phase[c] \in {"submitting", "inserting"}
      /\ phase'[c] \in {"answered", "raised", "inserting"}
      /\ \A d \in Calls \ {c} : phase'[d] = phase[d]
      /\ phase' \in [Calls -> Phase]
  BY <1>1 DEF SubmitTask, InsertTask, SubmitTaskFails, GoTo, Shape, Phase
<1>3. /\ r \in Requests /\ FormOf[c] \in Form /\ FormOf[c] # None
      /\ FormOf[c].decision = "approved"
      /\ new \in FollowUpTask
      /\ new.form = FormOf[c]
  <2>1. r \in Requests /\ FormOf[c] \in Form /\ FormOf[c] # None
    BY <1>1, Typed, ApprovalAssumption
  <2>2. FormOf[c].decision = "approved"
    BY <1>1, <1>2 DEF OnlyApprovalsSubmit
  <2>3. new \in FollowUpTask /\ new.form = FormOf[c]
    BY <2>1 DEF FollowUpTask, TaskStatus, FollowUpOf
  <2> QED
    BY <2>1, <2>2, <2>3
<1>4. /\ \/ tasks' = [tasks EXCEPT ![r] = @ \cup {new}] /\ phase'[c] # "inserting"
         \/ tasks' = tasks
      /\ (phase'[c] = "answered" /\ settings.durableTasks /\ ~settings.silentFailures)
            => tasks' = [tasks EXCEPT ![r] = @ \cup {new}] \/ tasks[r] # {}
  BY <1>1 DEF SubmitTask, InsertTask, SubmitTaskFails, Stores, TasksMayBeSilent, GoTo, Shape
<1> HIDE DEF new
<1>5. /\ \A q \in Requests : tasks[q] \subseteq tasks'[q]
      /\ \A q \in Requests : \A t \in tasks'[q] :
            t \in tasks[q] \/ (q = r /\ t = new /\ phase'[c] # "inserting")
      /\ tasks' \in [Requests -> SUBSET FollowUpTask]
  BY <1>1, <1>3, <1>4 DEF Shape
<1>6. Shape'
  BY <1>1, <1>2, <1>5, SameDeployment DEF Shape, Serial
<1>7. TableIsFilled'
  BY <1>2 DEF ApprovalInv, TableIsFilled
<1>8. SavingFindsNone'
  BY <1>1, <1>2, SameDeployment DEF SavingFindsNone
<1>9. DecisionIsStored'
  BY <1>1, <1>2, SameDeployment DEF DecisionIsStored
<1>10. OnlyApprovalsSubmit'
  BY <1>1, <1>2 DEF OnlyApprovalsSubmit
<1>11. CreatorHasEnded'
  <2> SUFFICES ASSUME NEW q \in Requests, NEW t \in tasks'[q]
               PROVE  \E d \in Calls : /\ RequestOf[d] = q /\ FormOf[d] = t.form
                                       /\ FormOf[d].decision = "approved"
                                       /\ phase'[d] \in {"answered", "raised"}
    BY DEF CreatorHasEnded
  <2>1. CASE t \in tasks[q]
    <3>1. PICK d \in Calls : /\ RequestOf[d] = q /\ FormOf[d] = t.form
                             /\ FormOf[d].decision = "approved"
                             /\ phase[d] \in {"answered", "raised"}
      BY <2>1 DEF ApprovalInv, CreatorHasEnded
    <3> QED
      BY <1>2, <3>1
  <2>2. CASE q = r /\ t = new /\ phase'[c] # "inserting"
    BY <1>2, <1>3, <2>2
  <2> QED
    BY <1>5, <2>1, <2>2
<1>12. FollowUpOnlyIfApproved'
  <2> SUFFICES ASSUME Reliable, NEW q \in Requests, NEW t \in tasks'[q]
               PROVE  /\ decisions[q] # None /\ decisions[q].decision = "approved"
                      /\ decisions[q] = AsStored(t.form)
    BY <1>2, SameDeployment DEF FollowUpOnlyIfApproved
  <2>1. CASE t \in tasks[q]
    BY <2>1 DEF ApprovalInv, FollowUpOnlyIfApproved
  <2>2. CASE q = r /\ t = new
    <3>1. decisions[q] = AsStored(FormOf[c])
      BY <1>1, <1>2, <2>2 DEF DecisionIsStored
    <3> QED
      BY <1>3, <2>2, <3>1, StoredForm
  <2> QED
    BY <1>5, <2>1, <2>2
<1>13. AnsweredApprovalHasFollowUp'
  <2> SUFFICES ASSUME settings.enabled, settings.durableTasks, ~settings.silentFailures,
                      NEW d \in Calls, phase'[d] = "answered", FormOf[d].decision = "approved"
               PROVE  tasks'[RequestOf[d]] # {}
    BY <1>2 DEF AnsweredApprovalHasFollowUp
  <2>1. CASE d = c
    BY <1>1, <1>3, <1>4, <2>1 DEF Shape
  <2>2. CASE d # c
    <3>1. tasks[RequestOf[d]] # {}
      BY <1>2, <2>2 DEF ApprovalInv, AnsweredApprovalHasFollowUp
    <3> QED
      BY <1>1, <1>5, <3>1, Typed
  <2> QED
    BY <2>1, <2>2
<1> QED
  BY <1>6, <1>7, <1>8, <1>9, <1>10, <1>11, <1>12, <1>13 DEF ApprovalInv

LEMMA WorkerRunsStep == ASSUME ApprovalInv, NEW r \in Requests, WorkerRuns(r) PROVE ApprovalInv'
<1>1. PICK t \in tasks[r], st \in TaskStatus :
        /\ UNCHANGED <<settings, decisions, phase, running>>
        /\ tasks' = [tasks EXCEPT ![r] = (@ \ {t}) \cup {[t EXCEPT !.status = st]}]
  BY DEF WorkerRuns, TaskStatus
<1>2. Shape
  BY DEF ApprovalInv
<1>3. /\ tasks' \in [Requests -> SUBSET FollowUpTask]
      /\ \A q \in Requests : /\ tasks[q] # {} => tasks'[q] # {}
                             /\ \A u \in tasks'[q] : \E v \in tasks[q] : v.form = u.form
  <2> DEFINE run == [t EXCEPT !.status = st]
  <2>1. run \in FollowUpTask /\ run.form = t.form
    BY <1>1, <1>2 DEF Shape, FollowUpTask
  <2> HIDE DEF run
  <2>2. \A q \in Requests :
          tasks'[q] = IF q = r THEN (tasks[r] \ {t}) \cup {run} ELSE tasks[q]
    BY <1>1, <1>2 DEF Shape, run
  <2>3. tasks' \in [Requests -> SUBSET FollowUpTask]
    BY <1>1, <1>2, <2>1 DEF Shape, run
  <2> QED
    BY <1>1, <2>1, <2>2, <2>3
<1>4. Shape'
  BY <1>1, <1>2, <1>3, SameDeployment DEF Shape, Serial
<1>5. TableIsFilled' /\ SavingFindsNone' /\ DecisionIsStored' /\ OnlyApprovalsSubmit'
  BY <1>1, SameDeployment
     DEF ApprovalInv, TableIsFilled, SavingFindsNone, DecisionIsStored, OnlyApprovalsSubmit
<1>6. CreatorHasEnded'
  BY <1>1, <1>3 DEF ApprovalInv, CreatorHasEnded
<1>7. FollowUpOnlyIfApproved'
  BY <1>1, <1>3, SameDeployment DEF ApprovalInv, FollowUpOnlyIfApproved
<1>8. AnsweredApprovalHasFollowUp'
  BY <1>1, <1>2, <1>3, Typed DEF ApprovalInv, AnsweredApprovalHasFollowUp
<1> QED
  BY <1>4, <1>5, <1>6, <1>7, <1>8 DEF ApprovalInv

LEMMA RestartStep == ASSUME ApprovalInv, NEW p \in Processes, Restart(p) PROVE ApprovalInv'
<1>1. Shape /\ SavingFindsNone /\ DecisionIsStored /\ OnlyApprovalsSubmit
  BY DEF ApprovalInv
<1>2. /\ settings' = settings
      /\ running' = [running EXCEPT ![p] = None]
      /\ decisions' = IF settings.durable THEN decisions ELSE [r \in Requests |-> None]
      /\ tasks' = IF settings.durableTasks THEN tasks ELSE [r \in Requests |-> {}]
      /\ \A d \in Calls :
            phase'[d] = IF ProcessOf(d) = p /\ InFlight(d) THEN "lost" ELSE phase[d]
      /\ phase' \in [Calls -> Phase]
  BY <1>1 DEF Restart, Shape, Phase
<1>3. \A d \in Calls : /\ phase'[d] = phase[d] \/ phase'[d] = "lost"
                       /\ ProcessOf(d) = p =>
                             phase'[d] \notin {"saving", "responding", "submitting",
                                               "inserting"}
                       /\ phase[d] \in {"answered", "raised", "refused"} => phase'[d] = phase[d]
  BY <1>2 DEF InFlight
<1>4. Reliable => \A d \in Calls :
        phase'[d] \notin {"saving", "responding", "submitting", "inserting"}
  <2> SUFFICES ASSUME Reliable, NEW d \in Calls PROVE ProcessOf(d) = p
    BY <1>3
  <2>1. PICK e \in Calls : p = ProcessOf(e)
    BY DEF Restart
  <2> QED
    BY <2>1 DEF Reliable, OneProcess, ProcessOf
<1>5. Shape'
  <2>1. \A d \in Calls : phase'[d] \in {"saving", "responding"} => running'[ProcessOf(d)] = d
    BY <1>1, <1>2, <1>3, Typed DEF Shape, Serial
  <2>2. /\ running' \in [Processes -> Calls \cup {None}]
        /\ decisions' \in [Requests -> Form \cup {None}]
        /\ tasks' \in [Requests -> SUBSET FollowUpTask]
    BY <1>1, <1>2 DEF Shape
  <2> QED
    BY <1>1, <1>2, <2>1, <2>2, SameDeployment DEF Shape, Serial
<1>6. TableIsFilled'
  BY <1>2 DEF ApprovalInv, TableIsFilled
<1>7. SavingFindsNone'
  BY <1>2, <1>4, SameDeployment DEF SavingFindsNone
<1>8. DecisionIsStored'
  <2> SUFFICES ASSUME Reliable, NEW d \in Calls, settings.durable,
                      phase'[d] \in {"answered", "refused"}
               PROVE  decisions'[RequestOf[d]] = AsStored(FormOf[d])
    BY <1>2, <1>4, SameDeployment DEF DecisionIsStored
  <2>1. phase[d] \in {"answered", "refused"}
    BY <1>3
  <2> QED
    BY <1>1, <1>2, <2>1 DEF DecisionIsStored
<1>9. OnlyApprovalsSubmit'
  BY <1>1, <1>3 DEF OnlyApprovalsSubmit
<1>10. CreatorHasEnded'
  <2> SUFFICES ASSUME NEW q \in Requests, NEW t \in tasks'[q]
               PROVE  \E d \in Calls : /\ RequestOf[d] = q /\ FormOf[d] = t.form
                                       /\ FormOf[d].decision = "approved"
                                       /\ phase'[d] \in {"answered", "raised"}
    BY DEF CreatorHasEnded
  <2>1. t \in tasks[q]
    BY <1>2
  <2> QED
    BY <1>3, <2>1 DEF ApprovalInv, CreatorHasEnded
<1>11. FollowUpOnlyIfApproved'
  <2> SUFFICES ASSUME Reliable, NEW q \in Requests, NEW t \in tasks'[q]
               PROVE  /\ decisions'[q] # None /\ decisions'[q].decision = "approved"
                      /\ decisions'[q] = AsStored(t.form)
    BY <1>2, SameDeployment DEF FollowUpOnlyIfApproved
  <2>1. tasks' = tasks /\ settings.durableTasks
    BY <1>2
  <2>2. settings.durable
    BY <2>1 DEF Reliable
  <2> QED
    BY <1>2, <2>1, <2>2 DEF ApprovalInv, FollowUpOnlyIfApproved
<1>12. AnsweredApprovalHasFollowUp'
  BY <1>2, <1>3 DEF ApprovalInv, AnsweredApprovalHasFollowUp
<1> QED
  BY <1>5, <1>6, <1>7, <1>8, <1>9, <1>10, <1>11, <1>12 DEF ApprovalInv

----------------------------------------------------------------------------
(* The invariant and what follows *)

LEMMA ApprovalInvInitially == Init => ApprovalInv
<1> SUFFICES ASSUME Init PROVE ApprovalInv
  OBVIOUS
<1>1. Shape
  BY DEF Init, Shape, Serial, Phase
<1>2. TableIsFilled /\ SavingFindsNone /\ DecisionIsStored /\ OnlyApprovalsSubmit
  BY DEF Init, TableIsFilled, SavingFindsNone, DecisionIsStored, OnlyApprovalsSubmit
<1>3. CreatorHasEnded /\ FollowUpOnlyIfApproved /\ AnsweredApprovalHasFollowUp
  BY DEF Init, CreatorHasEnded, FollowUpOnlyIfApproved, AnsweredApprovalHasFollowUp
<1> QED
  BY <1>1, <1>2, <1>3 DEF ApprovalInv

LEMMA ApprovalInvPreserved == ApprovalInv /\ [Next]_vars => ApprovalInv'
<1> SUFFICES ASSUME ApprovalInv, [Next]_vars PROVE ApprovalInv'
  OBVIOUS
<1>1. CASE \E c \in Calls : Lookup(c)
  BY <1>1, LookupStep
<1>2. CASE \E c \in Calls : Save(c)
  BY <1>2, SaveStep
<1>3. CASE \E c \in Calls : Respond(c)
  BY <1>3, RespondStep
<1>4. CASE \E c \in Calls : SubmitTask(c) \/ InsertTask(c) \/ SubmitTaskFails(c)
  BY <1>4, SubmitStep
<1>5. CASE \E r \in Requests : WorkerRuns(r)
  BY <1>5, WorkerRunsStep
<1>6. CASE \E p \in Processes : Restart(p)
  BY <1>6, RestartStep
<1>7. CASE UNCHANGED vars
  BY <1>7, SameDeployment
     DEF vars, ApprovalInv, Shape, Serial, TableIsFilled, SavingFindsNone,
         DecisionIsStored, OnlyApprovalsSubmit, CreatorHasEnded, FollowUpOnlyIfApproved,
         AnsweredApprovalHasFollowUp
<1> QED
  BY <1>1, <1>2, <1>3, <1>4, <1>5, <1>6, <1>7 DEF Next, Call

LEMMA ApprovalInvHolds == Spec => []ApprovalInv
  BY ApprovalInvInitially, ApprovalInvPreserved, PTL DEF Spec

\* A follow-up goes back to an approval: by its caller in every deployment, by the
\* stored decision in the reliable ones (service.py: submit and
\* _submit_post_approval_task).
THEOREM FollowUpsAreApproved == Spec => []FollowUpIsApproved
<1>1. ApprovalInv => FollowUpIsApproved
  BY DEF ApprovalInv, FollowUpIsApproved, CreatorHasEnded, FollowUpHasApprover
<1> QED
  BY <1>1, ApprovalInvHolds, PTL

\* What a manager was answered lasts: the decision in the table of a reliable
\* deployment, and the follow-up of an approval wherever tasks are durable and no
\* statement fails unnoticed, by whatever calls, processes and restarts.
THEOREM AnswersLast == Spec => []AnswersAreKept
<1>1. ApprovalInv => AnswersAreKept
  BY DEF ApprovalInv, AnswersAreKept, DecisionIsStored, AnsweredIsStored
<1> QED
  BY <1>1, ApprovalInvHolds, PTL

\* A stored decision is not replaced, by no order of calls, repetitions, failing
\* statements and restarts, in a reliable deployment that keeps decisions in Delta.
THEOREM DecisionsAreFinal == Spec => DecisionIsFinal
<1>1. ApprovalInv /\ [Next]_vars =>
        [Reliable /\ settings.durable =>
            \A r \in Requests : decisions[r] # None => decisions'[r] = decisions[r]]_vars
  <2> SUFFICES ASSUME ApprovalInv, Next, Reliable, settings.durable,
                      NEW r \in Requests, decisions[r] # None
               PROVE  decisions'[r] = decisions[r]
    OBVIOUS
  <2>1. CASE UNCHANGED decisions
    BY <2>1
  <2>2. ASSUME NEW c \in Calls, Save(c)
        PROVE  decisions'[r] = decisions[r]
    <3>1. decisions[RequestOf[c]] = None
      BY <2>2 DEF ApprovalInv, SavingFindsNone, Save
    <3> QED
      BY <2>2, <3>1 DEF ApprovalInv, Shape, Save
  <2>3. ASSUME NEW p \in Processes, Restart(p)
        PROVE  decisions'[r] = decisions[r]
    BY <2>3 DEF Restart
  <2> QED
    BY <2>1, <2>2, <2>3
       DEF Next, Call, Lookup, Respond, SubmitTask, InsertTask, SubmitTaskFails,
           WorkerRuns
<1> QED
  BY <1>1, ApprovalInvHolds, PTL DEF Spec, DecisionIsFinal

----------------------------------------------------------------------------
(* AsyncMessageBus *)

Entry == Event \cup {Sentinel}

QueueShape ==
    /\ queue \in Seq(Entry) /\ delivered \in Seq(Event)
    /\ published \in 0 .. MaxEvents /\ closedAt \in 0 .. published
    /\ item \in 0 .. published
    /\ (item # 0) <=> (worker = "publishing")

\* The events in the queue are in order and came after the one in hand and after
\* those that were delivered; no event is ahead of the publish() calls.
Ordered ==
    /\ \A i, j \in 1 .. Len(queue) :
          (i < j /\ queue[i] # Sentinel /\ queue[j] # Sentinel) => queue[i] < queue[j]
    /\ \A j \in 1 .. Len(queue) : queue[j] # Sentinel =>
          /\ queue[j] <= published
          /\ item < queue[j]
          /\ \A i \in 1 .. Len(delivered) : delivered[i] < queue[j]
    /\ \A i \in 1 .. Len(delivered) :
          /\ delivered[i] <= published
          /\ item # 0 => delivered[i] < item
    /\ DeliveredInOrder

\* What follows the sentinel was published after close() began; there is none
\* before close() puts it.
SentinelLast ==
    /\ \A i, j \in 1 .. Len(queue) :
          (i < j /\ queue[i] = Sentinel /\ queue[j] # Sentinel) => closedAt < queue[j]
    /\ worker = "sawSentinel" =>
          \A j \in 1 .. Len(queue) : queue[j] # Sentinel => closedAt < queue[j]
    /\ closer \in {"open", "putting"} =>
          /\ worker # "sawSentinel"
          /\ \A i \in 1 .. Len(queue) : queue[i] # Sentinel

QueueInv == QueueShape /\ Ordered /\ SentinelLast /\ EventsAccountedFor

\* What put and get do to the entries of the queue.
LEMMA PutEntry ==
    ASSUME NEW S, NEW s \in Seq(S), NEW e \in S
    PROVE  /\ Append(s, e) \in Seq(S) /\ Len(Append(s, e)) = Len(s) + 1
           /\ Append(s, e)[Len(s) + 1] = e
           /\ \A i \in 1 .. Len(s) : Append(s, e)[i] = s[i]
  OBVIOUS

LEMMA GetEntry ==
    ASSUME NEW S, NEW s \in Seq(S), s # << >>
    PROVE  /\ Tail(s) \in Seq(S) /\ Len(Tail(s)) = Len(s) - 1 /\ Len(s) \in Nat \ {0}
           /\ Head(s) = s[1] /\ Head(s) \in S
           /\ \A i \in 1 .. Len(s) - 1 : Tail(s)[i] = s[i + 1]
  OBVIOUS

LEMMA SentinelIsNoEvent == Sentinel \notin Event /\ Sentinel \notin Nat /\ Event \subseteq Nat
  BY QueueAssumption DEF Event

\* The numbers a typed state is made of.
LEMMA Numbers ==
    ASSUME QueueShape
    PROVE  /\ published \in Nat /\ closedAt \in Nat /\ item \in Nat
           /\ closedAt <= published /\ item <= published
           /\ Len(queue) \in Nat /\ Len(delivered) \in Nat
           /\ \A i \in 1 .. Len(queue) : queue[i] # Sentinel => queue[i] \in Nat
           /\ \A i \in 1 .. Len(delivered) : delivered[i] \in Nat
<1>1. \A i \in 1 .. Len(queue) : queue[i] \in Entry
  BY DEF QueueShape
<1>2. \A i \in 1 .. Len(delivered) : delivered[i] \in Event
  BY DEF QueueShape
<1>3. published \in Nat
  BY QueueAssumption DEF QueueShape
<1>4. closedAt \in Nat /\ item \in Nat /\ closedAt <= published /\ item <= published
  BY <1>3 DEF QueueShape
<1>5. Len(queue) \in Nat /\ Len(delivered) \in Nat
  BY DEF QueueShape
<1>6. \A i \in 1 .. Len(queue) : queue[i] # Sentinel => queue[i] \in Nat
  BY <1>1, SentinelIsNoEvent DEF Entry
<1>7. \A i \in 1 .. Len(delivered) : delivered[i] \in Nat
  BY <1>2, SentinelIsNoEvent
<1> QED
  BY <1>3, <1>4, <1>5, <1>6, <1>7

\* A step that only adds to dropped, or only moves the publisher, the worker's
\* waiting or close().
LEMMA PublishStep == ASSUME QueueInv, Publish PROVE QueueInv'
<1> DEFINE n == published + 1
<1>1. n \in Event /\ published' = n /\ n # Sentinel /\ n \in Nat
  BY QueueAssumption DEF Publish, QueueInv, QueueShape, Event
<1>2. UNCHANGED <<worker, item, delivered, failed, stopped, closer, closedAt>>
  BY DEF Publish, workerVars, closeVars
<1>3. QueueShape /\ Ordered /\ SentinelLast /\ EventsAccountedFor
  BY DEF QueueInv
<1>n. n = published + 1
  OBVIOUS
<1>m. n \in 0 .. MaxEvents
  BY <1>1 DEF Event
<1> HIDE DEF n
<1>4. CASE Full
  <2>1. queue' = queue /\ dropped' = dropped \cup {n}
    BY <1>4, <1>n DEF Publish
  <2>2. QueueShape'
    BY <1>1, <1>2, <1>3, <1>n, <1>m, <2>1, Numbers DEF QueueShape
  <2>3. Ordered'
    BY <1>1, <1>2, <1>3, <1>n, <2>1, Numbers DEF Ordered, DeliveredInOrder
  <2>4. SentinelLast'
    BY <1>2, <1>3, <2>1 DEF SentinelLast
  <2>5. EventsAccountedFor'
    <3>1. \A m \in 1 .. published' : m \in 1 .. published \/ m = n
      BY <1>1, <1>3, <1>n, Numbers
    <3>2. ASSUME NEW m \in 1 .. published
          PROVE  m \in dropped' \/ m \in failed' \/ m = item' \/ InQueue(m)' \/ IsDelivered(m)'
      BY <1>2, <1>3, <2>1 DEF EventsAccountedFor, InQueue, IsDelivered
    <3> QED
      BY <2>1, <3>1, <3>2 DEF EventsAccountedFor
  <2> QED
    BY <2>2, <2>3, <2>4, <2>5 DEF QueueInv
<1>5. CASE ~Full
  <2> DEFINE len == Len(queue)
  <2>1. queue' = Append(queue, n) /\ dropped' = dropped
    BY <1>5, <1>n DEF Publish
  <2>2. /\ queue' \in Seq(Entry) /\ Len(queue') = len + 1 /\ queue'[len + 1] = n
        /\ \A i \in 1 .. len : queue'[i] = queue[i]
        /\ len \in Nat
    BY <1>1, <1>3, <2>1, PutEntry DEF QueueShape, Entry
  <2>3. \A j \in 1 .. Len(queue') : j \in 1 .. len \/ j = len + 1
    BY <2>2
  <2> HIDE DEF len
  <2>l. len = Len(queue)
    BY DEF len
  <2>4. QueueShape'
    BY <1>1, <1>2, <1>3, <1>n, <1>m, <2>2, Numbers DEF QueueShape
  <2>5. \A i, j \in 1 .. Len(queue') :
          (i < j /\ queue'[i] # Sentinel /\ queue'[j] # Sentinel) => queue'[i] < queue'[j]
    <3> SUFFICES ASSUME NEW i \in 1 .. Len(queue'), NEW j \in 1 .. Len(queue'), i < j,
                        queue'[i] # Sentinel, queue'[j] # Sentinel
                 PROVE  queue'[i] < queue'[j]
      OBVIOUS
    <3>1. i \in 1 .. len /\ queue'[i] = queue[i]
      BY <2>2, <2>3
    <3>2. CASE j \in 1 .. len
      BY <1>3, <2>2, <2>l, <3>1, <3>2 DEF Ordered
    <3>3. CASE j = len + 1
      BY <1>3, <1>n, <2>2, <2>l, <3>1, <3>3, Numbers DEF Ordered
    <3> QED
      BY <2>3, <3>2, <3>3
  <2>6. ASSUME NEW j \in 1 .. Len(queue'), queue'[j] # Sentinel
        PROVE  /\ queue'[j] <= n /\ item < queue'[j]
               /\ \A i \in 1 .. Len(delivered) : delivered[i] < queue'[j]
    <3>1. CASE j \in 1 .. len
      BY <1>3, <1>n, <2>2, <2>6, <2>l, <3>1, Numbers DEF Ordered
    <3>2. CASE j = len + 1
      BY <1>3, <1>n, <2>2, <3>2, Numbers DEF Ordered
    <3> QED
      BY <2>3, <3>1, <3>2
  <2>7. Ordered'
    BY <1>1, <1>2, <1>3, <1>n, <2>5, <2>6, Numbers DEF Ordered, DeliveredInOrder
  <2>8. SentinelLast'
    <3>1. closedAt < n
      BY <1>3, <1>n, Numbers
    <3> QED
      BY <1>1, <1>2, <1>3, <2>2, <2>3, <2>l, <3>1 DEF SentinelLast
  <2>9. EventsAccountedFor'
    <3> SUFFICES ASSUME NEW m \in 1 .. n
                 PROVE  \/ m \in dropped' \/ m \in failed' \/ m = item'
                        \/ (\E i \in 1 .. Len(queue') : queue'[i] = m)
                        \/ (\E i \in 1 .. Len(delivered') : delivered'[i] = m)
      BY <1>1 DEF EventsAccountedFor, InQueue, IsDelivered
    <3>1. CASE m = n
      <4>1. len + 1 \in 1 .. Len(queue') /\ queue'[len + 1] = m
        BY <2>2, <3>1
      <4> QED
        BY <4>1
    <3>2. CASE m \in 1 .. published
      <4>1. CASE \E i \in 1 .. Len(queue) : queue[i] = m
        <5>1. \A i \in 1 .. Len(queue) : i \in 1 .. Len(queue') /\ queue'[i] = queue[i]
          BY <2>2, <2>l
        <5> QED
          BY <4>1, <5>1
      <4>2. CASE ~\E i \in 1 .. Len(queue) : queue[i] = m
        BY <1>2, <1>3, <2>1, <3>2, <4>2 DEF EventsAccountedFor, InQueue, IsDelivered
      <4> QED
        BY <4>1, <4>2
    <3>3. m \in 1 .. published \/ m = n
      BY <1>3, <1>n, Numbers
    <3> QED
      BY <3>1, <3>2, <3>3
  <2> QED
    BY <2>4, <2>7, <2>8, <2>9 DEF QueueInv
<1> QED
  BY <1>4, <1>5

LEMMA WorkerGetsStep == ASSUME QueueInv, WorkerGets PROVE QueueInv'
<1> DEFINE e == Head(queue)
           len == Len(queue) - 1
<1>1. QueueShape /\ Ordered /\ SentinelLast /\ EventsAccountedFor
  BY DEF QueueInv
<1>2. /\ queue' \in Seq(Entry) /\ Len(queue') = len /\ len \in Nat
      /\ e = queue[1] /\ e \in Entry
      /\ \A i \in 1 .. len : queue'[i] = queue[i + 1]
  BY <1>1, GetEntry DEF WorkerGets, QueueShape
<1>3. /\ 1 \in 1 .. Len(queue)
      /\ \A i \in 1 .. Len(queue') : i + 1 \in 1 .. Len(queue) /\ 1 < i + 1
  BY <1>2
<1>4. /\ worker = "getting" /\ item = 0
      /\ UNCHANGED <<published, dropped, delivered, failed, stopped, closer, closedAt>>
  BY <1>1 DEF WorkerGets, QueueShape, closeVars
<1>5. \/ e = Sentinel /\ worker' = "sawSentinel" /\ item' = 0
      \/ /\ e # Sentinel /\ worker' = "publishing" /\ item' = e
         /\ e \in Nat \ {0} /\ e <= published
  <2>1. CASE e = Sentinel
    BY <1>4, <2>1 DEF WorkerGets
  <2>2. CASE e # Sentinel
    <3>1. e \in Event /\ e <= published
      BY <1>1, <1>2, <1>3, <2>2 DEF Entry, Ordered
    <3>2. e \in Nat \ {0}
      BY <3>1, QueueAssumption DEF Event
    <3> QED
      BY <2>2, <3>1, <3>2 DEF WorkerGets
  <2> QED
    BY <2>1, <2>2
<1>l. len + 1 = Len(queue)
  BY <1>1, Numbers
<1> HIDE DEF e, len
<1>6. QueueShape'
  BY <1>1, <1>2, <1>4, <1>5, Numbers DEF QueueShape
<1>7. \A i, j \in 1 .. Len(queue') :
        (i < j /\ queue'[i] # Sentinel /\ queue'[j] # Sentinel) => queue'[i] < queue'[j]
  <2> SUFFICES ASSUME NEW i \in 1 .. Len(queue'), NEW j \in 1 .. Len(queue'), i < j,
                      queue'[i] # Sentinel, queue'[j] # Sentinel
               PROVE  queue'[i] < queue'[j]
    OBVIOUS
  <2>1. i + 1 < j + 1
    BY <1>2
  <2> QED
    BY <1>1, <1>2, <1>3, <2>1 DEF Ordered
<1>8. ASSUME NEW j \in 1 .. Len(queue'), queue'[j] # Sentinel
      PROVE  /\ queue'[j] <= published /\ item' < queue'[j]
             /\ \A i \in 1 .. Len(delivered) : delivered[i] < queue'[j]
  <2>1. /\ j + 1 \in 1 .. Len(queue) /\ 1 < j + 1
        /\ queue'[j] = queue[j + 1]
    BY <1>2, <1>3
  <2>2. /\ queue'[j] <= published /\ item < queue'[j]
        /\ \A i \in 1 .. Len(delivered) : delivered[i] < queue'[j]
    BY <1>1, <1>8, <2>1 DEF Ordered
  <2>3. e # Sentinel => e < queue'[j]
    BY <1>1, <1>2, <1>3, <1>8, <2>1 DEF Ordered
  <2> QED
    BY <1>4, <1>5, <2>2, <2>3
<1>9. \A i \in 1 .. Len(delivered) :
        delivered[i] <= published /\ (item' # 0 => delivered[i] < item')
  BY <1>1, <1>2, <1>3, <1>5 DEF Ordered
<1>10. Ordered'
  BY <1>1, <1>4, <1>7, <1>8, <1>9 DEF Ordered, DeliveredInOrder
<1>11. SentinelLast'
  <2>1. \A i, j \in 1 .. Len(queue') :
          (i < j /\ queue'[i] = Sentinel /\ queue'[j] # Sentinel) => closedAt < queue'[j]
    <3> SUFFICES ASSUME NEW i \in 1 .. Len(queue'), NEW j \in 1 .. Len(queue'), i < j,
                        queue'[i] = Sentinel, queue'[j] # Sentinel
                 PROVE  closedAt < queue'[j]
      OBVIOUS
    <3>1. i + 1 < j + 1
      BY <1>2
    <3> QED
      BY <1>1, <1>2, <1>3, <3>1 DEF SentinelLast
  <2>2. ASSUME e = Sentinel, NEW j \in 1 .. Len(queue'), queue'[j] # Sentinel
        PROVE  closedAt < queue'[j]
    BY <1>1, <1>2, <1>3, <2>2 DEF SentinelLast
  <2>3. closer \in {"open", "putting"} =>
          e # Sentinel /\ \A i \in 1 .. Len(queue') : queue'[i] # Sentinel
    BY <1>1, <1>2, <1>3 DEF SentinelLast
  <2> QED
    BY <1>4, <1>5, <2>1, <2>2, <2>3 DEF SentinelLast
<1>12. EventsAccountedFor'
  <2> SUFFICES ASSUME NEW m \in 1 .. published
               PROVE  \/ m \in dropped' \/ m \in failed' \/ m = item'
                      \/ (\E i \in 1 .. Len(queue') : queue'[i] = m)
                      \/ (\E i \in 1 .. Len(delivered') : delivered'[i] = m)
    BY <1>4 DEF EventsAccountedFor, InQueue, IsDelivered
  <2>1. m # 0 /\ m \in Nat
    BY <1>1, Numbers
  <2>2. ASSUME NEW i \in 1 .. Len(queue), queue[i] = m
        PROVE  m = item' \/ \E j \in 1 .. Len(queue') : queue'[j] = m
    <3>1. CASE i = 1
      BY <1>2, <1>5, <2>1, <2>2, <3>1, SentinelIsNoEvent
    <3>2. CASE i # 1
      <4>1. i - 1 \in 1 .. Len(queue') /\ queue'[i - 1] = m
        <5>1. i - 1 \in 1 .. len
          BY <1>2, <1>l, <3>2
        <5>2. queue'[i - 1] = queue[(i - 1) + 1]
          BY <1>2, <5>1
        <5>3. (i - 1) + 1 = i
          OBVIOUS
        <5> QED
          BY <1>2, <2>2, <5>1, <5>2, <5>3
      <4> QED
        BY <4>1
    <3> QED
      BY <3>1, <3>2
  <2>3. \/ m \in dropped \/ m \in failed \/ m = item
        \/ (\E i \in 1 .. Len(queue) : queue[i] = m)
        \/ (\E i \in 1 .. Len(delivered) : delivered[i] = m)
    BY <1>1 DEF EventsAccountedFor, InQueue, IsDelivered
  <2> QED
    BY <1>4, <2>1, <2>2, <2>3
<1> QED
  BY <1>6, <1>10, <1>11, <1>12 DEF QueueInv

LEMMA WorkerPublishesStep == ASSUME QueueInv, WorkerPublishes PROVE QueueInv'
<1> DEFINE len == Len(delivered)
<1>1. QueueShape /\ Ordered /\ SentinelLast /\ EventsAccountedFor
  BY DEF QueueInv
<1>2. /\ worker = "publishing" /\ worker' = "getting" /\ item' = 0
      /\ UNCHANGED <<queue, published, dropped, stopped, closer, closedAt>>
  BY DEF WorkerPublishes, closeVars
<1>3. item \in Event /\ item \in Nat \ {0} /\ item <= published
  <2>1. /\ item # 0 /\ item \in Nat /\ item <= published
        /\ published \in Nat /\ published <= MaxEvents
    BY <1>1, <1>2, Numbers, QueueAssumption DEF QueueShape
  <2> QED
    BY <2>1, QueueAssumption DEF Event
<1>4. SentinelLast'
  BY <1>1, <1>2 DEF SentinelLast
<1>5. CASE delivered' = delivered /\ failed' = failed \cup {item}
  <2>1. QueueShape'
    BY <1>1, <1>2, <1>5, Numbers DEF QueueShape
  <2>2. Ordered'
    BY <1>1, <1>2, <1>3, <1>5, Numbers DEF Ordered, DeliveredInOrder
  <2>3. EventsAccountedFor'
    BY <1>1, <1>2, <1>5 DEF EventsAccountedFor, InQueue, IsDelivered
  <2> QED
    BY <1>4, <2>1, <2>2, <2>3 DEF QueueInv
<1>6. CASE delivered' = Append(delivered, item) /\ failed' = failed
  <2>1. /\ delivered' \in Seq(Event) /\ Len(delivered') = len + 1 /\ len \in Nat
        /\ delivered'[len + 1] = item
        /\ \A i \in 1 .. len : delivered'[i] = delivered[i]
    BY <1>1, <1>3, <1>6, PutEntry DEF QueueShape
  <2>2. \A i \in 1 .. Len(delivered') : i \in 1 .. len \/ i = len + 1
    BY <2>1
  <2> HIDE DEF len
  <2>l. len = Len(delivered)
    BY DEF len
  <2>3. QueueShape'
    BY <1>1, <1>2, <2>1, Numbers DEF QueueShape
  <2>4. \A i, j \in 1 .. Len(delivered') : i < j => delivered'[i] < delivered'[j]
    <3> SUFFICES ASSUME NEW i \in 1 .. Len(delivered'), NEW j \in 1 .. Len(delivered'), i < j
                 PROVE  delivered'[i] < delivered'[j]
      OBVIOUS
    <3>1. i \in 1 .. len /\ delivered'[i] = delivered[i]
      BY <2>1, <2>2
    <3>2. CASE j \in 1 .. len
      BY <1>1, <2>1, <2>l, <3>1, <3>2 DEF Ordered, DeliveredInOrder
    <3>3. CASE j = len + 1
      BY <1>1, <1>3, <2>1, <2>l, <3>1, <3>3 DEF Ordered
    <3> QED
      BY <2>2, <3>2, <3>3
  <2>5. \A i \in 1 .. Len(delivered') : delivered'[i] <= published
    <3>1. \A i \in 1 .. len : delivered'[i] <= published
      BY <1>1, <2>1, <2>l DEF Ordered
    <3> QED
      BY <1>3, <2>1, <2>2, <3>1
  <2>6. ASSUME NEW j \in 1 .. Len(queue), queue[j] # Sentinel
        PROVE  /\ queue[j] <= published /\ 0 < queue[j]
               /\ \A i \in 1 .. Len(delivered') : delivered'[i] < queue[j]
    <3>1. /\ queue[j] <= published /\ item < queue[j]
          /\ \A i \in 1 .. len : delivered'[i] < queue[j]
      BY <1>1, <2>1, <2>6, <2>l DEF Ordered
    <3>2. queue[j] \in Nat
      BY <1>1, <2>6, Numbers
    <3> QED
      BY <1>3, <2>1, <2>2, <3>1, <3>2
  <2>7. \A i, j \in 1 .. Len(queue) :
          (i < j /\ queue[i] # Sentinel /\ queue[j] # Sentinel) => queue[i] < queue[j]
    BY <1>1 DEF Ordered
  <2>8. Ordered'
    BY <1>2, <2>4, <2>5, <2>6, <2>7 DEF Ordered, DeliveredInOrder
  <2>9. EventsAccountedFor'
    <3> SUFFICES ASSUME NEW m \in 1 .. published
                 PROVE  \/ m \in dropped' \/ m \in failed' \/ m = item'
                        \/ (\E i \in 1 .. Len(queue') : queue'[i] = m)
                        \/ (\E i \in 1 .. Len(delivered') : delivered'[i] = m)
      BY <1>2 DEF EventsAccountedFor, InQueue, IsDelivered
    <3>1. \/ m \in dropped \/ m \in failed \/ m = item
          \/ (\E i \in 1 .. Len(queue) : queue[i] = m)
          \/ (\E i \in 1 .. len : delivered[i] = m)
      BY <1>1, <2>l DEF EventsAccountedFor, InQueue, IsDelivered
    <3>2. \A i \in 1 .. len : i \in 1 .. Len(delivered') /\ delivered'[i] = delivered[i]
      BY <2>1
    <3>3. len + 1 \in 1 .. Len(delivered') /\ delivered'[len + 1] = item
      BY <2>1
    <3> QED
      BY <1>2, <1>6, <3>1, <3>2, <3>3
  <2> QED
    BY <1>4, <2>3, <2>8, <2>9 DEF QueueInv
<1> QED
  BY <1>5, <1>6 DEF WorkerPublishes

LEMMA WorkerWaitsStep ==
    ASSUME QueueInv, WorkerTimesOut \/ WorkerChecksStop PROVE QueueInv'
<1>1. /\ UNCHANGED <<queue, published, dropped, item, delivered, failed, stopped,
                     closer, closedAt>>
      /\ worker # "publishing" /\ worker' \in {"timedOut", "sawStop", "getting"}
  BY DEF WorkerTimesOut, WorkerChecksStop, closeVars
<1> QED
  BY <1>1 DEF QueueInv, QueueShape, Ordered, DeliveredInOrder, SentinelLast,
              EventsAccountedFor, InQueue, IsDelivered

LEMMA CloseBeginsStep == ASSUME QueueInv, CloseBegins PROVE QueueInv'
<1>1. UNCHANGED <<queue, published, dropped, worker, item, delivered, failed>>
  BY DEF CloseBegins, workerVars
<1>2. QueueShape'
  BY <1>1, Numbers DEF QueueInv, CloseBegins, QueueShape
<1>3. Ordered' /\ EventsAccountedFor'
  BY <1>1 DEF QueueInv, Ordered, DeliveredInOrder, EventsAccountedFor, InQueue, IsDelivered
<1>4. SentinelLast'
  BY <1>1 DEF QueueInv, CloseBegins, SentinelLast
<1> QED
  BY <1>2, <1>3, <1>4 DEF QueueInv

LEMMA ClosePutsStep == ASSUME QueueInv, ClosePuts PROVE QueueInv'
<1>1. /\ closer = "putting" /\ closer' = "joining"
      /\ UNCHANGED <<published, dropped, worker, item, delivered, failed, stopped, closedAt>>
  BY DEF ClosePuts, workerVars
<1>2. QueueShape /\ Ordered /\ SentinelLast /\ EventsAccountedFor
  BY DEF QueueInv
<1>3. CASE queue' = queue
  BY <1>1, <1>2, <1>3 DEF QueueInv, QueueShape, Ordered, DeliveredInOrder, SentinelLast,
                    EventsAccountedFor, InQueue, IsDelivered
<1>4. CASE queue' = Append(queue, Sentinel)
  <2> DEFINE len == Len(queue)
  <2>1. /\ queue' \in Seq(Entry) /\ Len(queue') = len + 1 /\ len \in Nat
        /\ queue'[len + 1] = Sentinel
        /\ \A i \in 1 .. len : queue'[i] = queue[i]
    BY <1>2, <1>4, PutEntry DEF QueueShape, Entry
  <2>2. \A i \in 1 .. Len(queue') : i \in 1 .. len \/ i = len + 1
    BY <2>1
  <2> HIDE DEF len
  <2>l. len = Len(queue)
    BY DEF len
  <2>3. \A i \in 1 .. Len(queue') :
          queue'[i] # Sentinel => i \in 1 .. Len(queue) /\ queue'[i] = queue[i]
    BY <2>1, <2>2, <2>l
  <2>4. QueueShape'
    BY <1>1, <1>2, <2>1 DEF QueueShape
  <2>5. Ordered'
    BY <1>1, <1>2, <2>3 DEF Ordered, DeliveredInOrder
  <2>6. SentinelLast'
    <3>1. \A i \in 1 .. Len(queue) : queue[i] # Sentinel
      BY <1>1, <1>2 DEF SentinelLast
    <3>2. ASSUME NEW i \in 1 .. Len(queue'), NEW j \in 1 .. Len(queue'), i < j,
                 queue'[i] = Sentinel, queue'[j] # Sentinel
          PROVE  FALSE
      <4>1. i = len + 1
        BY <2>1, <2>2, <2>l, <3>1, <3>2
      <4> QED
        BY <2>1, <3>2, <4>1
    <3> QED
      BY <1>1, <1>2, <3>2 DEF SentinelLast
  <2>7. EventsAccountedFor'
    <3>1. \A i \in 1 .. Len(queue) : i \in 1 .. Len(queue') /\ queue'[i] = queue[i]
      BY <2>1, <2>l
    <3>2. \A m : (\E i \in 1 .. Len(queue) : queue[i] = m)
                   => \E i \in 1 .. Len(queue') : queue'[i] = m
      BY <3>1
    <3> QED
      BY <1>1, <1>2, <3>2 DEF EventsAccountedFor, InQueue, IsDelivered
  <2> QED
    BY <2>4, <2>5, <2>6, <2>7 DEF QueueInv
<1> QED
  BY <1>3, <1>4 DEF ClosePuts

LEMMA CloseReturnsStep == ASSUME QueueInv, CloseReturns PROVE QueueInv'
<1>1. /\ UNCHANGED <<queue, published, dropped, worker, item, delivered, failed, closedAt>>
      /\ closer' = "closed"
  BY DEF CloseReturns, workerVars
<1> QED
  BY <1>1 DEF QueueInv, QueueShape, Ordered, DeliveredInOrder, SentinelLast,
              EventsAccountedFor, InQueue, IsDelivered

----------------------------------------------------------------------------
(* The invariant, and the two promises *)

LEMMA QueueInvInitially == QueueInit => QueueInv
<1> SUFFICES ASSUME QueueInit PROVE QueueInv
  OBVIOUS
<1>1. QueueShape
  BY QueueAssumption DEF QueueInit, QueueShape
<1>2. Ordered /\ SentinelLast
  BY DEF QueueInit, Ordered, SentinelLast, DeliveredInOrder
<1>3. EventsAccountedFor
  BY DEF QueueInit, EventsAccountedFor
<1> QED
  BY <1>1, <1>2, <1>3 DEF QueueInv

LEMMA QueueInvPreserved == QueueInv /\ [QueueNext]_queueVars => QueueInv'
<1> SUFFICES ASSUME QueueInv, [QueueNext]_queueVars PROVE QueueInv'
  OBVIOUS
<1>1. CASE Publish
  BY <1>1, PublishStep
<1>2. CASE WorkerGets
  BY <1>2, WorkerGetsStep
<1>3. CASE WorkerTimesOut \/ WorkerChecksStop
  BY <1>3, WorkerWaitsStep
<1>4. CASE WorkerPublishes
  BY <1>4, WorkerPublishesStep
<1>5. CASE CloseBegins
  BY <1>5, CloseBeginsStep
<1>6. CASE ClosePuts
  BY <1>6, ClosePutsStep
<1>7. CASE CloseReturns
  BY <1>7, CloseReturnsStep
<1>8. CASE UNCHANGED queueVars
  BY <1>8 DEF queueVars, QueueInv, QueueShape, Ordered, DeliveredInOrder, SentinelLast,
              EventsAccountedFor, InQueue, IsDelivered
<1> QED
  BY <1>1, <1>2, <1>3, <1>4, <1>5, <1>6, <1>7, <1>8 DEF QueueNext, WorkerStep, CloseStep

LEMMA QueueInvHolds == QueueSpec => []QueueInv
  BY QueueInvInitially, QueueInvPreserved, PTL DEF QueueSpec

\* No event overtakes another on its way to the wrapped bus, and the sentinel
\* overtakes none that was published before close(): AsyncMessageBus.publish,
\* _run and close of bus.py, whatever fails or is dropped in between.
THEOREM QueueKeepsOrder == QueueSpec => []EventsKeepOrder
<1>1. QueueInv => EventsKeepOrder
  <2> SUFFICES ASSUME QueueInv PROVE DeliveredInOrder /\ SentinelDrains
    BY DEF EventsKeepOrder
  <2>1. DeliveredInOrder
    BY DEF QueueInv, Ordered
  <2>2. SentinelDrains
    <3> SUFFICES ASSUME worker = "sawSentinel", NEW n \in 1 .. closedAt,
                        NEW i \in 1 .. Len(queue), queue[i] = n
                 PROVE  FALSE
      BY DEF SentinelDrains, InQueue
    <3>1. closedAt \in Nat
      BY Numbers DEF QueueInv
    <3>2. n # Sentinel
      BY <3>1, SentinelIsNoEvent
    <3>3. closedAt < n
      BY <3>2 DEF QueueInv, SentinelLast
    <3> QED
      BY <3>1, <3>3
  <2> QED
    BY <2>1, <2>2
<1> QED
  BY <1>1, QueueInvHolds, PTL

\* Every published event is somewhere: delivered, failed, dropped, in the
\* worker's hand or queued; neither an exception of the wrapped bus nor the end
\* of the worker thread loses one unrecorded.
THEOREM QueueLosesNothing == QueueSpec => []EventsAccountedFor
<1>1. QueueInv => EventsAccountedFor
  BY DEF QueueInv
<1> QED
  BY <1>1, QueueInvHolds, PTL
=============================================================================
