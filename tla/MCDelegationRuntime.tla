------------------------ MODULE MCDelegationRuntime ------------------------
(***************************************************************************)
(* One app worker, two handoffs and one approval.  The two handoffs carry  *)
(* the same delegation of one session, so that, as in the code, they share *)
(* the idempotency key and the worker id "handoff:{correlation_id}".       *)
(***************************************************************************)
EXTENDS DelegationRuntime

CONSTANTS h1, h2, app, d1, d2, f1, kd, kf, handoffId, appId

MCTasks == {d1, d2, f1}
MCKeys == {kd, kf}
MCKeyOf == [t \in MCTasks |-> IF t = f1 THEN kf ELSE kd]
MCExpiresAt == [t \in MCTasks |-> IF t = f1 THEN 2 ELSE None]
MCWorkers == {handoffId, appId}
MCHandoffs == {h1, h2}
MCAppWorkers == {app}
MCRequest == [h \in MCHandoffs |-> IF h = h1 THEN d1 ELSE d2]
MCApprovals == {f1}
MCWorkerId == [p \in {h1, h2, app} |-> IF p = app THEN appId ELSE handoffId]

\* The worker's policy knows the target of the delegations, and not the name
\* under which the approval API submits its follow-up.
MCPermitted == [p \in {h1, h2, app} |-> {d1, d2}]
=============================================================================
