------------------------- MODULE MCRuntimeLiveness -------------------------
(***************************************************************************)
(* One app worker, one handoff and one approval, for the liveness runs.    *)
(***************************************************************************)
EXTENDS DelegationRuntime

CONSTANTS h1, app, d1, f1, handoffId, appId

MCTasks == {d1, f1}
MCKeyOf == [t \in MCTasks |-> t]
MCNoExpiry == [t \in MCTasks |-> None]
MCWorkers == {handoffId, appId}
MCHandoffs == {h1}
MCAppWorkers == {app}
MCRequest == [h \in MCHandoffs |-> d1]
MCApprovals == {f1}
MCWorkerId == [p \in {h1, app} |-> IF p = app THEN appId ELSE handoffId]
MCPermitted == [p \in {h1, app} |-> {d1}]
=============================================================================
