---------------------------- MODULE MCUcTaskBus ----------------------------
(***************************************************************************)
(* Small instances of UcTaskBus.  Handoffs h1 and h2 are one delegation    *)
(* requested twice in a session (same key, same worker id); h3 is another  *)
(* session's.                                                              *)
(***************************************************************************)
EXTENDS UcTaskBus

CONSTANTS h1, h2, h3, app1, app2, t1, t2, t3, k1, k3, id1, id3, idApp1, idApp2

MCTasks == {t1, t2, t3}
MCKeyOf == [t \in MCTasks |-> IF t = t3 THEN k3 ELSE k1]
MCKeys == {k1, k3}
MCWorkers == {id1, id3, idApp1, idApp2}
MCIdOf(p) == IF p = app1 THEN idApp1 ELSE IF p = app2 THEN idApp2
             ELSE IF p = h3 THEN id3 ELSE id1
MCTaskOf(h) == IF h = h1 THEN t1 ELSE IF h = h2 THEN t2 ELSE t3

MCRequest == [h \in Handoffs |-> MCTaskOf(h)]
MCWorkerId == [p \in Handoffs \cup AppWorkers |-> MCIdOf(p)]

MCHandoffs == {h1, h2, h3}
MCApps == {app1, app2}

\* Everybody may run t1 and t2; t3 is denied by the app workers' policy.
MCPermitted == [p \in Handoffs \cup AppWorkers |->
                   IF p \in AppWorkers THEN {t1, t2} ELSE MCTasks]

\* A handoff and the app workers of two processes contend for one task whose lease
\* can lapse at every statement; and a handoff and an app worker that denies its
\* task, with statements that fail unnoticed.
MCContention == [handoffs |-> {h1}, apps |-> {app1, app2}, silent |-> FALSE, until |-> 3]
MCDegraded == [handoffs |-> {h3}, apps |-> {app1}, silent |-> TRUE, until |-> 2]
MCDeployments == {MCContention, MCDegraded}

\* The same request twice: README.md tells what this deployment refutes.
MCDuplicates == {[handoffs |-> {h1, h2}, apps |-> {}, silent |-> FALSE, until |-> 2]}
=============================================================================
