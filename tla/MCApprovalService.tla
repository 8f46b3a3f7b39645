------------------------- MODULE MCApprovalService -------------------------
(***************************************************************************)
(* Small instances of ApprovalService: calls a1 and a2 approve one request *)
(* in the same words, b1 and b2 leave the optional fields out, and n1      *)
(* rejects.  The registry is the one of contracts/subagents.*.json: the    *)
(* intervention agent under its catalog name, and another agent.           *)
(***************************************************************************)
EXTENDS ApprovalService

CONSTANTS a1, a2, b1, b2, n1, r1, p1, p2

MCRequests == {r1}
MCRequestOf == [c \in Calls |-> r1]
MCForm(d, t) == [decision |-> d, text |-> t]
MCFormOf == [c \in Calls |->
    IF c \in {a1, a2} THEN MCForm("approved", "reason")
    ELSE IF c \in {b1, b2} THEN MCForm("approved", None)
    ELSE MCForm("rejected", "reason")]
MCTexts == {"", "reason"}

MCIntents == {"store_intervention_planning", "appointment_summary"}
MCNames == {"approval-api", "orchestrator", "store-intervention-agent",
            "gmai-app-agent-store-intervention", "gmai-lakebase-agent-ods"}
MCLogical == [n \in MCNames |->
    IF n = "gmai-app-agent-store-intervention" THEN "store-intervention-agent" ELSE n]
MCAgent(accepted, intents) ==
    [canDelegateTo |-> {}, accepts |-> {accepted}, intents |-> {intents}, maxDepth |-> 1]
MCAgents ==
    [n \in {"gmai-app-agent-store-intervention", "gmai-lakebase-agent-ods"} |->
        IF n = "gmai-lakebase-agent-ods" THEN MCAgent("orchestrator", "appointment_summary")
        ELSE MCAgent("approval-api", "store_intervention_planning")]
MCFollowUp == [source |-> "approval-api", target |-> "store-intervention-agent",
               intent |-> "store_intervention_planning", authMode |-> "app", depth |-> 0]

\* The target that no entry accepts, as when it is retargeted by a variable.
MCRefusedFollowUp == [MCFollowUp EXCEPT !.target = "gmai-lakebase-agent-ods"]
\* The target under the name of its entry, which the worker's policy knows too.
MCKnownFollowUp == [MCFollowUp EXCEPT !.target = "gmai-app-agent-store-intervention"]


MCProcesses == {p1, p2}
MCOneProcess == [c \in Calls |-> p1]
MCTwoProcesses == [c \in Calls |-> IF c \in {a1, b1} THEN p1 ELSE p2]

\* The Delta table for decisions and tasks, in one process.
MCDurable == [enabled |-> TRUE, durable |-> TRUE, durableTasks |-> TRUE, failOpen |-> FALSE,
              silentFailures |-> FALSE, followUp |-> MCKnownFollowUp, process |-> MCOneProcess]
\* Both in memory.
MCMemory == [MCDurable EXCEPT !.durable = FALSE, !.durableTasks = FALSE]
\* Tasks in memory, as targets/qa.yml, stg.yml and prd.yml leave them.
MCMixed == [MCDurable EXCEPT !.durableTasks = FALSE, !.followUp = MCFollowUp]
\* Two processes and fail-open persistence.
MCContended == [MCDurable EXCEPT !.failOpen = TRUE, !.followUp = MCFollowUp,
                                 !.process = MCTwoProcesses]
\* And statements that fail unnoticed.
MCDegraded == [MCContended EXCEPT !.silentFailures = TRUE]
\* The reverse of MCMixed: decisions in memory, tasks in a table that fails unnoticed.
MCSilentTasks == [MCDurable EXCEPT !.durable = FALSE, !.silentFailures = TRUE]
MCRefused == [MCDurable EXCEPT !.followUp = MCRefusedFollowUp]
MCDisabled == [MCDurable EXCEPT !.enabled = FALSE]

MCSettings == {MCDurable, MCMemory, MCMixed, MCContended, MCDegraded, MCSilentTasks,
               MCRefused, MCDisabled}
MCDurableOnly == {MCDurable}

MCRetries == {a1, a2, n1, b1}
MCBare == {b1, b2}
=============================================================================
