-------------------------- MODULE DelegationPolicy --------------------------
(***************************************************************************)
(* The deny-by-default policy of agent-to-agent delegation                 *)
(* (application/delegation/policy.py) and the resolution of logical target *)
(* names against the registry that the approval API puts in front of it    *)
(* (application/approvals/service.py).  A registry maps the names of the   *)
(* configured subagents to their delegation settings.                      *)
(***************************************************************************)
EXTENDS FiniteSets, Integers

\* A registry entry and a task, as far as the policy reads them.
AgentConfig(names, intents) ==
    [canDelegateTo : SUBSET names, accepts : SUBSET names,
     intents : SUBSET intents, maxDepth : Nat]

PolicyTask(names, intents) ==
    [source : names, target : names, intent : intents,
     authMode : {"app", "obo"}, depth : Nat]

\* A source that is not a subagent (the orchestrator, the approval API) has no
\* settings of its own and may delegate one level deep.
MaxDepth(source, agents) ==
    IF source \in DOMAIN agents THEN agents[source].maxDepth ELSE 1

\* evaluate_delegation_policy: the reason code of the first test that fails.
PolicyReason(task, agents) ==
    LET known == DOMAIN agents
        target == agents[task.target]
    IN  CASE task.target \notin known -> "unknown_agent"
          [] task.target \in known /\ task.authMode # "app" -> "obo_not_supported"
          [] OTHER ->
             IF task.source \in known /\ task.target \notin agents[task.source].canDelegateTo
               THEN "source_not_allowed"
             ELSE IF task.source \notin target.accepts THEN "target_not_allowed"
             ELSE IF task.intent \notin target.intents THEN "intent_not_allowed"
             ELSE IF task.depth >= MaxDepth(task.source, agents) THEN "max_depth_exceeded"
             ELSE "allowed"

Allows(task, agents) == PolicyReason(task, agents) = "allowed"

\* _policy_subagents: a target that is not in the registry takes the settings
\* of the one entry with the same logical name, which is renamed to the target.
ResolvedAgents(target, agents, logical) ==
    LET matches == {n \in DOMAIN agents : logical[n] = logical[target]} IN
    IF target \in DOMAIN agents \/ Cardinality(matches) # 1
      THEN agents
      ELSE LET match == CHOOSE n \in matches : TRUE
           IN  [n \in (DOMAIN agents \ {match}) \cup {target} |->
                   IF n = target THEN agents[match] ELSE agents[n]]
=============================================================================
