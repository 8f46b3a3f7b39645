-------------------------- MODULE MCOrchestration --------------------------
(* An executive, then a manager of the same conversation whom the first   *)
(* OBO server refuses; a second server, app-auth, and a Lakebase agent     *)
(* that only the manager may use and that accepts handoffs.                *)
EXTENDS Orchestration, TLC

CONSTANTS exec, mgr, ann, bob, chat, r1, r2

MCAgents == <<
    [kind |-> "mcp", obo |-> TRUE, personas |-> {}, sensitive |-> TRUE, handoffs |-> FALSE],
    [kind |-> "mcp", obo |-> FALSE, personas |-> {}, sensitive |-> FALSE, handoffs |-> FALSE],
    [kind |-> "lakebase", obo |-> FALSE, personas |-> {mgr}, sensitive |-> TRUE, handoffs |-> TRUE] >>

Input(user, persona, conversation) ==
    [user |-> user, persona |-> persona, conversation |-> conversation,
     tool |-> None, doubtful |-> FALSE]

MCAsks == r1 :> Input(ann, exec, chat) @@ r2 :> Input(bob, mgr, chat)
MCTopics == {{}, {1, 3}}
MCConditions == [{1, 2} -> {"up"}] \cup [{1, 2} -> {"hung"}]
MCBarred == {<<bob, 1>>}
============================================================================
