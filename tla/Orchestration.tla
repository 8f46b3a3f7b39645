--------------------------- MODULE Orchestration ---------------------------
(***************************************************************************)
(* The connect stage of a request (api/invocations.py): the tool policy    *)
(* (application/auth), the route plan and its sticky memory                *)
(* (orchestration/routing.py), the tools built for the request             *)
(* (orchestration/agent.py, adapters/tools.py), the MCP servers connected  *)
(* under the health cache that all requests share, and the model that the  *)
(* registry cache answers with (orchestration/model_registry.py).          *)
(*                                                                         *)
(* An action is the code between two awaits.  An agent of the registry is  *)
(* its position in Agents.  Words are left out: which agents a question    *)
(* matches, and whether the match is confident, is chosen freely.          *)
(***************************************************************************)
EXTENDS Integers, Sequences, FiniteSets

CONSTANTS Agents,          \* the subagent registry, a sequence of AgentConfig
          Requests,        \* the requests of one application process
          Users, Personas, Conversations,
          Asks,            \* what each request states, a RequestInput
          Topics,          \* the sets of agents that a question may match best
          Barred,          \* <<user, agent>>: an OBO user the server refuses
          Conditions,      \* what the servers may be like when the process starts
          ConnectTimeout, ListTimeout,
          HealthTtl, FailureTtl, StickyTtl, ModelTtl,
          MaxTime,         \* bound on the clock
          MaxChanges,      \* bound on the changes of the servers' condition
          MaxVersion,      \* bound on the versions of the registered model
          App,             \* the identity of the application
          None             \* Python's None

\* kind "mcp" stands for Genie spaces too: both become MCP servers.
AgentConfig == [kind : {"mcp", "lakebase", "app"}, obo : BOOLEAN,
                personas : SUBSET Personas, sensitive : BOOLEAN,
                handoffs : BOOLEAN]    \* accepts them from the orchestrator
Agent == 1 .. Len(Agents)
Servers == {a \in Agent : Agents[a].kind = "mcp"}
Condition == {"up", "deaf", "down", "hung"}
RequestInput == [user : Users \cup {None}, persona : Personas \cup {None},
                 conversation : Conversations \cup {None},
                 tool : Agent \cup {None},
                 doubtful : BOOLEAN]   \* states a confidence below 0.75

ASSUME OrchestrationAssumption ==
    /\ Agents \in Seq(AgentConfig)
    /\ Asks \in [Requests -> RequestInput]
    /\ Topics \subseteq SUBSET Agent
    /\ Barred \subseteq Users \X Agent
    /\ Conditions \subseteq [Servers -> Condition]
    /\ {ConnectTimeout, ListTimeout} \subseteq Nat \ {0}
    /\ {HealthTtl, FailureTtl, StickyTtl, ModelTtl} \subseteq Nat
    /\ {MaxTime, MaxChanges, MaxVersion} \subseteq Nat
    /\ {App, None} \cap Users = {} /\ App # None /\ None \notin Nat

VARIABLES now,
          condition,   \* what a call to each MCP server meets
          changes,     \* how often a condition has changed
          health,      \* _MCP_HEALTH_CACHE
          sticky,      \* _sticky_routes
          phase,       \* the stage of each request
          route,       \* its RoutePlan
          call,        \* its _check_and_connect of each server
          version,     \* the latest version of the registered model
          modelCache,  \* model_registry._cache
          model,       \* the version whose endpoint each request runs with
          history      \* facts only the properties read

serverVars == <<condition, changes>>
modelVars == <<version, modelCache, model>>
vars == <<now, serverVars, health, sticky, phase, route, call, modelVars, history>>

Reason == {"capability_match", "sticky_route", "ambiguous_fallback",
           "low_confidence_fallback"}
Fallback == {"ambiguous_fallback", "low_confidence_fallback"}
Step == {"idle", "waiting", "entering", "listing", "exposed", "skipped", "failed"}
Settled == {"exposed", "skipped", "failed"}

Entry == [healthy : BOOLEAN, until : Nat]
Remembered == [names : SUBSET Agent, until : Nat]
Idle == [step |-> "idle", known |-> FALSE, since |-> 0]

TypeOK ==
    /\ now \in 0 .. MaxTime
    /\ condition \in [Servers -> Condition]
    /\ changes \in 0 .. MaxChanges
    /\ health \in [Servers -> Entry \cup {None}]
    /\ sticky \in [Conversations -> Remembered \cup {None}]
    /\ phase \in [Requests -> {"received", "routed", "checking", "running", "gone"}]
    /\ route \in [Requests -> [reason : Reason, candidates : SUBSET Agent] \cup {None}]
    /\ call \in [Requests -> [Servers -> [step : Step, known : BOOLEAN, since : Nat]]]
    /\ version \in 0 .. MaxVersion
    /\ modelCache \in [version : 0 .. MaxVersion, until : Nat] \cup {None}
    /\ model \in [Requests -> (0 .. MaxVersion) \cup {None}]
    /\ history \in [received : [Requests -> Nat],
                    matched : [Conversations -> Remembered \cup {None}],
                    innocent : SUBSET Servers,
                    fault : [Servers -> Nat \cup {None}],
                    replaced : [0 .. MaxVersion -> Nat \cup {None}]]

Init ==
    /\ now = 0
    /\ condition \in Conditions
    /\ changes = 0
    /\ health = [a \in Servers |-> None]
    /\ sticky = [c \in Conversations |-> None]
    /\ phase = [r \in Requests |-> "received"]
    /\ route = [r \in Requests |-> None]
    /\ call = [r \in Requests |-> [a \in Servers |-> Idle]]
    /\ version = 0
    /\ modelCache = None
    /\ model = [r \in Requests |-> None]
    /\ history = [received |-> [r \in Requests |-> 0],
                  matched |-> [c \in Conversations |-> None],
                  innocent |-> {},
                  fault |-> [a \in Servers |-> None],
                  replaced |-> [v \in 0 .. MaxVersion |-> None]]

-----------------------------------------------------------------------------
(* Policy and identity. *)

HasUserIdentity(r) == Asks[r].user # None

PolicyAllows(r, a) ==
    /\ Asks[r].tool \in {None, a}
    /\ Agents[a].personas # {} => Asks[r].persona \in Agents[a].personas
    /\ Agents[a].obo => HasUserIdentity(r)
    /\ Agents[a].sensitive => ~Asks[r].doubtful

Allowed == [r \in Requests |-> {a \in Agent : PolicyAllows(r, a)}]

\* The identity an agent is called with.
ClientFor(r, a) == IF Agents[a].obo THEN Asks[r].user ELSE App

\* build_subagent_tools and build_lakebase_tools: one query_<name> each.
QueryTools == [r \in Requests |->
    {[tool |-> "query", agent |-> a, client |-> ClientFor(r, a)] :
        a \in {x \in Allowed[r] : Agents[x].kind # "mcp"}}]

\* build_mcp_servers: one session per server, under the identity it needs.
BuiltServers == [r \in Requests |->
    {a \in Allowed[r] \cap Servers : Agents[a].obo => HasUserIdentity(r)}]

\* build_lakebase_delegation_executors: app identity only.
Executors == [r \in Requests |->
    {a \in Allowed[r] : Agents[a].kind = "lakebase" /\ ~Agents[a].obo}]

\* build_delegation_tool: one delegate_to_agent for all eligible targets.
DelegationTargets == [r \in Requests |-> {a \in Executors[r] : Agents[a].handoffs}]
DelegationTools == [r \in Requests |->
    IF DelegationTargets[r] = {} THEN {}
    ELSE {[tool |-> "delegate", agent |-> None, client |-> App]}]

BuiltTools == [r \in Requests |-> QueryTools[r] \cup DelegationTools[r]]

-----------------------------------------------------------------------------
(* The route plan. *)

\* Two mutants of Recalled: the route is recalled as it was, or for good.
RecalledUnfiltered(r) ==
    LET c == Asks[r].conversation IN
    IF c = None \/ sticky[c] = None THEN {}
    ELSE IF sticky[c].until < now THEN {} ELSE sticky[c].names
RecalledForever(r) ==
    LET c == Asks[r].conversation IN
    IF c = None \/ sticky[c] = None THEN {} ELSE sticky[c].names \cap Allowed[r]

Recalled(r) ==
    LET c == Asks[r].conversation IN
    IF c = None \/ sticky[c] = None THEN {}
    ELSE IF sticky[c].until < now THEN {}
    ELSE sticky[c].names \cap Allowed[r]

Plan(reason, candidates) == [reason |-> reason, candidates |-> candidates]

\* No confident match: the conversation's last route, or everything allowed.
StickyOr(fallback, r) == IF Recalled(r) # {} THEN Plan("sticky_route", Recalled(r))
                         ELSE Plan(fallback, Allowed[r])

Forgotten(c) == sticky[c] # None /\ sticky[c].until < now

RouteRequest(r) ==
    /\ phase[r] = "received"
    /\ LET c == Asks[r].conversation IN
       \E best \in {topic \cap Allowed[r] : topic \in Topics}, confident \in BOOLEAN :
          LET remembered == [names |-> best, until |-> now + StickyTtl]
              matches == best # {} /\ confident
          IN
          /\ route' = [route EXCEPT ![r] =
                IF best = {} THEN StickyOr("ambiguous_fallback", r)
                ELSE IF confident THEN Plan("capability_match", best)
                ELSE StickyOr("low_confidence_fallback", r)]
          /\ sticky' = [x \in Conversations |->
                IF x # c THEN sticky[x]
                ELSE IF matches THEN remembered
                ELSE IF Forgotten(x) THEN None ELSE sticky[x]]
          /\ history' = [history EXCEPT
                !.received[r] = now,
                !.matched = [x \in Conversations |->
                    IF x = c /\ matches THEN remembered ELSE @[x]]]
    /\ phase' = [phase EXCEPT ![r] = "routed"]
    /\ UNCHANGED <<now, serverVars, health, call, modelVars>>

PlannedServers(r) == BuiltServers[r] \cap route[r].candidates

\* _select_route_tools: delegate_to_agent is no candidate's name.
RouteTools(r) ==
    LET selected == {t \in BuiltTools[r] : t.agent \in route[r].candidates} IN
    IF selected = {} /\ route[r].reason \in Fallback THEN BuiltTools[r] ELSE selected

Exposed(r) == {a \in Servers : call[r][a].step = "exposed"}

-----------------------------------------------------------------------------
(* connect_healthy_mcp_servers. *)

Fresh(a) == health[a] # None /\ health[a].until > now

\* gather() starts every check: each reads the cache, drops an expired entry,
\* and gives up or queues for enter_lock.
StartChecks(r) ==
    /\ phase[r] = "routed"
    /\ phase' = [phase EXCEPT ![r] = "checking"]
    /\ health' = [a \in Servers |->
          IF a \in PlannedServers(r) /\ ~Fresh(a) THEN None ELSE health[a]]
    /\ call' = [call EXCEPT ![r] = [a \in Servers |->
          IF a \notin PlannedServers(r) THEN Idle
          ELSE IF Fresh(a) /\ ~health[a].healthy THEN [Idle EXCEPT !.step = "skipped"]
          ELSE [step |-> "waiting", known |-> Fresh(a), since |-> now]]]
    /\ UNCHANGED <<now, serverVars, sticky, route, modelVars, history>>

AtStep(r, step) == {a \in Servers : call[r][a].step = step}

\* asyncio.Lock is fair: the checks enter in the order of the registry.
EnterNext(r) ==
    /\ AtStep(r, "entering") = {}
    /\ \E a \in AtStep(r, "waiting") :
          /\ \A b \in AtStep(r, "waiting") : a <= b
          /\ call' = [call EXCEPT ![r][a] = [@ EXCEPT !.step = "entering", !.since = now]]
    /\ UNCHANGED <<now, serverVars, health, sticky, phase, route, modelVars, history>>

\* What a call to server a meets when r makes it.
Meets(r, a) == IF Agents[a].obo /\ <<Asks[r].user, a>> \in Barred /\ condition[a] # "hung"
               THEN "down" ELSE condition[a]

\* A mutant of Record: a failure is kept as long as a success.
RecordEqually(r, a, step, healthy, ttl) ==
    /\ call' = [call EXCEPT ![r][a].step = step]
    /\ health' = [health EXCEPT ![a] = [healthy |-> healthy, until |-> now + HealthTtl]]
    /\ UNCHANGED <<now, serverVars, sticky, phase, route, modelVars>>

Record(r, a, step, healthy, ttl) ==
    /\ call' = [call EXCEPT ![r][a].step = step]
    /\ health' = [health EXCEPT ![a] = [healthy |-> healthy, until |-> now + ttl]]
    /\ UNCHANGED <<now, serverVars, sticky, phase, route, modelVars>>

Accept(r, a) ==
    /\ Record(r, a, "exposed", TRUE, HealthTtl)
    /\ history' = [history EXCEPT !.innocent = @ \ {a}]

\* Any exception, a timeout included.
Reject(r, a) ==
    /\ Record(r, a, "failed", FALSE, FailureTtl)
    /\ history' = [history EXCEPT
          !.fault[a] = now,
          !.innocent = IF Meets(r, a) = "up" THEN @ \cup {a} ELSE @ \ {a}]

\* enter_async_context returns: the probe is skipped when the cache knew it.
EnterSucceeds(r, a) ==
    /\ call[r][a].step = "entering"
    /\ Meets(r, a) \in {"up", "deaf"}
    /\ IF call[r][a].known THEN Accept(r, a)
       ELSE /\ call' = [call EXCEPT ![r][a].step = "listing", ![r][a].since = now]
            /\ UNCHANGED <<now, serverVars, health, sticky, phase, route, modelVars, history>>

ListSucceeds(r, a) ==
    /\ call[r][a].step = "listing"
    /\ Meets(r, a) = "up"
    /\ Accept(r, a)

CallRaises(r, a) ==
    /\ \/ call[r][a].step = "entering" /\ Meets(r, a) = "down"
       \/ call[r][a].step = "listing" /\ Meets(r, a) \in {"deaf", "down"}
    /\ Reject(r, a)

\* Two mutants of Deadline: the timer also covers the wait for the lock; the
\* probe has no timer.
DeadlineOfQueue(c) == IF c.step \in {"waiting", "entering"} THEN c.since + ConnectTimeout
                      ELSE IF c.step = "listing" THEN c.since + ListTimeout
                      ELSE MaxTime + 1
DeadlineOfConnect(c) == IF c.step = "entering" THEN c.since + ConnectTimeout
                        ELSE MaxTime + 1

\* When wait_for gives up: each call has a timer of its own, started with it.
Deadline(c) == CASE c.step = "entering" -> c.since + ConnectTimeout
                 [] c.step = "listing" -> c.since + ListTimeout
                 [] OTHER -> MaxTime + 1
Due(r, a) == now >= Deadline(call[r][a])

CallTimesOut(r, a) ==
    /\ Due(r, a)
    /\ call[r][a].step = "waiting" \/ Meets(r, a) = "hung"
    /\ Reject(r, a)

-----------------------------------------------------------------------------
(* The model, and the end of the stage. *)

Unconnected(r) == phase[r] \in {"received", "routed", "checking"}
ChecksDone(r) == /\ phase[r] = "checking"
                 /\ \A a \in PlannedServers(r) : call[r][a].step \in Settled

\* A mutant of ModelCached: an entry is never too old.
ModelCachedForever == modelCache # None

ModelCached == modelCache # None /\ modelCache.until > now

\* resolve_model_name: called on the event loop, so nothing runs meanwhile.
Connect(r) ==
    /\ ChecksDone(r)
    /\ modelCache' = IF ModelCached THEN modelCache
                     ELSE [version |-> version, until |-> now + ModelTtl]
    /\ model' = [model EXCEPT ![r] = modelCache'.version]
    /\ phase' = [phase EXCEPT ![r] = "running"]
    /\ UNCHANGED <<now, serverVars, health, sticky, route, call, version, history>>

\* The exit stack closes the servers of a request that ends here.
Leaves(r) ==
    /\ phase' = [phase EXCEPT ![r] = "gone"]
    /\ route' = [route EXCEPT ![r] = None]
    /\ call' = [call EXCEPT ![r] = [a \in Servers |-> Idle]]

\* ModelRouteResolutionError: the expired entry is popped, the request fails.
ResolutionFails(r) ==
    /\ ChecksDone(r) /\ ~ModelCached
    /\ modelCache' = None
    /\ Leaves(r)
    /\ UNCHANGED <<now, serverVars, health, sticky, version, model, history>>

\* The client leaves or the request's timer fires: CancelledError is no
\* Exception, so nothing is written about a server.
Cancel(r) ==
    /\ phase[r] \in {"routed", "checking"}
    /\ Leaves(r)
    /\ UNCHANGED <<now, serverVars, health, sticky, modelVars, history>>

-----------------------------------------------------------------------------
(* The environment, of interest while a request is still to connect. *)

Unfinished == \E r \in Requests : Unconnected(r)

ConditionChanges(a) ==
    /\ Unfinished
    /\ changes < MaxChanges
    /\ \E c \in Condition \ {condition[a]} :
          condition' = [condition EXCEPT ![a] = c]
    /\ changes' = changes + 1
    /\ UNCHANGED <<now, health, sticky, phase, route, call, modelVars, history>>

Repoint ==
    /\ Unfinished
    /\ version < MaxVersion
    /\ version' = version + 1
    /\ history' = [history EXCEPT !.replaced[version] = now]
    /\ UNCHANGED <<now, serverVars, health, sticky, phase, route, call, modelCache, model>>

\* A unit of time is long: what can run runs first, a server that is not hung
\* answers within it, and no timer stays due.
Quiet == \A r \in Requests :
    /\ phase[r] # "routed"
    /\ phase[r] = "checking" =>
         /\ ~ChecksDone(r)
         /\ AtStep(r, "waiting") # {} => AtStep(r, "entering") # {}
         /\ \A a \in AtStep(r, "entering") \cup AtStep(r, "listing") :
               Meets(r, a) = "hung" /\ ~Due(r, a)

Tick ==
    /\ Unfinished
    /\ Quiet
    /\ now < MaxTime
    /\ now' = now + 1
    /\ UNCHANGED <<serverVars, health, sticky, phase, route, call, modelVars, history>>

CheckStep(r, a) ==
    EnterSucceeds(r, a) \/ ListSucceeds(r, a) \/ CallRaises(r, a) \/ CallTimesOut(r, a)

RequestStep(r) ==
    \/ RouteRequest(r) \/ StartChecks(r) \/ EnterNext(r)
    \/ (\E a \in Servers : CheckStep(r, a))
    \/ Connect(r) \/ ResolutionFails(r) \/ Cancel(r)

Next ==
    \/ \E r \in Requests : RequestStep(r)
    \/ \E a \in Servers : ConditionChanges(a)
    \/ Repoint \/ Tick

Spec == Init /\ [][Next]_vars

-----------------------------------------------------------------------------
(* Properties. *)

\* What a request's agent is told of and handed passed this request's own
\* policy, and an OBO agent runs as the user who asks: neither the route that
\* the conversation remembers from another persona nor the server cache that
\* all users share lets one request reach what only another may.
OnlyAllowedIsOffered ==
    \A r \in Requests :
        phase[r] \in {"checking", "running"} =>
            /\ route[r].candidates \cup Exposed(r) \subseteq Allowed[r]
            /\ \A t \in RouteTools(r) :
                  IF t.tool = "delegate" THEN DelegationTargets[r] \subseteq Allowed[r]
                  ELSE /\ t.agent \in Allowed[r]
                       /\ Agents[t.agent].obo => t.client = Asks[r].user

\* An MCP server recorded as unhealthy failed the request that recorded it: a
\* server that answers is never blamed for the time its check waited behind
\* one that hangs.
BlamedForItsOwnFailure ==
    \A a \in Servers : health[a] # None /\ ~health[a].healthy => a \notin history.innocent

\* A planned server is missing from a running request only if a call to it
\* failed in that request, or less than the failure TTL before it.
FaultIsForgotten ==
    \A r \in Requests :
        phase[r] = "running" =>
            \A a \in PlannedServers(r) \ Exposed(r) :
                /\ history.fault[a] # None
                /\ history.fault[a] + FailureTtl > history.received[r]

\* However many servers hang, the connect stage ends: the connects wait for
\* each other, the probes do not.
ConnectIsBounded ==
    \A r \in Requests :
        phase[r] = "checking" =>
            now - history.received[r] <=
                Cardinality(PlannedServers(r)) * ConnectTimeout + ListTimeout

\* A route by memory follows a confident match of its conversation that is no
\* older than the stickiness, and only that match.
RouteIsFresh(r) ==
    route[r] = None /\ route'[r] # None /\ route'[r].reason = "sticky_route" =>
        LET match == history.matched[Asks[r].conversation] IN
        /\ match # None
        /\ now <= match.until
        /\ route'[r].candidates \subseteq match.names

\* The endpoint of a run is that of the latest model version, or of one that was
\* the latest until less than the model TTL ago.
ModelIsFresh(r) ==
    model[r] = None /\ model'[r] # None /\ model'[r] < version =>
        now - history.replaced[model'[r]] < ModelTtl

\* What a request takes from a cache that earlier requests filled is not older
\* than its time to live, however the cache was renewed and used in between.
OnlyFreshIsUsed == [][\A r \in Requests : RouteIsFresh(r) /\ ModelIsFresh(r)]_vars

\* The architecture's claim that an approved handoff has a native tool: a
\* running request whose route holds an approved target is offered it.
HandoffIsOffered ==
    \A r \in Requests :
        phase[r] = "running" /\ DelegationTargets[r] \cap route[r].candidates # {}
            => DelegationTools[r] \subseteq RouteTools(r)
=============================================================================
