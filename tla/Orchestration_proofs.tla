------------------------ MODULE Orchestration_proofs ------------------------
(***************************************************************************)
(* What the connect stage offers, whom it blames and how old the facts are *)
(* that it uses: for any registry, policy, number of requests, servers     *)
(* and times to live.                                                      *)
(***************************************************************************)
EXTENDS Orchestration, FiniteSetTheorems, TLAPS

\* What a request is planned to reach, and what it has begun to connect, its
\* policy allows.
RouteAllowed ==
    \A r \in Requests :
        phase[r] \in {"routed", "checking", "running"} =>
            route[r].candidates \subseteq Allowed[r]
ConnectsAllowed ==
    \A r \in Requests, a \in Servers : call[r][a].step # "idle" => a \in Allowed[r]

\* A route is remembered as it was matched, and nothing else is.
MemoryIsMatch ==
    \A c \in Conversations : sticky[c] # None => sticky[c] = history.matched[c]

\* An entry of the model cache ends within the TTL, counted from now and, once
\* its version is no longer the latest, from the time that version was replaced.
ModelEntry ==
    modelCache # None =>
        /\ modelCache.version <= version
        /\ modelCache.until <= now + ModelTtl
        /\ modelCache.version < version =>
              /\ history.replaced[modelCache.version] \in Nat
              /\ modelCache.until <= history.replaced[modelCache.version] + ModelTtl

OfferInv == RouteAllowed /\ ConnectsAllowed
CacheInv == MemoryIsMatch /\ ModelEntry

\* A server is recorded as unhealthy for the failure TTL after its fault at most.
BlameIsRecent ==
    \A a \in Servers : health[a] # None /\ ~health[a].healthy =>
        /\ history.fault[a] \in Nat
        /\ health[a].until <= history.fault[a] + FailureTtl
NothingIsAhead ==
    /\ \A a \in Servers : history.fault[a] # None => history.fault[a] <= now
    /\ \A r \in Requests : history.received[r] <= now
IdleAtRest ==
    \A r \in Requests : phase[r] \in {"received", "routed", "gone"} =>
        \A a \in Servers : call[r][a].step = "idle"
\* A check that is given up has a fault to show for it.
MissingHasFault ==
    \A r \in Requests, a \in Servers :
        /\ call[r][a].step = "skipped" =>
              /\ history.fault[a] \in Nat
              /\ history.fault[a] + FailureTtl > history.received[r]
        /\ call[r][a].step = "failed" =>
              /\ history.fault[a] \in Nat
              /\ history.fault[a] >= history.received[r]
RunningIsSettled ==
    \A r \in Requests : phase[r] = "running" =>
        \A a \in PlannedServers(r) : call[r][a].step \in Settled

BlameInv == /\ BlamedForItsOwnFailure /\ BlameIsRecent /\ NothingIsAhead
            /\ IdleAtRest /\ MissingHasFault /\ RunningIsSettled

StageInv == TypeOK /\ OfferInv /\ CacheInv /\ BlameInv

----------------------------------------------------------------------------
(* The types *)

LEMMA Numbers ==
    /\ {ConnectTimeout, ListTimeout, HealthTtl, FailureTtl, StickyTtl, ModelTtl} \subseteq Nat
    /\ {MaxTime, MaxChanges, MaxVersion} \subseteq Nat
  BY OrchestrationAssumption

LEMMA AskTypes ==
    ASSUME NEW r \in Requests
    PROVE  /\ Asks[r].conversation \in Conversations \cup {None}
           /\ Allowed[r] \subseteq Agent
           /\ PlannedServers(r) \subseteq Allowed[r] \cap Servers
  BY OrchestrationAssumption DEF RequestInput, Allowed, PlannedServers, BuiltServers

History ==
    [received : [Requests -> Nat],
     matched : [Conversations -> Remembered \cup {None}],
     innocent : SUBSET Servers,
     fault : [Servers -> Nat \cup {None}],
     replaced : [0 .. MaxVersion -> Nat \cup {None}]]

\* The steps of one check.
LEMMA RecordTypes ==
    ASSUME TypeOK, NEW r \in Requests, NEW a \in Servers, NEW step \in Step,
           NEW healthy \in BOOLEAN, NEW ttl \in Nat, Record(r, a, step, healthy, ttl)
    PROVE  /\ call' \in [Requests -> [Servers -> [step : Step, known : BOOLEAN, since : Nat]]]
           /\ health' \in [Servers -> Entry \cup {None}]
           /\ health'[a] = [healthy |-> healthy, until |-> now + ttl]
           /\ \A b \in Servers \ {a} : health'[b] = health[b]
           /\ call'[r][a].step = step
           /\ \A q \in Requests, b \in Servers :
                 q # r \/ b # a => call'[q][b] = call[q][b]
           /\ UNCHANGED <<now, condition, changes, sticky, phase, route, version, modelCache, model>>
<1>1. [healthy |-> healthy, until |-> now + ttl] \in Entry
  BY Numbers DEF TypeOK, Entry
<1>2. call[r][a] \in [step : Step, known : BOOLEAN, since : Nat]
  BY DEF TypeOK
<1>3. /\ [call[r][a] EXCEPT !.step = step] \in [step : Step, known : BOOLEAN, since : Nat]
      /\ [call[r][a] EXCEPT !.step = step].step = step
  BY <1>2
<1>4. call' = [call EXCEPT ![r] = [call[r] EXCEPT ![a] = [call[r][a] EXCEPT !.step = step]]]
  BY DEF Record
<1>5. call' \in [Requests -> [Servers -> [step : Step, known : BOOLEAN, since : Nat]]]
  BY <1>3, <1>4 DEF TypeOK
<1>6. /\ call'[r][a].step = step
      /\ \A q \in Requests, b \in Servers : q # r \/ b # a => call'[q][b] = call[q][b]
  BY <1>3, <1>4 DEF TypeOK
<1>7. /\ health' = [health EXCEPT ![a] = [healthy |-> healthy, until |-> now + ttl]]
      /\ UNCHANGED <<now, condition, changes, sticky, phase, route, version, modelCache, model>>
  BY DEF Record, serverVars, modelVars
<1>8. /\ health' \in [Servers -> Entry \cup {None}]
      /\ health'[a] = [healthy |-> healthy, until |-> now + ttl]
      /\ \A b \in Servers \ {a} : health'[b] = health[b]
  BY <1>1, <1>7 DEF TypeOK
<1> QED
  BY <1>5, <1>6, <1>7, <1>8

\* What any step of a check does: it goes on, or it ends and records, and blames
\* only a server that did not answer it.
Unmoved == UNCHANGED <<now, condition, changes, sticky, phase, route, version, modelCache, model>>

CheckMoves(r, a, step) ==
    /\ call[r][a].step \in {"entering", "listing"} /\ call'[r][a].step = step
    /\ \A q \in Requests, b \in Servers : q # r \/ b # a => call'[q][b] = call[q][b]

GoesOn(r, a) == /\ CheckMoves(r, a, "listing") /\ UNCHANGED <<health, history>>
                /\ call[r][a].step = "entering" /\ call'[r][a].since = now

Ends(r, a, step, healthy, ttl) ==
    /\ CheckMoves(r, a, step)
    /\ health'[a].healthy = healthy /\ health'[a].until = now + ttl
    /\ a \notin history'.innocent
    /\ \A b \in Servers \ {a} : /\ health'[b] = health[b]
                                /\ b \in history'.innocent <=> b \in history.innocent
                                /\ history'.fault[b] = history.fault[b]
    /\ history'.fault[a] = IF healthy THEN history.fault[a] ELSE now
    /\ history'.received = history.received
    /\ history'.matched = history.matched
    /\ history'.replaced = history.replaced

LEMMA AcceptEnds ==
    ASSUME TypeOK, NEW r \in Requests, NEW a \in Servers, Accept(r, a),
           call[r][a].step \in {"entering", "listing"}
    PROVE  Ends(r, a, "exposed", TRUE, HealthTtl) /\ Unmoved /\ TypeOK'
<1>1. /\ Record(r, a, "exposed", TRUE, HealthTtl)
      /\ history' = [history EXCEPT !.innocent = @ \ {a}]
  BY DEF Accept
<1>2. /\ call' \in [Requests -> [Servers -> [step : Step, known : BOOLEAN, since : Nat]]]
      /\ health' \in [Servers -> Entry \cup {None}]
      /\ health'[a] = [healthy |-> TRUE, until |-> now + HealthTtl]
      /\ \A b \in Servers \ {a} : health'[b] = health[b]
      /\ call'[r][a].step = "exposed"
      /\ \A q \in Requests, b \in Servers : q # r \/ b # a => call'[q][b] = call[q][b]
      /\ Unmoved
  BY <1>1, RecordTypes, Numbers DEF Step, Unmoved
<1>3. history \in History
  BY DEF TypeOK, History
<1>4. /\ history' \in History
      /\ history'.innocent = history.innocent \ {a}
      /\ history'.fault = history.fault /\ history'.received = history.received
      /\ history'.matched = history.matched /\ history'.replaced = history.replaced
  BY <1>1, <1>3 DEF History
<1>5. TypeOK'
  BY <1>2, <1>4 DEF TypeOK, History, Unmoved
<1> QED
  BY <1>2, <1>4, <1>5 DEF Ends, CheckMoves

LEMMA RejectEnds ==
    ASSUME TypeOK, NEW r \in Requests, NEW a \in Servers, Reject(r, a),
           call[r][a].step \in {"entering", "listing"}, Meets(r, a) # "up"
    PROVE  Ends(r, a, "failed", FALSE, FailureTtl) /\ Unmoved /\ TypeOK'
<1>1. /\ Record(r, a, "failed", FALSE, FailureTtl)
      /\ history' = [history EXCEPT !.fault[a] = now, !.innocent = @ \ {a}]
  BY DEF Reject
<1>2. /\ call' \in [Requests -> [Servers -> [step : Step, known : BOOLEAN, since : Nat]]]
      /\ health' \in [Servers -> Entry \cup {None}]
      /\ health'[a] = [healthy |-> FALSE, until |-> now + FailureTtl]
      /\ \A b \in Servers \ {a} : health'[b] = health[b]
      /\ call'[r][a].step = "failed"
      /\ \A q \in Requests, b \in Servers : q # r \/ b # a => call'[q][b] = call[q][b]
      /\ Unmoved
  BY <1>1, RecordTypes, Numbers DEF Step, Unmoved
<1>3. history \in History /\ now \in Nat
  BY Numbers DEF TypeOK, History
<1>4. /\ history'.innocent = history.innocent \ {a}
      /\ history'.fault = [history.fault EXCEPT ![a] = now]
      /\ history'.received = history.received
      /\ history'.matched = history.matched /\ history'.replaced = history.replaced
      /\ history' \in History
  BY <1>1, <1>3 DEF History
<1>5. /\ history'.fault[a] = now
      /\ \A b \in Servers \ {a} : history'.fault[b] = history.fault[b]
  BY <1>3, <1>4 DEF History
<1>6. TypeOK'
  BY <1>2, <1>4 DEF TypeOK, History, Unmoved
<1> QED
  BY <1>2, <1>4, <1>5, <1>6 DEF Ends, CheckMoves

\* A check in the queue for the lock has no deadline yet, and a call is only
\* rejected by a server that does not answer it.
LEMMA CheckSteps ==
    ASSUME TypeOK, NEW r \in Requests, NEW a \in Servers, CheckStep(r, a)
    PROVE  /\ Unmoved /\ TypeOK'
           /\ \/ GoesOn(r, a)
              \/ Ends(r, a, "exposed", TRUE, HealthTtl)
              \/ Ends(r, a, "failed", FALSE, FailureTtl)
<1>1. CASE EnterSucceeds(r, a)
  <2>1. CASE call[r][a].known
    BY <1>1, <2>1, AcceptEnds DEF EnterSucceeds
  <2>2. CASE ~call[r][a].known
    <3>1. /\ call' = [call EXCEPT ![r][a].step = "listing", ![r][a].since = now]
          /\ call[r][a].step = "entering"
          /\ UNCHANGED <<health, history>> /\ Unmoved
      BY <1>1, <2>2 DEF EnterSucceeds, serverVars, modelVars, Unmoved
    <3>2. /\ call[r][a] \in [step : Step, known : BOOLEAN, since : Nat]
          /\ now \in Nat
      BY Numbers DEF TypeOK
    <3> DEFINE new == [[call[r][a] EXCEPT !.step = "listing"] EXCEPT !.since = now]
    <3>3. /\ new \in [step : Step, known : BOOLEAN, since : Nat]
          /\ new.step = "listing" /\ new.since = now
      BY <3>2 DEF Step
    <3> DEFINE mid == [call EXCEPT ![r][a].step = "listing"]
    <3>m. /\ DOMAIN mid = Requests /\ mid[r] = [call[r] EXCEPT ![a].step = "listing"]
          /\ mid[r][a] = [call[r][a] EXCEPT !.step = "listing"]
          /\ \A q \in Requests \ {r} : mid[q] = call[q]
          /\ DOMAIN mid[r] = Servers
          /\ \A b \in Servers \ {a} : mid[r][b] = call[r][b]
      BY DEF TypeOK
    <3>n. call' = [mid EXCEPT ![r][a].since = now]
      BY <3>1
    <3> HIDE DEF mid
    <3>4. /\ call' = [q \in Requests |-> IF q = r THEN call'[r] ELSE call[q]]
          /\ call'[r] = [b \in Servers |-> IF b = a THEN new ELSE call[r][b]]
      <4>1. call' = [mid EXCEPT ![r] = [mid[r] EXCEPT ![a] = [mid[r][a] EXCEPT !.since = now]]]
        BY <3>n
      <4>2. call' = [mid EXCEPT ![r] = [mid[r] EXCEPT ![a] = new]]
        BY <4>1, <3>m
      <4> HIDE DEF new
      <4>3. call'[r] = [mid[r] EXCEPT ![a] = new]
        BY <4>2, <3>m
      <4>4. call'[r] = [b \in Servers |-> IF b = a THEN new ELSE call[r][b]]
        BY <4>3, <3>m
      <4>5. call' = [q \in Requests |-> IF q = r THEN call'[r] ELSE call[q]]
        BY <4>2, <3>m
      <4> QED
        BY <4>4, <4>5
    <3> HIDE DEF new
    <3>5. /\ call' \in [Requests -> [Servers -> [step : Step, known : BOOLEAN, since : Nat]]]
          /\ CheckMoves(r, a, "listing") /\ call'[r][a].since = now
      <4> DEFINE Rec == [step : Step, known : BOOLEAN, since : Nat]
      <4>1. call \in [Requests -> [Servers -> Rec]] /\ new \in Rec
        BY <3>3 DEF TypeOK
      <4> HIDE DEF Rec
      <4>2. call'[r] \in [Servers -> Rec]
        BY <3>4, <4>1
      <4>3. call' \in [Requests -> [Servers -> Rec]]
        BY <3>4, <4>1, <4>2
      <4>4. CheckMoves(r, a, "listing") /\ call'[r][a].since = now
        <5>1. call'[r][a] = new /\ \A b \in Servers \ {a} : call'[r][b] = call[r][b]
          BY <3>4
        <5>2. \A q \in Requests \ {r} : call'[q] = call[q]
          BY <3>4
        <5> QED
          BY <3>1, <3>3, <5>1, <5>2 DEF CheckMoves
      <4> QED
        BY <4>3, <4>4 DEF Rec
    <3>6. TypeOK'
      BY <3>1, <3>5 DEF TypeOK, Unmoved
    <3> QED
      BY <3>1, <3>5, <3>6 DEF GoesOn
  <2> QED
    BY <2>1, <2>2
<1>2. CASE ListSucceeds(r, a)
  BY <1>2, AcceptEnds DEF ListSucceeds
<1>3. CASE CallRaises(r, a)
  BY <1>3, RejectEnds DEF CallRaises
<1>4. CASE CallTimesOut(r, a)
  <2>1. /\ now \in Nat /\ MaxTime \in Nat /\ now <= MaxTime
        /\ call[r][a].step \in Step
    BY Numbers DEF TypeOK
  <2>2. call[r][a].step \in {"entering", "listing"}
    BY <1>4, <2>1 DEF CallTimesOut, Due, Deadline
  <2>3. Meets(r, a) = "hung"
    BY <1>4, <2>2 DEF CallTimesOut
  <2> QED
    BY <1>4, <2>2, <2>3, RejectEnds DEF CallTimesOut
<1> QED
  BY <1>1, <1>2, <1>3, <1>4 DEF CheckStep

----------------------------------------------------------------------------
(* One lemma for each kind of step *)

\* What a request may reach does not change while its route does not.
LEMMA SameRoute ==
    /\ \A r : Allowed[r]' = Allowed[r]
    /\ \A r : route'[r] = route[r] => PlannedServers(r)' = PlannedServers(r)
  BY DEF Allowed, PlannedServers, BuiltServers, Servers, PolicyAllows, HasUserIdentity, Agent

LEMMA Idling ==
    Idle \in [step : Step, known : BOOLEAN, since : Nat] /\ Idle.step = "idle"
  BY DEF Idle, Step

LEMMA RouteStep == ASSUME StageInv, NEW r \in Requests, RouteRequest(r) PROVE StageInv'
<1> DEFINE c == Asks[r].conversation
<1>t. TypeOK
  BY DEF StageInv
<1>1. PICK best \in {topic \cap Allowed[r] : topic \in Topics}, confident \in BOOLEAN :
        LET remembered == [names |-> best, until |-> now + StickyTtl]
            matches == best # {} /\ confident
        IN
        /\ route' = [route EXCEPT ![r] =
              IF best = {} THEN StickyOr("ambiguous_fallback", r)
              ELSE IF confident THEN Plan("capability_match", best)
              ELSE StickyOr("low_confidence_fallback", r)]
        /\ sticky' = [x \in Conversations |->
              IF x # c THEN sticky[x]
              ELSE IF matches THEN remembered
              ELSE IF Forgotten(x) THEN None ELSE sticky[x]]
        /\ history' = [history EXCEPT
              !.received[r] = now,
              !.matched = [x \in Conversations |->
                  IF x = c /\ matches THEN remembered ELSE @[x]]]
  BY DEF RouteRequest
<1> DEFINE remembered == [names |-> best, until |-> now + StickyTtl]
<1>2. best \subseteq Allowed[r] /\ Allowed[r] \subseteq Agent /\ now \in Nat
  BY <1>t, AskTypes, Numbers DEF TypeOK
<1>3. remembered \in Remembered
  BY <1>2, Numbers DEF Remembered
<1> HIDE DEF remembered
<1>4. /\ phase[r] = "received" /\ phase' = [phase EXCEPT ![r] = "routed"]
      /\ UNCHANGED <<now, condition, changes, health, call, version, modelCache, model>>
  BY DEF RouteRequest, serverVars, modelVars
<1>5. Recalled(r) \subseteq Allowed[r]
  BY DEF Recalled
<1>6. PICK plan \in [reason : Reason, candidates : SUBSET Allowed[r]] :
        route' = [route EXCEPT ![r] = plan]
  <2>1. \A f \in {"ambiguous_fallback", "low_confidence_fallback"} :
          StickyOr(f, r) \in [reason : Reason, candidates : SUBSET Allowed[r]]
    BY <1>5 DEF StickyOr, Plan, Reason
  <2>2. Plan("capability_match", best) \in [reason : Reason, candidates : SUBSET Allowed[r]]
    BY <1>2 DEF Plan, Reason
  <2> QED
    BY <1>1, <2>1, <2>2
<1>7. /\ plan \in [reason : Reason, candidates : SUBSET Agent]
      /\ plan.candidates \subseteq Allowed[r]
  BY <1>2, <1>6
<1>8. sticky' \in [Conversations -> Remembered \cup {None}]
  BY <1>t, <1>1, <1>3 DEF TypeOK, remembered
<1>9. /\ history' \in History
      /\ history'.received = [history.received EXCEPT ![r] = now]
      /\ history'.matched = [x \in Conversations |->
            IF x = c /\ best # {} /\ confident THEN remembered ELSE history.matched[x]]
      /\ history'.innocent = history.innocent /\ history'.fault = history.fault
      /\ history'.replaced = history.replaced
  <2>1. history \in History
    BY <1>t DEF TypeOK, History
  <2>2. history' = [history EXCEPT
              !.received[r] = now,
              !.matched = [x \in Conversations |->
                  IF x = c /\ best # {} /\ confident THEN remembered ELSE history.matched[x]]]
    BY <1>1 DEF remembered
  <2> QED
    BY <1>2, <1>3, <2>1, <2>2 DEF History
<1>10. TypeOK'
  <2>1. route' \in [Requests -> [reason : Reason, candidates : SUBSET Agent] \cup {None}]
    BY <1>t, <1>6, <1>7 DEF TypeOK
  <2>2. phase' \in [Requests -> {"received", "routed", "checking", "running", "gone"}]
    BY <1>t, <1>4 DEF TypeOK
  <2> QED
    BY <1>t, <1>4, <1>8, <1>9, <2>1, <2>2 DEF TypeOK, History
<1>11. OfferInv'
  <2>1. RouteAllowed'
    BY <1>t, <1>4, <1>6, <1>7, SameRoute DEF StageInv, OfferInv, RouteAllowed, TypeOK
  <2>2. ConnectsAllowed'
    BY <1>4, SameRoute DEF StageInv, OfferInv, ConnectsAllowed
  <2> QED
    BY <2>1, <2>2 DEF OfferInv
<1>12. CacheInv'
  <2>1. MemoryIsMatch'
    BY <1>1, <1>9 DEF StageInv, CacheInv, MemoryIsMatch, remembered
  <2>2. ModelEntry'
    BY <1>4, <1>9 DEF StageInv, CacheInv, ModelEntry
  <2> QED
    BY <2>1, <2>2 DEF CacheInv
<1>13. BlameInv'
  <2>1. \A a \in Servers : call[r][a].step = "idle"
    BY <1>4 DEF StageInv, BlameInv, IdleAtRest
  <2>2. history'.received[r] = now /\ \A q \in Requests \ {r} : history'.received[q] = history.received[q]
    BY <1>t, <1>9 DEF TypeOK
  <2>3. BlamedForItsOwnFailure' /\ BlameIsRecent' /\ NothingIsAhead'
    BY <1>2, <1>4, <1>9, <2>2
       DEF StageInv, BlameInv, BlamedForItsOwnFailure, BlameIsRecent, NothingIsAhead
  <2>4. MissingHasFault'
    BY <1>4, <1>9, <2>1, <2>2 DEF StageInv, BlameInv, MissingHasFault
  <2>5. IdleAtRest'
    BY <1>t, <1>4, <2>1 DEF StageInv, BlameInv, IdleAtRest, TypeOK
  <2>6. RunningIsSettled'
    BY <1>t, <1>4, <1>6, SameRoute DEF StageInv, BlameInv, RunningIsSettled, TypeOK
  <2> QED
    BY <2>3, <2>4, <2>5, <2>6 DEF BlameInv
<1> QED
  BY <1>10, <1>11, <1>12, <1>13 DEF StageInv

LEMMA StartStep == ASSUME StageInv, NEW r \in Requests, StartChecks(r) PROVE StageInv'
<1>t. TypeOK
  BY DEF StageInv
<1>1. /\ phase[r] = "routed" /\ phase' = [phase EXCEPT ![r] = "checking"]
      /\ health' = [a \in Servers |->
            IF a \in PlannedServers(r) /\ ~Fresh(a) THEN None ELSE health[a]]
      /\ call' = [call EXCEPT ![r] = [a \in Servers |->
            IF a \notin PlannedServers(r) THEN Idle
            ELSE IF Fresh(a) /\ ~health[a].healthy THEN [Idle EXCEPT !.step = "skipped"]
            ELSE [step |-> "waiting", known |-> Fresh(a), since |-> now]]]
      /\ UNCHANGED <<now, condition, changes, sticky, route, version, modelCache, model, history>>
  BY DEF StartChecks, serverVars, modelVars
<1>2. now \in Nat /\ PlannedServers(r) \subseteq Allowed[r] \cap Servers
  BY <1>t, AskTypes, Numbers DEF TypeOK
<1>3. call' \in [Requests -> [Servers -> [step : Step, known : BOOLEAN, since : Nat]]]
  <2>1. [Idle EXCEPT !.step = "skipped"] \in [step : Step, known : BOOLEAN, since : Nat]
    BY DEF Idle, Step
  <2>2. \A a : [step |-> "waiting", known |-> Fresh(a), since |-> now]
                  \in [step : Step, known : BOOLEAN, since : Nat]
    BY <1>2 DEF Step, Fresh
  <2>3. [a \in Servers |->
            IF a \notin PlannedServers(r) THEN Idle
            ELSE IF Fresh(a) /\ ~health[a].healthy THEN [Idle EXCEPT !.step = "skipped"]
            ELSE [step |-> "waiting", known |-> Fresh(a), since |-> now]]
          \in [Servers -> [step : Step, known : BOOLEAN, since : Nat]]
    BY <2>1, <2>2, Idling
  <2> QED
    BY <1>t, <1>1, <2>3 DEF TypeOK
<1>4. \A a \in Servers :
        /\ call'[r][a].step \in {"idle", "skipped", "waiting"}
        /\ call'[r][a].step # "idle" => a \in PlannedServers(r)
        /\ call'[r][a].step = "skipped" => Fresh(a) /\ ~health[a].healthy
        /\ \A q \in Requests \ {r} : call'[q] = call[q]
  BY <1>t, <1>1 DEF TypeOK, Idle
<1>5. \A a \in Servers : health'[a] = health[a] \/ health'[a] = None
  BY <1>1
<1>6. TypeOK'
  <2>1. health' \in [Servers -> Entry \cup {None}]
    BY <1>t, <1>1 DEF TypeOK
  <2>2. phase' \in [Requests -> {"received", "routed", "checking", "running", "gone"}]
    BY <1>t, <1>1 DEF TypeOK
  <2> QED
    BY <1>t, <1>1, <1>3, <2>1, <2>2 DEF TypeOK
<1>7. OfferInv'
  <2>1. RouteAllowed'
    BY <1>t, <1>1, SameRoute DEF StageInv, OfferInv, RouteAllowed, TypeOK
  <2>2. ConnectsAllowed'
    BY <1>2, <1>4, SameRoute DEF StageInv, OfferInv, ConnectsAllowed
  <2> QED
    BY <2>1, <2>2 DEF OfferInv
<1>8. CacheInv'
  BY <1>1 DEF StageInv, CacheInv, MemoryIsMatch, ModelEntry
<1>9. BlameInv'
  <2>1. BlamedForItsOwnFailure' /\ BlameIsRecent' /\ NothingIsAhead'
    BY <1>1, <1>5
       DEF StageInv, BlameInv, BlamedForItsOwnFailure, BlameIsRecent, NothingIsAhead
  <2>2. MissingHasFault'
    <3>1. ASSUME NEW a \in Servers, call'[r][a].step = "skipped"
          PROVE  /\ history.fault[a] \in Nat
                 /\ history.fault[a] + FailureTtl > history.received[r]
      <4>1. health[a] # None /\ ~health[a].healthy /\ health[a].until > now
        BY <1>4, <3>1 DEF Fresh
      <4>2. history.fault[a] \in Nat /\ health[a].until <= history.fault[a] + FailureTtl
        BY <4>1 DEF StageInv, BlameInv, BlameIsRecent
      <4>3. history.received[r] <= now
        BY DEF StageInv, BlameInv, NothingIsAhead
      <4>4. health[a].until \in Nat /\ history.received[r] \in Nat
        BY <1>t, <4>1 DEF TypeOK, Entry
      <4> QED
        BY <1>2, <4>1, <4>2, <4>3, <4>4, Numbers
    <3> QED
      BY <1>1, <1>4, <3>1 DEF StageInv, BlameInv, MissingHasFault
  <2>3. IdleAtRest'
    BY <1>t, <1>1, <1>4 DEF StageInv, BlameInv, IdleAtRest, TypeOK
  <2>4. RunningIsSettled'
    BY <1>t, <1>1, <1>4, SameRoute DEF StageInv, BlameInv, RunningIsSettled, TypeOK
  <2> QED
    BY <2>1, <2>2, <2>3, <2>4 DEF BlameInv
<1> QED
  BY <1>6, <1>7, <1>8, <1>9 DEF StageInv

\* Only one check moves, from "waiting" to "entering".
LEMMA EnterStep == ASSUME StageInv, NEW r \in Requests, EnterNext(r) PROVE StageInv'
<1>t. TypeOK
  BY DEF StageInv
<1>1. PICK a \in AtStep(r, "waiting") :
        call' = [call EXCEPT ![r][a] = [@ EXCEPT !.step = "entering", !.since = now]]
  BY DEF EnterNext
<1>2. UNCHANGED <<now, condition, changes, health, sticky, phase, route, version,
                  modelCache, model, history>>
  BY DEF EnterNext, serverVars, modelVars
<1> DEFINE entered == [call[r][a] EXCEPT !.step = "entering", !.since = now]
           Rec == [step : Step, known : BOOLEAN, since : Nat]
<1>3. a \in Servers /\ call[r][a].step = "waiting"
  BY DEF AtStep
<1>4. entered \in Rec /\ entered.step = "entering"
  <2>1. call[r][a] \in Rec /\ now \in Nat
    BY <1>t, <1>3, Numbers DEF TypeOK
  <2> QED
    BY <2>1 DEF Step
<1>5. call' = [call EXCEPT ![r] = [call[r] EXCEPT ![a] = entered]]
  BY <1>1
<1>6. call \in [Requests -> [Servers -> Rec]]
  BY <1>t DEF TypeOK
<1> HIDE DEF entered, Rec
<1>7. /\ call' \in [Requests -> [Servers -> Rec]]
      /\ call'[r][a].step = "entering"
      /\ \A q \in Requests, b \in Servers : q # r \/ b # a => call'[q][b] = call[q][b]
  BY <1>3, <1>4, <1>5, <1>6
<1>8. TypeOK'
  BY <1>t, <1>2, <1>7 DEF TypeOK, Rec
<1>9. OfferInv'
  BY <1>2, <1>3, <1>7, SameRoute DEF StageInv, OfferInv, RouteAllowed, ConnectsAllowed
<1>10. CacheInv'
  BY <1>2 DEF StageInv, CacheInv, MemoryIsMatch, ModelEntry
<1>11. BlamedForItsOwnFailure' /\ BlameIsRecent' /\ NothingIsAhead'
  BY <1>2 DEF StageInv, BlameInv, BlamedForItsOwnFailure, BlameIsRecent, NothingIsAhead
<1>12. MissingHasFault' /\ IdleAtRest'
  BY <1>2, <1>3, <1>7 DEF StageInv, BlameInv, MissingHasFault, IdleAtRest
<1>13. RunningIsSettled'
  BY <1>2, <1>3, <1>7, SameRoute, AskTypes DEF StageInv, BlameInv, RunningIsSettled, Settled
<1> QED
  BY <1>8, <1>9, <1>10, <1>11, <1>12, <1>13 DEF StageInv, BlameInv

LEMMA CheckStepKeeps ==
    ASSUME StageInv, NEW r \in Requests, NEW a \in Servers, CheckStep(r, a)
    PROVE  StageInv'
<1>t. TypeOK
  BY DEF StageInv
<1>1. /\ Unmoved /\ TypeOK'
      /\ \/ GoesOn(r, a)
         \/ Ends(r, a, "exposed", TRUE, HealthTtl)
         \/ Ends(r, a, "failed", FALSE, FailureTtl)
  BY <1>t, CheckSteps
<1>2. PICK step \in {"listing", "exposed", "failed"} : CheckMoves(r, a, step)
  BY <1>1 DEF GoesOn, Ends
<1>3. UNCHANGED <<now, sticky, phase, route, version, modelCache, model>>
  BY <1>1 DEF Unmoved
<1>4. history'.received = history.received /\ history'.matched = history.matched
      /\ history'.replaced = history.replaced
  BY <1>1 DEF GoesOn, Ends
<1>5. OfferInv'
  BY <1>2, <1>3, SameRoute DEF StageInv, OfferInv, RouteAllowed, ConnectsAllowed, CheckMoves
<1>6. CacheInv'
  BY <1>3, <1>4 DEF StageInv, CacheInv, MemoryIsMatch, ModelEntry
<1>7. IdleAtRest'
  BY <1>2, <1>3 DEF StageInv, BlameInv, IdleAtRest, CheckMoves
<1>8. RunningIsSettled'
  BY <1>2, <1>3, SameRoute, AskTypes
     DEF StageInv, BlameInv, RunningIsSettled, CheckMoves, Settled
<1>9. now \in Nat /\ history \in History
  BY <1>t, Numbers DEF TypeOK, History
<1>10. BlamedForItsOwnFailure' /\ BlameIsRecent' /\ NothingIsAhead' /\ MissingHasFault'
  <2>1. CASE GoesOn(r, a)
    BY <1>3, <2>1
       DEF StageInv, BlameInv, BlamedForItsOwnFailure, BlameIsRecent, NothingIsAhead,
           MissingHasFault, GoesOn, CheckMoves
  <2>2. CASE Ends(r, a, "exposed", TRUE, HealthTtl)
    <3>1. history'.fault[a] = history.fault[a]
      BY <2>2 DEF Ends
    <3> QED
      BY <1>3, <1>4, <2>2, <3>1
         DEF StageInv, BlameInv, BlamedForItsOwnFailure, BlameIsRecent, NothingIsAhead,
             MissingHasFault, Ends, CheckMoves
  <2>3. CASE Ends(r, a, "failed", FALSE, FailureTtl)
    <3>1. /\ history'.fault[a] = now
          /\ \A b \in Servers \ {a} : history'.fault[b] = history.fault[b]
          /\ health'[a].until = now + FailureTtl
      BY <2>3 DEF Ends
    <3>2. \A q \in Requests : history.received[q] <= now /\ history.received[q] \in Nat
      BY <1>9 DEF StageInv, BlameInv, NothingIsAhead, History
    <3>3. BlamedForItsOwnFailure'
      BY <2>3 DEF StageInv, BlameInv, BlamedForItsOwnFailure, Ends
    <3>4. BlameIsRecent'
      BY <1>9, <2>3, <3>1, Numbers DEF StageInv, BlameInv, BlameIsRecent, Ends
    <3>5. NothingIsAhead'
      BY <1>3, <1>4, <1>9, <3>1 DEF StageInv, BlameInv, NothingIsAhead
    <3>6. MissingHasFault'
      <4> SUFFICES ASSUME NEW q \in Requests, NEW b \in Servers
                   PROVE  /\ call'[q][b].step = "skipped" =>
                              /\ history'.fault[b] \in Nat
                              /\ history'.fault[b] + FailureTtl > history'.received[q]
                          /\ call'[q][b].step = "failed" =>
                              /\ history'.fault[b] \in Nat
                              /\ history'.fault[b] >= history'.received[q]
        BY DEF MissingHasFault
      <4>1. /\ call[q][b].step = "skipped" =>
                /\ history.fault[b] \in Nat
                /\ history.fault[b] + FailureTtl > history.received[q]
            /\ call[q][b].step = "failed" =>
                /\ history.fault[b] \in Nat
                /\ history.fault[b] >= history.received[q]
        BY DEF StageInv, BlameInv, MissingHasFault
      <4>2. CASE b # a
        BY <1>4, <2>3, <3>1, <4>1, <4>2 DEF Ends, CheckMoves
      <4>3. CASE b = a /\ q = r
        BY <1>4, <1>9, <2>3, <3>1, <3>2, <4>3 DEF Ends, CheckMoves
      <4>4. CASE b = a /\ q # r
        <5>1. call'[q][b] = call[q][b]
          BY <2>3, <4>4 DEF Ends, CheckMoves
        <5>2. history.fault[a] \in Nat => history.fault[a] <= now
          BY OrchestrationAssumption DEF StageInv, BlameInv, NothingIsAhead
        <5>3. call[q][b].step = "skipped" => now + FailureTtl > history.received[q]
          <6>1. ASSUME history.fault[a] \in Nat,
                       history.fault[a] + FailureTtl > history.received[q],
                       history.fault[a] <= now
                PROVE  now + FailureTtl > history.received[q]
            BY <1>9, <3>2, <6>1, Numbers
          <6> QED
            BY <4>1, <4>4, <5>2, <6>1
        <5> QED
          BY <1>4, <1>9, <3>1, <3>2, <4>4, <5>1, <5>3
      <4> QED
        BY <4>2, <4>3, <4>4
    <3> QED
      BY <3>3, <3>4, <3>5, <3>6
  <2> QED
    BY <1>1, <2>1, <2>2, <2>3
<1> QED
  BY <1>1, <1>5, <1>6, <1>7, <1>8, <1>10 DEF StageInv, BlameInv

LEMMA ConnectStep == ASSUME StageInv, NEW r \in Requests, Connect(r) PROVE StageInv'
<1>t. TypeOK
  BY DEF StageInv
<1>1. /\ phase[r] = "checking" /\ phase' = [phase EXCEPT ![r] = "running"]
      /\ \A a \in PlannedServers(r) : call[r][a].step \in Settled
      /\ model' = [model EXCEPT ![r] = modelCache'.version]
      /\ UNCHANGED <<now, condition, changes, health, sticky, route, call, version, history>>
  BY DEF Connect, ChecksDone, serverVars
<1>2. \/ modelCache' = modelCache /\ modelCache # None
      \/ modelCache' = [version |-> version, until |-> now + ModelTtl]
  BY DEF Connect, ModelCached
<1>3. now \in Nat /\ version \in 0 .. MaxVersion
  BY <1>t, Numbers DEF TypeOK
<1>4. TypeOK'
  <2>1. modelCache' \in [version : 0 .. MaxVersion, until : Nat]
    <3>1. now + ModelTtl \in Nat
      BY <1>3, Numbers
    <3>2. modelCache \in [version : 0 .. MaxVersion, until : Nat] \cup {None}
      BY <1>t DEF TypeOK
    <3> QED
      BY <1>2, <1>3, <3>1, <3>2
  <2>2. model' \in [Requests -> (0 .. MaxVersion) \cup {None}]
    BY <1>t, <1>1, <2>1 DEF TypeOK
  <2>3. phase' \in [Requests -> {"received", "routed", "checking", "running", "gone"}]
    BY <1>t, <1>1 DEF TypeOK
  <2> QED
    BY <1>t, <1>1, <2>1, <2>2, <2>3 DEF TypeOK
<1>5. OfferInv'
  BY <1>t, <1>1, SameRoute DEF StageInv, OfferInv, RouteAllowed, ConnectsAllowed, TypeOK
<1>6. CacheInv'
  <2>1. MemoryIsMatch'
    BY <1>1 DEF StageInv, CacheInv, MemoryIsMatch
  <2>2. ModelEntry'
    BY <1>1, <1>2, <1>3, Numbers DEF StageInv, CacheInv, ModelEntry
  <2> QED
    BY <2>1, <2>2 DEF CacheInv
<1>7. BlamedForItsOwnFailure' /\ BlameIsRecent' /\ NothingIsAhead' /\ MissingHasFault'
  BY <1>1 DEF StageInv, BlameInv, BlamedForItsOwnFailure, BlameIsRecent, NothingIsAhead,
              MissingHasFault
<1>8. IdleAtRest' /\ RunningIsSettled'
  BY <1>t, <1>1, SameRoute DEF StageInv, BlameInv, IdleAtRest, RunningIsSettled, TypeOK
<1> QED
  BY <1>4, <1>5, <1>6, <1>7, <1>8 DEF StageInv, BlameInv

LEMMA LeavingStep ==
    ASSUME StageInv, NEW r \in Requests, ResolutionFails(r) \/ Cancel(r) PROVE StageInv'
<1>t. TypeOK
  BY DEF StageInv
<1>1. /\ Leaves(r) /\ modelCache' \in {None, modelCache}
      /\ UNCHANGED <<now, condition, changes, health, sticky, version, model, history>>
  BY DEF ResolutionFails, Cancel, serverVars, modelVars
<1>2. /\ phase' = [phase EXCEPT ![r] = "gone"] /\ route' = [route EXCEPT ![r] = None]
      /\ call' = [call EXCEPT ![r] = [a \in Servers |-> Idle]]
  BY <1>1 DEF Leaves
<1>3. /\ \A a \in Servers : call'[r][a].step = "idle"
      /\ \A q \in Requests \ {r} : /\ call'[q] = call[q] /\ route'[q] = route[q]
                                   /\ phase'[q] = phase[q]
      /\ phase'[r] = "gone"
  BY <1>t, <1>2, Idling DEF TypeOK
<1>4. TypeOK'
  <2>1. call' \in [Requests -> [Servers -> [step : Step, known : BOOLEAN, since : Nat]]]
    <3>1. [a \in Servers |-> Idle] \in [Servers -> [step : Step, known : BOOLEAN, since : Nat]]
      BY Idling
    <3> QED
      BY <1>t, <1>2, <3>1 DEF TypeOK
  <2>2. /\ phase' \in [Requests -> {"received", "routed", "checking", "running", "gone"}]
        /\ route' \in [Requests -> [reason : Reason, candidates : SUBSET Agent] \cup {None}]
        /\ modelCache' \in [version : 0 .. MaxVersion, until : Nat] \cup {None}
    BY <1>t, <1>1, <1>2 DEF TypeOK
  <2> QED
    BY <1>t, <1>1, <2>1, <2>2 DEF TypeOK
<1>5. OfferInv'
  <2>1. RouteAllowed'
    BY <1>3, SameRoute DEF StageInv, OfferInv, RouteAllowed
  <2>2. ConnectsAllowed'
    BY <1>3, SameRoute DEF StageInv, OfferInv, ConnectsAllowed
  <2> QED
    BY <2>1, <2>2 DEF OfferInv
<1>6. CacheInv'
  BY <1>1 DEF StageInv, CacheInv, MemoryIsMatch, ModelEntry
<1>7. BlamedForItsOwnFailure' /\ BlameIsRecent' /\ NothingIsAhead'
  BY <1>1 DEF StageInv, BlameInv, BlamedForItsOwnFailure, BlameIsRecent, NothingIsAhead
<1>8. MissingHasFault' /\ IdleAtRest'
  BY <1>1, <1>3 DEF StageInv, BlameInv, MissingHasFault, IdleAtRest
<1>9. RunningIsSettled'
  BY <1>3, SameRoute DEF StageInv, BlameInv, RunningIsSettled
<1> QED
  BY <1>4, <1>5, <1>6, <1>7, <1>8, <1>9 DEF StageInv, BlameInv

LEMMA EnvironmentStep ==
    ASSUME StageInv, (\E a \in Servers : ConditionChanges(a)) \/ Repoint \/ Tick
    PROVE  StageInv'
<1>t. TypeOK /\ now \in Nat /\ version \in Nat
  <2>1. TypeOK
    BY DEF StageInv
  <2>2. now \in 0 .. MaxTime /\ version \in 0 .. MaxVersion
    BY <2>1 DEF TypeOK
  <2> QED
    BY <2>1, <2>2, Numbers
<1>h. history \in History
  BY <1>t DEF TypeOK, History
<1>1. UNCHANGED <<health, sticky, phase, route, call, modelCache, model>>
  BY DEF ConditionChanges, Repoint, Tick, modelVars
<1>2. now' \in {now, now + 1} /\ now' \in 0 .. MaxTime
  BY <1>t, Numbers DEF ConditionChanges, Repoint, Tick, TypeOK
<1>3. \/ version' = version /\ history' = history
      \/ /\ version' = version + 1 /\ version < MaxVersion /\ now' = now
         /\ history' = [history EXCEPT !.replaced[version] = now]
  BY DEF ConditionChanges, Repoint, Tick, modelVars
<1>4. /\ history' \in History
      /\ history'.received = history.received /\ history'.matched = history.matched
      /\ history'.innocent = history.innocent /\ history'.fault = history.fault
      /\ \A v \in 0 .. MaxVersion : v # version => history'.replaced[v] = history.replaced[v]
      /\ version' = version + 1 => history'.replaced[version] = now
  <2>1. CASE version' = version /\ history' = history
    BY <1>h, <1>t, <2>1
  <2>2. CASE /\ version' = version + 1 /\ version < MaxVersion
             /\ history' = [history EXCEPT !.replaced[version] = now]
    <3>1. version \in 0 .. MaxVersion
      BY <1>t DEF TypeOK
    <3> QED
      BY <1>h, <1>t, <2>2, <3>1 DEF History
  <2> QED
    BY <1>3, <2>1, <2>2
<1>5. TypeOK'
  <2>1. condition' \in [Servers -> Condition] /\ changes' \in 0 .. MaxChanges
    <3>1. CASE \E a \in Servers : ConditionChanges(a)
      BY <1>t, <3>1, Numbers DEF ConditionChanges, TypeOK
    <3>2. CASE Repoint \/ Tick
      BY <1>t, <3>2 DEF Repoint, Tick, serverVars, TypeOK
    <3> QED
      BY <3>1, <3>2
  <2>2. version' \in 0 .. MaxVersion
    BY <1>t, <1>3, Numbers DEF TypeOK
  <2> QED
    BY <1>t, <1>1, <1>2, <1>4, <2>1, <2>2 DEF TypeOK, History
<1>6. OfferInv'
  BY <1>1, SameRoute DEF StageInv, OfferInv, RouteAllowed, ConnectsAllowed
<1>7. MemoryIsMatch'
  BY <1>1, <1>4 DEF StageInv, CacheInv, MemoryIsMatch
<1>8. ModelEntry'
  <2> SUFFICES ASSUME modelCache # None
               PROVE  /\ modelCache.version <= version'
                      /\ modelCache.until <= now' + ModelTtl
                      /\ modelCache.version < version' =>
                            /\ history'.replaced[modelCache.version] \in Nat
                            /\ modelCache.until <= history'.replaced[modelCache.version] + ModelTtl
    BY <1>1 DEF ModelEntry
  <2>1. /\ modelCache.version <= version /\ modelCache.until <= now + ModelTtl
        /\ modelCache.version < version =>
              /\ history.replaced[modelCache.version] \in Nat
              /\ modelCache.until <= history.replaced[modelCache.version] + ModelTtl
    BY DEF StageInv, CacheInv, ModelEntry
  <2>2. modelCache.version \in 0 .. MaxVersion /\ modelCache.until \in Nat /\ ModelTtl \in Nat
    BY <1>t, Numbers DEF TypeOK
  <2>3. modelCache.version <= version' /\ modelCache.until <= now' + ModelTtl
    BY <1>t, <1>2, <1>3, <2>1, <2>2
  <2>4. CASE modelCache.version = version
    BY <1>t, <1>3, <1>4, <2>1, <2>3, <2>4
  <2>5. CASE modelCache.version # version
    <3>1. modelCache.version < version
      BY <1>t, <2>1, <2>2, <2>5
    <3>2. history'.replaced[modelCache.version] = history.replaced[modelCache.version]
      BY <1>4, <2>2, <2>5
    <3> QED
      BY <2>1, <2>3, <3>1, <3>2
  <2> QED
    BY <2>4, <2>5
<1>9. BlamedForItsOwnFailure' /\ BlameIsRecent'
  BY <1>1, <1>4 DEF StageInv, BlameInv, BlamedForItsOwnFailure, BlameIsRecent
<1>10. NothingIsAhead'
  <2>1. \A a \in Servers : history.fault[a] \in Nat \cup {None}
    BY <1>h DEF History
  <2>2. \A r \in Requests : history.received[r] \in Nat
    BY <1>h DEF History
  <2> QED
    BY <1>t, <1>2, <1>4, <2>1, <2>2 DEF StageInv, BlameInv, NothingIsAhead
<1>11. MissingHasFault' /\ IdleAtRest'
  BY <1>1, <1>4 DEF StageInv, BlameInv, MissingHasFault, IdleAtRest
<1>12. RunningIsSettled'
  BY <1>1, SameRoute DEF StageInv, BlameInv, RunningIsSettled
<1> QED
  BY <1>5, <1>6, <1>7, <1>8, <1>9, <1>10, <1>11, <1>12 DEF StageInv, CacheInv, BlameInv

----------------------------------------------------------------------------
(* The invariant and what follows *)

LEMMA StageInvInitially == Init => StageInv
<1> SUFFICES ASSUME Init PROVE StageInv
  OBVIOUS
<1>1. \A r \in Requests, a \in Servers : call[r][a] = Idle
  BY DEF Init
<1>2. history \in History
  BY DEF Init, History
<1>3. TypeOK
  <2>1. call \in [Requests -> [Servers -> [step : Step, known : BOOLEAN, since : Nat]]]
    BY Idling DEF Init
  <2>2. condition \in [Servers -> Condition]
    BY OrchestrationAssumption DEF Init
  <2> QED
    BY <1>2, <2>1, <2>2, Numbers DEF Init, TypeOK, History
<1>4. OfferInv
  BY <1>1, Idling DEF Init, OfferInv, RouteAllowed, ConnectsAllowed
<1>5. CacheInv
  BY DEF Init, CacheInv, MemoryIsMatch, ModelEntry
<1>6. BlamedForItsOwnFailure /\ BlameIsRecent /\ NothingIsAhead
  BY DEF Init, BlamedForItsOwnFailure, BlameIsRecent, NothingIsAhead
<1>7. IdleAtRest /\ MissingHasFault /\ RunningIsSettled
  BY <1>1, Idling DEF Init, IdleAtRest, MissingHasFault, RunningIsSettled
<1> QED
  BY <1>3, <1>4, <1>5, <1>6, <1>7 DEF StageInv, BlameInv

LEMMA StageInvPreserved == StageInv /\ [Next]_vars => StageInv'
<1> SUFFICES ASSUME StageInv, [Next]_vars PROVE StageInv'
  OBVIOUS
<1>1. ASSUME NEW r \in Requests, RequestStep(r) PROVE StageInv'
  <2>1. CASE RouteRequest(r)
    BY <2>1, RouteStep
  <2>2. CASE StartChecks(r)
    BY <2>2, StartStep
  <2>3. CASE EnterNext(r)
    BY <2>3, EnterStep
  <2>4. CASE \E a \in Servers : CheckStep(r, a)
    BY <2>4, CheckStepKeeps
  <2>5. CASE Connect(r)
    BY <2>5, ConnectStep
  <2>6. CASE ResolutionFails(r) \/ Cancel(r)
    BY <2>6, LeavingStep
  <2> QED
    BY <1>1, <2>1, <2>2, <2>3, <2>4, <2>5, <2>6 DEF RequestStep
<1>2. CASE (\E a \in Servers : ConditionChanges(a)) \/ Repoint \/ Tick
  BY <1>2, EnvironmentStep
<1>3. CASE UNCHANGED vars
  <2>1. UNCHANGED <<now, condition, changes, health, sticky, phase, route, call, version,
                    modelCache, model, history>>
    BY <1>3 DEF vars, serverVars, modelVars
  <2>2. TypeOK' /\ OfferInv' /\ CacheInv'
    BY <2>1, SameRoute DEF StageInv, TypeOK, OfferInv, RouteAllowed, ConnectsAllowed, CacheInv,
                           MemoryIsMatch, ModelEntry
  <2>3. BlameInv'
    BY <2>1, SameRoute DEF StageInv, BlameInv, BlamedForItsOwnFailure, BlameIsRecent,
                           NothingIsAhead, IdleAtRest, MissingHasFault, RunningIsSettled
  <2> QED
    BY <2>2, <2>3 DEF StageInv
<1> QED
  BY <1>1, <1>2, <1>3 DEF Next

LEMMA StageInvHolds == Spec => []StageInv
  BY StageInvInitially, StageInvPreserved, PTL DEF Spec

\* A request is offered only what its own policy allows, as the user who asks,
\* whatever the conversation and the server cache remember of others
\* (policy.py, routing.py, agent.py: build_* and connect_healthy_mcp_servers).
THEOREM OnlyAllowedTools == Spec => []OnlyAllowedIsOffered
<1>1. StageInv => OnlyAllowedIsOffered
  <2> SUFFICES ASSUME StageInv, NEW r \in Requests, phase[r] \in {"checking", "running"}
               PROVE  /\ route[r].candidates \cup Exposed(r) \subseteq Allowed[r]
                      /\ \A t \in RouteTools(r) :
                            IF t.tool = "delegate" THEN DelegationTargets[r] \subseteq Allowed[r]
                            ELSE /\ t.agent \in Allowed[r]
                                 /\ Agents[t.agent].obo => t.client = Asks[r].user
    BY DEF OnlyAllowedIsOffered
  <2>1. route[r].candidates \subseteq Allowed[r]
    BY DEF StageInv, OfferInv, RouteAllowed
  <2>2. Exposed(r) \subseteq Allowed[r]
    BY DEF StageInv, OfferInv, ConnectsAllowed, Exposed
  <2>3. ASSUME NEW t \in RouteTools(r)
        PROVE  IF t.tool = "delegate" THEN DelegationTargets[r] \subseteq Allowed[r]
               ELSE /\ t.agent \in Allowed[r]
                    /\ Agents[t.agent].obo => t.client = Asks[r].user
    <3>1. t \in QueryTools[r] \/ t \in DelegationTools[r]
      BY DEF RouteTools, BuiltTools
    <3>2. CASE t \in QueryTools[r]
      BY <3>2 DEF QueryTools, ClientFor
    <3>3. CASE t \in DelegationTools[r]
      BY <3>3 DEF DelegationTools, DelegationTargets, Executors
    <3> QED
      BY <3>1, <3>2, <3>3
  <2> QED
    BY <2>1, <2>2, <2>3
<1> QED
  BY <1>1, StageInvHolds, PTL

\* A server is recorded as unhealthy only for what it did itself, however the
\* checks of all requests queue for one lock (agent.py: _check_and_connect).
THEOREM BlameIsJust == Spec => []BlamedForItsOwnFailure
<1>1. StageInv => BlamedForItsOwnFailure
  BY DEF StageInv, BlameInv
<1> QED
  BY <1>1, StageInvHolds, PTL

\* No server stays away from a request for a fault older than the failure TTL.
THEOREM FaultsAreForgotten ==
    ASSUME FailureTtl # 0 PROVE Spec => []FaultIsForgotten
<1>1. StageInv => FaultIsForgotten
  <2> SUFFICES ASSUME StageInv, NEW r \in Requests, phase[r] = "running",
                      NEW a \in PlannedServers(r) \ Exposed(r)
               PROVE  /\ history.fault[a] # None
                      /\ history.fault[a] + FailureTtl > history.received[r]
    BY DEF FaultIsForgotten
  <2>1. a \in Servers /\ call[r][a].step \in {"skipped", "failed"}
    BY AskTypes DEF StageInv, BlameInv, RunningIsSettled, Settled, Exposed
  <2>2. \/ /\ history.fault[a] \in Nat
           /\ history.fault[a] + FailureTtl > history.received[r]
        \/ history.fault[a] \in Nat /\ history.fault[a] >= history.received[r]
    BY <2>1 DEF StageInv, BlameInv, MissingHasFault
  <2>3. history.received[r] \in Nat /\ FailureTtl \in Nat \ {0}
    BY Numbers DEF StageInv, TypeOK
  <2> QED
    BY <2>2, <2>3, OrchestrationAssumption
<1> QED
  BY <1>1, StageInvHolds, PTL

\* Only two actions give a request a route or a model.
LEMMA WhoSets ==
    ASSUME StageInv, Next, NEW r \in Requests
    PROVE  /\ route'[r] \in {route[r], None} \/ RouteRequest(r)
           /\ model'[r] = model[r] \/ Connect(r)
<1>t. TypeOK
  BY DEF StageInv
<1>1. ASSUME NEW q \in Requests, RequestStep(q)
      PROVE  /\ route'[r] \in {route[r], None} \/ RouteRequest(r)
             /\ model'[r] = model[r] \/ Connect(r)
  <2>1. CASE RouteRequest(q)
    <3>1. \E plan : route' = [route EXCEPT ![q] = plan]
      BY <2>1 DEF RouteRequest
    <3>2. q # r => route'[r] = route[r]
      BY <1>t, <3>1 DEF TypeOK
    <3>3. model' = model
      BY <2>1 DEF RouteRequest, modelVars
    <3> QED
      BY <2>1, <3>2, <3>3
  <2>2. CASE StartChecks(q) \/ EnterNext(q)
    BY <2>2 DEF StartChecks, EnterNext, modelVars
  <2>3. CASE \E a \in Servers : CheckStep(q, a)
    BY <1>t, <2>3, CheckSteps DEF Unmoved
  <2>4. CASE Connect(q)
    BY <1>t, <2>4 DEF Connect, TypeOK
  <2>5. CASE ResolutionFails(q) \/ Cancel(q)
    BY <1>t, <2>5 DEF ResolutionFails, Cancel, Leaves, modelVars, TypeOK
  <2> QED
    BY <1>1, <2>1, <2>2, <2>3, <2>4, <2>5 DEF RequestStep
<1>2. CASE (\E a \in Servers : ConditionChanges(a)) \/ Repoint \/ Tick
  BY <1>2 DEF ConditionChanges, Repoint, Tick, modelVars
<1> QED
  BY <1>1, <1>2 DEF Next

LEMMA RoutesAreFresh ==
    ASSUME StageInv, NEW r \in Requests, RouteRequest(r) PROVE RouteIsFresh(r)
<1> DEFINE c == Asks[r].conversation
<1> SUFFICES ASSUME route'[r].reason = "sticky_route"
             PROVE  /\ history.matched[c] # None
                    /\ now <= history.matched[c].until
                    /\ route'[r].candidates \subseteq history.matched[c].names
  BY DEF RouteIsFresh
<1>1. /\ now \in Nat /\ sticky \in [Conversations -> Remembered \cup {None}]
      /\ DOMAIN route = Requests /\ c \in Conversations \cup {None}
  BY Numbers, AskTypes DEF StageInv, TypeOK
<1>2. route'[r] = Plan("sticky_route", Recalled(r)) /\ Recalled(r) # {}
  BY <1>1 DEF RouteRequest, StickyOr, Plan
<1>3. /\ c # None /\ sticky[c] # None /\ ~(sticky[c].until < now)
      /\ Recalled(r) \subseteq sticky[c].names
  BY <1>2 DEF Recalled
<1>4. sticky[c] = history.matched[c] /\ sticky[c].until \in Nat
  BY <1>1, <1>3 DEF StageInv, CacheInv, MemoryIsMatch, Remembered
<1> QED
  BY <1>1, <1>2, <1>3, <1>4 DEF Plan

LEMMA ModelsAreFresh ==
    ASSUME StageInv, NEW r \in Requests, Connect(r) PROVE ModelIsFresh(r)
<1> SUFFICES ASSUME model'[r] < version
             PROVE  now - history.replaced[model'[r]] < ModelTtl
  BY DEF ModelIsFresh
<1>1. model'[r] = modelCache'.version /\ version \in Nat /\ now \in Nat
  BY Numbers DEF Connect, StageInv, TypeOK
<1>2. CASE ModelCached
  <2>1. modelCache' = modelCache /\ modelCache # None /\ modelCache.until > now
    BY <1>2 DEF Connect, ModelCached
  <2>2. /\ history.replaced[modelCache.version] \in Nat
        /\ modelCache.until <= history.replaced[modelCache.version] + ModelTtl
        /\ modelCache.until \in Nat
    <3>1. modelCache.version < version
      BY <1>1, <2>1
    <3>2. modelCache.until \in Nat
      BY <2>1 DEF StageInv, TypeOK
    <3> QED
      BY <2>1, <3>1, <3>2 DEF StageInv, CacheInv, ModelEntry
  <2> QED
    BY <1>1, <2>1, <2>2, Numbers
<1>3. CASE ~ModelCached
  BY <1>1, <1>3 DEF Connect
<1> QED
  BY <1>2, <1>3

\* A sticky route is that of a match within the stickiness, and a cached model one
\* that was the latest within the TTL (routing.py: _recall; model_registry.py).
THEOREM CachesAreFresh == Spec => OnlyFreshIsUsed
<1>1. StageInv /\ [Next]_vars => [\A r \in Requests : RouteIsFresh(r) /\ ModelIsFresh(r)]_vars
  <2> SUFFICES ASSUME StageInv, Next, NEW r \in Requests
               PROVE  RouteIsFresh(r) /\ ModelIsFresh(r)
    OBVIOUS
  <2>1. RouteIsFresh(r)
    BY WhoSets, RoutesAreFresh DEF RouteIsFresh
  <2>2. ModelIsFresh(r)
    BY WhoSets, ModelsAreFresh DEF ModelIsFresh
  <2> QED
    BY <2>1, <2>2
<1> QED
  BY <1>1, StageInvHolds, PTL DEF Spec, OnlyFreshIsUsed

----------------------------------------------------------------------------
(* The stage ends in time.  A check that has left the queue of enter_lock    *)
(* has used one connect timeout at most, so the clock is never further on    *)
(* than the checks that have left it account for.                            *)

Begun(r) == {a \in Servers : call[r][a].step \notin {"idle", "waiting"}}
Spent(r) == history.received[r] + Cardinality(Begun(r)) * ConnectTimeout

\* One check at a time holds the lock, and while one waits nothing is overspent.
InTurn(r) ==
    /\ \A a, b \in AtStep(r, "entering") : a = b
    /\ AtStep(r, "waiting") # {} => now <= Spent(r)
    /\ \A a \in AtStep(r, "entering") : /\ call[r][a].since + ConnectTimeout <= Spent(r)
                                        /\ now <= call[r][a].since + ConnectTimeout
    /\ \A a \in AtStep(r, "listing") : /\ call[r][a].since <= Spent(r)
                                       /\ now <= call[r][a].since + ListTimeout
Planned(r) == \A a \in Servers : call[r][a].step # "idle" <=> a \in PlannedServers(r)
WithinBound(r) == now <= history.received[r]
                            + Cardinality(PlannedServers(r)) * ConnectTimeout + ListTimeout

PacedRequest(r) ==
    /\ phase[r] = "routed" => now = history.received[r]
    /\ phase[r] = "checking" => InTurn(r) /\ Planned(r) /\ WithinBound(r)
PaceInv == StageInv /\ \A r \in Requests : PacedRequest(r)

LEMMA MoreTakesLonger ==
    ASSUME NEW m \in Nat, NEW n \in Nat, NEW t \in Nat, m <= n
    PROVE  m * t \in Nat /\ m * t <= n * t /\ (m + 1) * t = m * t + t
  OBVIOUS

LEMMA ServersAreFinite == IsFiniteSet(Servers)
<1>1. Len(Agents) \in Nat /\ Servers \subseteq 1 .. Len(Agents)
  BY OrchestrationAssumption DEF Servers, Agent
<1>2. IsFiniteSet(1 .. Len(Agents))
  BY <1>1, FS_Interval
<1> QED
  BY <1>1, <1>2, FS_Subset

LEMMA CountsOfServers ==
    ASSUME NEW S \in SUBSET Servers
    PROVE  /\ IsFiniteSet(S) /\ Cardinality(S) \in Nat
           /\ \A T \in SUBSET S : Cardinality(T) <= Cardinality(S)
           /\ \A a \in Servers \ S : Cardinality(S \cup {a}) = Cardinality(S) + 1
<1>1. IsFiniteSet(S)
  BY ServersAreFinite, FS_Subset
<1> QED
  BY <1>1, FS_CardinalityType, FS_Subset, FS_AddElement

\* What Spent is, and that a plan with every check begun is spent.
LEMMA SpentTypes ==
    ASSUME TypeOK, NEW r \in Requests
    PROVE  /\ Spent(r) \in Nat /\ now \in Nat /\ history.received[r] \in Nat
           /\ \A a \in Servers : call[r][a].since \in Nat
           /\ history.received[r] <= Spent(r)
<1>1. now \in 0 .. MaxTime /\ history.received[r] \in Nat
  BY DEF TypeOK
<1>2. Cardinality(Begun(r)) \in Nat
  BY CountsOfServers DEF Begun
<1>3. Cardinality(Begun(r)) * ConnectTimeout \in Nat
  BY <1>2, MoreTakesLonger, Numbers
<1>4. \A a \in Servers : call[r][a].since \in Nat
  BY DEF TypeOK
<1> QED
  BY <1>1, <1>3, <1>4, Numbers DEF Spent

LEMMA SpentTypesNext ==
    ASSUME NEW CONSTANT r \in Requests
    PROVE  TypeOK' => (Spent(r) \in Nat /\ history.received[r] <= Spent(r))'
<1>1. TypeOK => Spent(r) \in Nat /\ history.received[r] <= Spent(r)
  BY SpentTypes
<1> QED
  BY <1>1, PTL

LEMMA SpentWithinPlan ==
    ASSUME TypeOK, NEW r \in Requests, Planned(r)
    PROVE  Spent(r) <= history.received[r] + Cardinality(PlannedServers(r)) * ConnectTimeout
<1>1. PlannedServers(r) \in SUBSET Servers /\ Begun(r) \in SUBSET PlannedServers(r)
  BY AskTypes DEF Planned, Begun
<1>2. /\ Cardinality(PlannedServers(r)) \in Nat /\ Cardinality(Begun(r)) \in Nat
      /\ Cardinality(Begun(r)) <= Cardinality(PlannedServers(r))
  BY <1>1, CountsOfServers
<1>3. /\ Cardinality(Begun(r)) * ConnectTimeout \in Nat
      /\ Cardinality(PlannedServers(r)) * ConnectTimeout \in Nat
      /\ Cardinality(Begun(r)) * ConnectTimeout
            <= Cardinality(PlannedServers(r)) * ConnectTimeout
  BY <1>2, MoreTakesLonger, Numbers
<1>4. history.received[r] \in Nat
  BY DEF TypeOK
<1> QED
  BY <1>3, <1>4 DEF Spent

\* A step of another request changes nothing of this one's pace.
SameStage(q) == /\ now' = now /\ phase'[q] = phase[q] /\ route'[q] = route[q]
                /\ history'.received[q] = history.received[q]
                /\ \A a \in Servers : call'[q][a] = call[q][a]

LEMMA PaceOfOthers ==
    ASSUME NEW q \in Requests, SameStage(q), PacedRequest(q) PROVE PacedRequest(q)'
<1>1. Servers' = Servers /\ PlannedServers(q)' = PlannedServers(q)
  BY SameRoute DEF SameStage, Servers, Agent
<1>2. Begun(q)' = Begun(q) /\ \A step : AtStep(q, step)' = AtStep(q, step)
  BY <1>1 DEF SameStage, Begun, AtStep
<1>3. Spent(q)' = Spent(q)
  BY <1>2 DEF SameStage, Spent
<1>4. InTurn(q) => InTurn(q)'
  BY <1>2, <1>3 DEF SameStage, InTurn, AtStep
<1>5. Planned(q) => Planned(q)'
  BY <1>1 DEF SameStage, Planned
<1>6. WithinBound(q) => WithinBound(q)'
  BY <1>1 DEF SameStage, WithinBound
<1> QED
  BY <1>4, <1>5, <1>6 DEF SameStage, PacedRequest

LEMMA RoutePace ==
    ASSUME StageInv, NEW r \in Requests, RouteRequest(r)
    PROVE  PacedRequest(r)' /\ \A q \in Requests \ {r} : SameStage(q)
<1>1. /\ phase' = [phase EXCEPT ![r] = "routed"] /\ now' = now /\ call' = call
      /\ \E plan : route' = [route EXCEPT ![r] = plan]
  BY DEF RouteRequest
<1>2. history'.received = [history.received EXCEPT ![r] = now]
  <2>1. history \in History
    BY DEF StageInv, TypeOK, History
  <2>2. \E matched : history' = [history EXCEPT !.received[r] = now, !.matched = matched]
    BY DEF RouteRequest
  <2> QED
    BY <2>1, <2>2 DEF History
<1>3. /\ DOMAIN phase = Requests /\ DOMAIN route = Requests
      /\ DOMAIN history.received = Requests
  BY DEF StageInv, TypeOK
<1> QED
  BY <1>1, <1>2, <1>3 DEF PacedRequest, SameStage

LEMMA StartPace ==
    ASSUME PaceInv, NEW r \in Requests, StartChecks(r), TypeOK'
    PROVE  PacedRequest(r)' /\ \A q \in Requests \ {r} : SameStage(q)
<1>t. TypeOK /\ now = history.received[r]
  BY DEF PaceInv, StageInv, PacedRequest, StartChecks
<1>1. /\ phase' = [phase EXCEPT ![r] = "checking"] /\ phase[r] = "routed"
      /\ UNCHANGED <<now, route, history>>
  BY DEF StartChecks
<1>2. /\ \A a \in Servers : call'[r][a] =
            IF a \notin PlannedServers(r) THEN Idle
            ELSE IF Fresh(a) /\ ~health[a].healthy THEN [Idle EXCEPT !.step = "skipped"]
            ELSE [step |-> "waiting", known |-> Fresh(a), since |-> now]
      /\ \A q \in Requests \ {r} : call'[q] = call[q]
  BY <1>t DEF StartChecks, TypeOK
<1>3. ASSUME NEW a \in Servers
      PROVE  /\ call'[r][a].step \in {"idle", "skipped", "waiting"}
             /\ call'[r][a].step # "idle" <=> a \in PlannedServers(r)
  <2>1. [Idle EXCEPT !.step = "skipped"].step = "skipped" /\ Idle.step = "idle"
    BY DEF Idle
  <2>2. CASE a \notin PlannedServers(r)
    BY <1>2, <2>1, <2>2
  <2>3. CASE a \in PlannedServers(r) /\ Fresh(a) /\ ~health[a].healthy
    BY <1>2, <2>1, <2>3
  <2>4. CASE a \in PlannedServers(r) /\ ~(Fresh(a) /\ ~health[a].healthy)
    <3>1. call'[r][a] = [step |-> "waiting", known |-> Fresh(a), since |-> now]
      BY <1>2, <2>4, Zenon
    <3> QED
      BY <2>4, <3>1
  <2> QED
    BY <2>2, <2>3, <2>4
<1>4. Servers' = Servers /\ PlannedServers(r)' = PlannedServers(r)
  BY <1>1, SameRoute DEF Servers, Agent
<1>5. Spent(r)' \in Nat /\ history.received[r] <= Spent(r)'
  BY <1>1, SpentTypesNext
<1>6. InTurn(r)'
  BY <1>t, <1>1, <1>3, <1>4, <1>5 DEF InTurn, AtStep
<1>7. Planned(r)'
  BY <1>3, <1>4 DEF Planned
<1>8. WithinBound(r)'
  <2>1. Cardinality(PlannedServers(r)) \in Nat /\ history.received[r] \in Nat
    BY <1>t, AskTypes, CountsOfServers DEF TypeOK
  <2>2. Cardinality(PlannedServers(r)) * ConnectTimeout \in Nat
    BY <2>1, MoreTakesLonger, Numbers
  <2> QED
    BY <1>t, <1>1, <1>4, <2>1, <2>2, Numbers DEF WithinBound
<1>9. PacedRequest(r)'
  BY <1>t, <1>1, <1>6, <1>7, <1>8 DEF PacedRequest, TypeOK
<1> QED
  BY <1>t, <1>1, <1>2, <1>9 DEF SameStage, TypeOK

LEMMA EnterPace ==
    ASSUME PaceInv, NEW r \in Requests, EnterNext(r)
    PROVE  PacedRequest(r)' /\ \A q \in Requests \ {r} : SameStage(q)
<1>t. TypeOK
  BY DEF PaceInv, StageInv
<1>1. PICK a \in AtStep(r, "waiting") :
        call' = [call EXCEPT ![r][a] = [@ EXCEPT !.step = "entering", !.since = now]]
  BY DEF EnterNext
<1>2. UNCHANGED <<now, phase, route, history>> /\ AtStep(r, "entering") = {}
  BY DEF EnterNext
<1>3. a \in Servers /\ call[r][a].step = "waiting"
  BY <1>1 DEF AtStep
<1> DEFINE entered == [call[r][a] EXCEPT !.step = "entering", !.since = now]
<1>4. entered.step = "entering" /\ entered.since = now
  BY <1>t, <1>3 DEF TypeOK
<1>5. call' = [call EXCEPT ![r] = [call[r] EXCEPT ![a] = entered]]
  BY <1>1
<1> HIDE DEF entered
<1>6. /\ call'[r][a].step = "entering" /\ call'[r][a].since = now
      /\ \A q \in Requests, b \in Servers : q # r \/ b # a => call'[q][b] = call[q][b]
  BY <1>t, <1>3, <1>4, <1>5 DEF TypeOK
<1>7. Servers' = Servers /\ PlannedServers(r)' = PlannedServers(r)
  BY <1>2, SameRoute DEF Servers, Agent
<1>8. Spent(r)' = Spent(r) + ConnectTimeout
  <2>1. Begun(r)' = Begun(r) \cup {a} /\ a \notin Begun(r) /\ Begun(r) \subseteq Servers
    BY <1>3, <1>6, <1>7 DEF Begun
  <2>2. /\ Cardinality(Begun(r))' = Cardinality(Begun(r)) + 1
        /\ Cardinality(Begun(r)) \in Nat
    BY <1>3, <2>1, CountsOfServers
  <2>3. /\ (Cardinality(Begun(r)) + 1) * ConnectTimeout
              = Cardinality(Begun(r)) * ConnectTimeout + ConnectTimeout
        /\ Cardinality(Begun(r)) * ConnectTimeout \in Nat
    BY <2>2, MoreTakesLonger, Numbers
  <2>4. history.received[r] \in Nat
    BY <1>t DEF TypeOK
  <2> QED
    BY <1>2, <2>2, <2>3, <2>4, Numbers DEF Spent
<1>9. ASSUME phase[r] = "checking" PROVE InTurn(r)' /\ Planned(r)' /\ WithinBound(r)'
  <2>1. InTurn(r) /\ Planned(r) /\ WithinBound(r)
    BY <1>9 DEF PaceInv, PacedRequest
  <2>2. /\ Spent(r) \in Nat /\ now \in Nat /\ now <= Spent(r)
        /\ \A b \in Servers : call[r][b].since \in Nat
    BY <1>t, <1>1, <2>1, SpentTypes DEF InTurn
  <2>3. /\ AtStep(r, "entering")' = {a} /\ AtStep(r, "listing")' = AtStep(r, "listing")
        /\ a \notin AtStep(r, "listing") /\ AtStep(r, "listing") \subseteq Servers
    BY <1>2, <1>3, <1>6, <1>7 DEF AtStep
  <2>4. \A b \in AtStep(r, "listing") : /\ call'[r][b] = call[r][b]
                                        /\ call[r][b].since <= Spent(r)
                                        /\ now <= call[r][b].since + ListTimeout
    BY <1>6, <2>1, <2>3 DEF InTurn
  <2>5. InTurn(r)'
    <3>1. now' <= Spent(r)'
      BY <1>2, <1>8, <2>2, Numbers
    <3>2. call'[r][a].since + ConnectTimeout <= Spent(r)' /\ now' <= call'[r][a].since + ConnectTimeout
      BY <1>2, <1>6, <1>8, <2>2, Numbers
    <3>3. \A b \in AtStep(r, "listing") : call[r][b].since <= Spent(r)'
      BY <1>8, <2>2, <2>3, <2>4, Numbers
    <3> QED
      BY <1>2, <2>3, <2>4, <3>1, <3>2, <3>3 DEF InTurn
  <2>6. Planned(r)'
    BY <1>3, <1>6, <1>7, <2>1 DEF Planned
  <2>7. WithinBound(r)'
    BY <1>2, <1>7, <2>1 DEF WithinBound
  <2> QED
    BY <2>5, <2>6, <2>7
<1>10. phase[r] = "routed" => now = history.received[r]
  BY DEF PaceInv, PacedRequest
<1> QED
  BY <1>2, <1>6, <1>9, <1>10 DEF PacedRequest, SameStage

LEMMA CheckPace ==
    ASSUME PaceInv, NEW r \in Requests, NEW a \in Servers, CheckStep(r, a)
    PROVE  PacedRequest(r)' /\ \A q \in Requests \ {r} : SameStage(q)
<1>t. TypeOK
  BY DEF PaceInv, StageInv
<1>1. /\ Unmoved
      /\ \/ GoesOn(r, a)
         \/ Ends(r, a, "exposed", TRUE, HealthTtl)
         \/ Ends(r, a, "failed", FALSE, FailureTtl)
  BY <1>t, CheckSteps
<1>2. PICK step \in {"listing", "exposed", "failed"} : CheckMoves(r, a, step)
  BY <1>1 DEF GoesOn, Ends
<1>3. UNCHANGED <<now, phase, route>> /\ history'.received = history.received
  BY <1>1 DEF Unmoved, GoesOn, Ends
<1>4. Servers' = Servers /\ PlannedServers(r)' = PlannedServers(r)
  BY <1>3, SameRoute DEF Servers, Agent
<1>5. Spent(r)' = Spent(r)
  <2>1. Begun(r)' = Begun(r)
    BY <1>2, <1>4 DEF Begun, CheckMoves
  <2> QED
    BY <1>3, <2>1 DEF Spent
<1>6. ASSUME phase[r] = "checking" PROVE InTurn(r)' /\ Planned(r)' /\ WithinBound(r)'
  <2>1. InTurn(r) /\ Planned(r) /\ WithinBound(r)
    BY <1>6 DEF PaceInv, PacedRequest
  <2>2. /\ AtStep(r, "entering")' \subseteq AtStep(r, "entering") \ {a}
        /\ AtStep(r, "waiting")' = AtStep(r, "waiting")
        /\ AtStep(r, "listing")' \subseteq AtStep(r, "listing") \cup {a}
    BY <1>2, <1>4 DEF AtStep, CheckMoves
  <2>3. \A b \in Servers \ {a} : call'[r][b] = call[r][b]
    BY <1>2 DEF CheckMoves
  <2>4. ASSUME a \in AtStep(r, "listing")'
        PROVE  call'[r][a].since <= Spent(r) /\ now <= call'[r][a].since + ListTimeout
    <3>1. GoesOn(r, a)
      BY <1>1, <1>4, <2>4 DEF AtStep, Ends, CheckMoves
    <3>2. call[r][a].step = "entering" /\ call'[r][a].since = now
      BY <3>1 DEF GoesOn
    <3>3. call[r][a].since + ConnectTimeout <= Spent(r) /\ now <= call[r][a].since + ConnectTimeout
      BY <2>1, <3>2 DEF InTurn, AtStep
    <3>4. Spent(r) \in Nat /\ now \in Nat /\ call[r][a].since \in Nat
      BY <1>t, SpentTypes
    <3> QED
      BY <3>2, <3>3, <3>4, Numbers
  <2>5. /\ \A b \in AtStep(r, "entering") : b \in Servers
        /\ \A b \in AtStep(r, "listing") : b \in Servers
    BY DEF AtStep
  <2>6. InTurn(r)'
    BY <1>3, <1>5, <2>1, <2>2, <2>3, <2>4, <2>5 DEF InTurn
  <2>7. Planned(r)'
    BY <1>2, <1>4, <2>1 DEF Planned, CheckMoves
  <2>8. WithinBound(r)'
    BY <1>3, <1>4, <2>1 DEF WithinBound
  <2> QED
    BY <2>6, <2>7, <2>8
<1>7. phase[r] = "routed" => now = history.received[r]
  BY DEF PaceInv, PacedRequest
<1> QED
  BY <1>2, <1>3, <1>6, <1>7 DEF PacedRequest, SameStage, CheckMoves

LEMMA EndPace ==
    ASSUME StageInv, NEW r \in Requests, Connect(r) \/ ResolutionFails(r) \/ Cancel(r)
    PROVE  PacedRequest(r)' /\ \A q \in Requests \ {r} : SameStage(q)
<1>t. TypeOK
  BY DEF StageInv
<1>1. UNCHANGED <<now, history>>
  BY DEF Connect, ResolutionFails, Cancel
<1>2. /\ phase'[r] \in {"running", "gone"}
      /\ \A q \in Requests \ {r} :
            phase'[q] = phase[q] /\ route'[q] = route[q] /\ call'[q] = call[q]
  BY <1>t DEF Connect, ResolutionFails, Cancel, Leaves, TypeOK
<1> QED
  BY <1>1, <1>2 DEF PacedRequest, SameStage

\* Time passes only when every stage under way waits for a call that is not due.
LEMMA TickPace ==
    ASSUME PaceInv, Tick, NEW r \in Requests PROVE PacedRequest(r)'
<1>t. TypeOK
  BY DEF PaceInv, StageInv
<1>1. /\ now' = now + 1 /\ Quiet /\ UNCHANGED <<phase, route, call, history>>
  BY DEF Tick
<1>2. phase[r] # "routed"
  BY <1>1 DEF Quiet
<1>3. /\ Servers' = Servers /\ PlannedServers(r)' = PlannedServers(r)
      /\ Begun(r)' = Begun(r) /\ \A step : AtStep(r, step)' = AtStep(r, step)
  BY <1>1, SameRoute DEF Servers, Agent, Begun, AtStep
<1>4. Spent(r)' = Spent(r)
  BY <1>1, <1>3 DEF Spent
<1>5. ASSUME phase[r] = "checking" PROVE InTurn(r)' /\ Planned(r)' /\ WithinBound(r)'
  <2>1. InTurn(r) /\ Planned(r)
    BY <1>5 DEF PaceInv, PacedRequest
  <2>2. /\ ~ChecksDone(r)
        /\ AtStep(r, "waiting") # {} => AtStep(r, "entering") # {}
        /\ \A a \in AtStep(r, "entering") \cup AtStep(r, "listing") : ~Due(r, a)
    BY <1>1, <1>5 DEF Quiet
  <2>3. /\ Spent(r) \in Nat /\ now \in Nat /\ history.received[r] \in Nat
        /\ \A a \in Servers : call[r][a].since \in Nat
    BY <1>t, SpentTypes
  <2>4. ASSUME NEW a \in AtStep(r, "entering")
        PROVE  now + 1 <= call[r][a].since + ConnectTimeout /\ now + 1 <= Spent(r)
    <3>1. a \in Servers /\ call[r][a].step = "entering"
      BY <2>4 DEF AtStep
    <3>2. ~(now >= call[r][a].since + ConnectTimeout)
      BY <2>2, <3>1 DEF Due, Deadline
    <3>3. call[r][a].since + ConnectTimeout <= Spent(r)
      BY <2>1 DEF InTurn
    <3> QED
      BY <2>3, <3>1, <3>2, <3>3, Numbers
  <2>5. ASSUME NEW a \in AtStep(r, "listing")
        PROVE  now + 1 <= call[r][a].since + ListTimeout /\ now + 1 <= Spent(r) + ListTimeout
    <3>1. a \in Servers /\ call[r][a].step = "listing"
      BY <2>5 DEF AtStep
    <3>2. ~(now >= call[r][a].since + ListTimeout)
      BY <2>2, <3>1 DEF Due, Deadline
    <3>3. call[r][a].since <= Spent(r)
      BY <2>1 DEF InTurn
    <3> QED
      BY <2>3, <3>1, <3>2, <3>3, Numbers
  <2>6. InTurn(r)'
    BY <1>1, <1>3, <1>4, <2>1, <2>2, <2>4, <2>5 DEF InTurn
  <2>7. Planned(r)'
    BY <1>1, <1>3, <2>1 DEF Planned
  <2>8. now + 1 <= Spent(r) + ListTimeout
    <3>1. PICK a \in PlannedServers(r) : call[r][a].step \notin Settled
      BY <1>5, <2>2 DEF ChecksDone
    <3>2. a \in Servers /\ call[r][a].step # "idle" /\ call[r][a].step \in Step
      BY <1>t, <2>1, AskTypes DEF Planned, TypeOK
    <3>3. AtStep(r, "entering") # {} \/ AtStep(r, "listing") # {}
      BY <2>2, <3>1, <3>2 DEF AtStep, Step, Settled
    <3> QED
      BY <2>3, <2>4, <2>5, <3>3, Numbers
  <2>9. WithinBound(r)'
    <3>1. Cardinality(PlannedServers(r)) \in Nat
      BY AskTypes, CountsOfServers
    <3>2. Cardinality(PlannedServers(r)) * ConnectTimeout \in Nat
      BY <3>1, MoreTakesLonger, Numbers
    <3>3. Spent(r) <= history.received[r] + Cardinality(PlannedServers(r)) * ConnectTimeout
      BY <1>t, <2>1, SpentWithinPlan
    <3> QED
      BY <1>1, <1>3, <2>3, <2>8, <3>2, <3>3, Numbers DEF WithinBound
  <2> QED
    BY <2>6, <2>7, <2>9
<1> QED
  BY <1>1, <1>2, <1>5 DEF PacedRequest

LEMMA PaceInvPreserved == PaceInv /\ [Next]_vars => PaceInv'
<1> SUFFICES ASSUME PaceInv, [Next]_vars PROVE PaceInv'
  OBVIOUS
<1>1. StageInv /\ StageInv' /\ TypeOK'
  BY StageInvPreserved DEF PaceInv, StageInv
<1>2. ASSUME NEW r \in Requests, RequestStep(r) PROVE \A q \in Requests : PacedRequest(q)'
  <2>1. PacedRequest(r)' /\ \A q \in Requests \ {r} : SameStage(q)
    <3>1. CASE RouteRequest(r)
      BY <1>1, <3>1, RoutePace
    <3>2. CASE StartChecks(r)
      BY <1>1, <3>2, StartPace
    <3>3. CASE EnterNext(r)
      BY <3>3, EnterPace
    <3>4. CASE \E a \in Servers : CheckStep(r, a)
      BY <3>4, CheckPace
    <3>5. CASE Connect(r) \/ ResolutionFails(r) \/ Cancel(r)
      BY <1>1, <3>5, EndPace
    <3> QED
      BY <1>2, <3>1, <3>2, <3>3, <3>4, <3>5 DEF RequestStep
  <2> QED
    BY <2>1, PaceOfOthers DEF PaceInv
<1>3. ASSUME (\E a \in Servers : ConditionChanges(a)) \/ Repoint \/ UNCHANGED vars
      PROVE  \A q \in Requests : PacedRequest(q)'
  <2>1. UNCHANGED <<now, phase, route, call>>
    BY <1>3 DEF ConditionChanges, Repoint, vars
  <2>2. history'.received = history.received
    <3>1. history \in History
      BY <1>1 DEF TypeOK, StageInv, History
    <3>2. history' = history \/ \E v, t : history' = [history EXCEPT !.replaced[v] = t]
      BY <1>3 DEF ConditionChanges, Repoint, vars
    <3> QED
      BY <3>1, <3>2 DEF History
  <2>3. \A q \in Requests : SameStage(q)
    BY <2>1, <2>2 DEF SameStage
  <2> QED
    BY <2>3, PaceOfOthers DEF PaceInv
<1>4. CASE Tick
  BY <1>4, TickPace, <1>1 DEF PaceInv
<1>5. \A q \in Requests : PacedRequest(q)'
  BY <1>2, <1>3, <1>4, TickPace DEF Next
<1> QED
  BY <1>1, <1>5 DEF PaceInv

\* However many servers hang, the connect stage of a request ends: at most one
\* connect timeout for each planned server, as the connects wait for each other,
\* and one probe timeout more (agent.py: _check_and_connect under enter_lock).
THEOREM ConnectStageIsBounded == Spec => []ConnectIsBounded
<1>1. Init => PaceInv
  <2>1. Init => \A r \in Requests : PacedRequest(r)
    BY DEF Init, PacedRequest
  <2> QED
    BY <2>1, StageInvInitially DEF PaceInv
<1>2. PaceInv => ConnectIsBounded
  <2> SUFFICES ASSUME PaceInv, NEW r \in Requests, phase[r] = "checking"
               PROVE  now - history.received[r] <=
                        Cardinality(PlannedServers(r)) * ConnectTimeout + ListTimeout
    BY DEF ConnectIsBounded
  <2>1. WithinBound(r)
    BY DEF PaceInv, PacedRequest
  <2>2. now \in Nat /\ history.received[r] \in Nat
    BY SpentTypes DEF PaceInv, StageInv
  <2>3. Cardinality(PlannedServers(r)) \in Nat
    BY AskTypes, CountsOfServers
  <2>4. Cardinality(PlannedServers(r)) * ConnectTimeout \in Nat
    BY <2>3, MoreTakesLonger, Numbers
  <2> QED
    BY <2>1, <2>2, <2>4, Numbers DEF WithinBound
<1> QED
  BY <1>1, <1>2, PaceInvPreserved, PTL DEF Spec

=============================================================================
