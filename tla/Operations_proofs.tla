------------------------- MODULE Operations_proofs -------------------------
(***************************************************************************)
(* The scripts that release the Apps and grant their principals what they  *)
(* need, for every choice of revisions, targets, resources and options,    *)
(* and any number of scripts.                                              *)
(***************************************************************************)
EXTENDS Release, RuntimeGrants, Quickstart, SequenceTheorems, FiniteSetTheorems, TLAPS

-----------------------------------------------------------------------------
(* Release: the plans of the scripts *)

\* The calls that only the preparation makes, and the others.
PrepareOps == {"ui", "wheel", "clear", "copy", "sync"}
OtherOps == {"validate", "bundle", "import", "manifest", "deploy", "start", "wait", "ensure"}

AnyCall == [op : PrepareOps \cup OtherOps, of : Apps \cup Targets \cup {None}]

\* How many calls of a release start the Apps.
StartCalls(start) == IF start THEN 2 ELSE 0

\* What is left to do is the end of a plan.
Ahead(plan) ==
  /\ Len(todo) <= Len(plan)
  /\ \A i \in 1 .. Len(todo) : todo[i] = plan[Len(plan) - Len(todo) + i]

LEMMA CallsAreCalls ==
    ASSUME NEW a \in Apps \cup Targets \cup {None}
    PROVE  \A op \in PrepareOps \cup OtherOps : Call(op, a) \in AnyCall /\ Call(op, a).op = op
  BY DEF Call, AnyCall

\* A plan without a call of the preparation.
Foreign(plan) == \A j \in 1 .. Len(plan) : plan[j].op \notin PrepareOps

LEMMA PreparePlan ==
    ASSUME NEW t \in Targets
    PROVE  /\ PrepareCalls(t) \in Seq(AnyCall) /\ Len(PrepareCalls(t)) = 5
           /\ PrepareCalls(t)[1].op = "ui" /\ PrepareCalls(t)[2].op = "wheel"
           /\ \A j \in 1 .. 5 : LET c == PrepareCalls(t)[j] IN
                /\ c.op = "wheel" => j = 2
                /\ c.op = "copy" => j = 4
                /\ c.op = "sync" => c.of \in Targets
                /\ c.op \in PrepareOps
<1>1. /\ Call("ui", None) \in AnyCall /\ Call("wheel", None) \in AnyCall
      /\ Call("clear", None) \in AnyCall /\ Call("copy", None) \in AnyCall
      /\ Call("sync", t) \in AnyCall
  BY CallsAreCalls DEF PrepareOps
<1>2. PrepareCalls(t) \in Seq(AnyCall) /\ Len(PrepareCalls(t)) = 5
  BY <1>1 DEF PrepareCalls
<1>3. PrepareCalls(t)[1].op = "ui" /\ PrepareCalls(t)[2].op = "wheel"
  BY DEF PrepareCalls, Call
<1>4. ASSUME NEW j \in 1 .. 5
      PROVE  LET c == PrepareCalls(t)[j] IN
                /\ c.op = "wheel" => j = 2
                /\ c.op = "copy" => j = 4
                /\ c.op = "sync" => c.of \in Targets
                /\ c.op \in PrepareOps
  BY DEF PrepareCalls, Call, PrepareOps
<1> QED
  BY <1>2, <1>3, <1>4

LEMMA TwoCalls ==
    ASSUME NEW op \in OtherOps
    PROVE  /\ Both(op) \in Seq(AnyCall) /\ Len(Both(op)) = 2 /\ Foreign(Both(op))
           /\ Both(op)[1] = Call(op, "hitl") /\ Both(op)[2] = Call(op, "main")
<1>1. Call(op, "hitl") \in AnyCall /\ Call(op, "main") \in AnyCall
  BY CallsAreCalls DEF Apps
<1>2. Both(op) \in Seq(AnyCall) /\ Len(Both(op)) = 2
  BY <1>1 DEF Both
<1>3. Both(op)[1] = Call(op, "hitl") /\ Both(op)[2] = Call(op, "main")
  BY DEF Both
<1>4. \A j \in 1 .. 2 : Both(op)[j].op = op
  BY DEF Both, Call
<1>5. op \notin PrepareOps
  BY DEF OtherOps, PrepareOps
<1> QED
  BY <1>2, <1>3, <1>4, <1>5 DEF Foreign

LEMMA OneCall ==
    ASSUME NEW op \in OtherOps, NEW a \in Apps \cup {None}
    PROVE  /\ <<Call(op, a)>> \in Seq(AnyCall) /\ Len(<<Call(op, a)>>) = 1
           /\ <<Call(op, a)>>[1] = Call(op, a) /\ Foreign(<<Call(op, a)>>)
<1>1. Call(op, a) \in AnyCall /\ Call(op, a).op = op /\ op \notin PrepareOps
  BY CallsAreCalls DEF OtherOps, PrepareOps
<1> QED
  BY <1>1 DEF Foreign

LEMMA Joined ==
    ASSUME NEW s \in Seq(AnyCall), NEW t \in Seq(AnyCall)
    PROVE  /\ s \o t \in Seq(AnyCall) /\ Len(s \o t) = Len(s) + Len(t)
           /\ Len(s) \in Nat /\ Len(t) \in Nat
           /\ \A j \in 1 .. Len(s) + Len(t) :
                (s \o t)[j] = IF j <= Len(s) THEN s[j] ELSE t[j - Len(s)]
           /\ Foreign(s) /\ Foreign(t) => Foreign(s \o t)
<1>1. /\ s \o t \in Seq(AnyCall) /\ Len(s \o t) = Len(s) + Len(t)
      /\ Len(s) \in Nat /\ Len(t) \in Nat
      /\ \A j \in 1 .. Len(s) + Len(t) :
           (s \o t)[j] = IF j <= Len(s) THEN s[j] ELSE t[j - Len(s)]
  OBVIOUS
<1>2. ASSUME NEW j \in 1 .. Len(s) + Len(t)
      PROVE  j \in 1 .. Len(s) \/ (~(j <= Len(s)) /\ j - Len(s) \in 1 .. Len(t))
  BY <1>1
<1> QED
  BY <1>1, <1>2 DEF Foreign

LEMMA ReleasePlan ==
    ASSUME NEW infrastructure \in BOOLEAN, NEW start \in BOOLEAN
    PROVE  LET plan == ReleaseCalls(infrastructure, start)
               e == Len(plan)
               s == StartCalls(start)
           IN /\ plan \in Seq(AnyCall) /\ e > 6 + s /\ Foreign(plan)
              /\ plan[e - 6 - s] = Call("import", "hitl") /\ plan[e - 5 - s] = Call("import", "main")
              /\ plan[e - 4 - s] = Call("manifest", None)
              /\ plan[e - 3 - s] = Call("deploy", "hitl") /\ plan[e - 2 - s] = Call("deploy", "main")
<1> DEFINE validate == <<Call("validate", None)>>
           bundle == IF infrastructure THEN <<Call("bundle", None)>> ELSE << >>
           imports == Both("import")
           manifests == <<Call("manifest", None)>>
           deploys == Both("deploy")
           starts == IF start THEN Both("start") ELSE << >>
           waits == Both("wait")
           s == StartCalls(start)
           Plan(p) == p \in Seq(AnyCall) /\ Foreign(p)
<1>1. Plan(bundle)
  BY OneCall DEF OtherOps, Foreign
<1>2. Plan(starts) /\ Len(starts) = s /\ s \in Nat
  BY TwoCalls DEF OtherOps, Foreign, StartCalls
<1>3. /\ Plan(validate) /\ Len(validate) = 1
      /\ Plan(manifests) /\ Len(manifests) = 1 /\ manifests[1] = Call("manifest", None)
  BY OneCall DEF OtherOps
<1>4. /\ Plan(imports) /\ Len(imports) = 2
      /\ imports[1] = Call("import", "hitl") /\ imports[2] = Call("import", "main")
  BY TwoCalls DEF OtherOps
<1>5. /\ Plan(deploys) /\ Len(deploys) = 2
      /\ deploys[1] = Call("deploy", "hitl") /\ deploys[2] = Call("deploy", "main")
  BY TwoCalls DEF OtherOps
<1>6. Plan(waits) /\ Len(waits) = 2
  BY TwoCalls DEF OtherOps
<1>7. ReleaseCalls(infrastructure, start) =
        validate \o bundle \o imports \o manifests \o deploys \o starts \o waits
  BY DEF ReleaseCalls
<1> HIDE DEF validate, bundle, imports, manifests, deploys, starts, waits, s
<1> DEFINE p1 == validate \o bundle
           p2 == p1 \o imports
           p3 == p2 \o manifests
           p4 == p3 \o deploys
           p5 == p4 \o starts
           k == Len(p1)
<1>8. Plan(p1) /\ k \in Nat \ {0}
  BY <1>1, <1>3, Joined
<1> HIDE DEF p1
<1>9. /\ Plan(p2) /\ Len(p2) = k + 2
      /\ p2[k + 1] = Call("import", "hitl") /\ p2[k + 2] = Call("import", "main")
  <2>1. /\ Plan(p2) /\ Len(p2) = k + 2
        /\ \A j \in 1 .. k + 2 : p2[j] = IF j <= k THEN p1[j] ELSE imports[j - k]
    <3>1. /\ Plan(p2) /\ Len(p2) = Len(p1) + Len(imports)
          /\ \A j \in 1 .. Len(p1) + Len(imports) :
               p2[j] = IF j <= Len(p1) THEN p1[j] ELSE imports[j - Len(p1)]
      <4>1. Plan(p1) /\ Plan(imports)
        BY <1>4, <1>8
      <4> QED
        BY <4>1, Joined
    <3> QED
      BY <1>4, <1>8, <3>1
  <2> QED
    BY <1>4, <1>8, <2>1
<1> HIDE DEF p2
<1>10. /\ Plan(p3) /\ Len(p3) = k + 3 /\ p3[k + 3] = Call("manifest", None)
       /\ p3[k + 1] = p2[k + 1] /\ p3[k + 2] = p2[k + 2]
  <2>1. /\ Plan(p3) /\ Len(p3) = k + 3
        /\ \A j \in 1 .. k + 3 : p3[j] = IF j <= k + 2 THEN p2[j] ELSE manifests[j - (k + 2)]
    <3>1. /\ Plan(p3) /\ Len(p3) = Len(p2) + Len(manifests)
          /\ \A j \in 1 .. Len(p2) + Len(manifests) :
               p3[j] = IF j <= Len(p2) THEN p2[j] ELSE manifests[j - Len(p2)]
      <4>1. Plan(p2) /\ Plan(manifests)
        BY <1>3, <1>8, <1>9
      <4> QED
        BY <4>1, Joined
    <3> QED
      BY <1>3, <1>8, <1>9, <3>1
  <2> QED
    BY <1>3, <1>8, <2>1
<1> HIDE DEF p3
<1>11. /\ Plan(p4) /\ Len(p4) = k + 5
       /\ p4[k + 4] = Call("deploy", "hitl") /\ p4[k + 5] = Call("deploy", "main")
       /\ p4[k + 1] = p3[k + 1] /\ p4[k + 2] = p3[k + 2] /\ p4[k + 3] = p3[k + 3]
  <2>1. /\ Plan(p4) /\ Len(p4) = k + 5
        /\ \A j \in 1 .. k + 5 : p4[j] = IF j <= k + 3 THEN p3[j] ELSE deploys[j - (k + 3)]
    <3>1. /\ Plan(p4) /\ Len(p4) = Len(p3) + Len(deploys)
          /\ \A j \in 1 .. Len(p3) + Len(deploys) :
               p4[j] = IF j <= Len(p3) THEN p3[j] ELSE deploys[j - Len(p3)]
      <4>1. Plan(p3) /\ Plan(deploys)
        BY <1>5, <1>8, <1>10
      <4> QED
        BY <4>1, Joined
    <3> QED
      BY <1>5, <1>8, <1>10, <3>1
  <2>2. p4[k + 1] = p3[k + 1] /\ p4[k + 2] = p3[k + 2] /\ p4[k + 3] = p3[k + 3]
    BY <1>8, <2>1
  <2>3. p4[k + 4] = deploys[k + 4 - (k + 3)] /\ p4[k + 5] = deploys[k + 5 - (k + 3)]
    BY <1>8, <2>1
  <2>4. k + 4 - (k + 3) = 1 /\ k + 5 - (k + 3) = 2
    BY <1>8
  <2> QED
    BY <1>5, <2>1, <2>2, <2>3, <2>4
<1> HIDE DEF p4
<1>12. Plan(p5) /\ Len(p5) = k + 5 + s /\ \A i \in 1 .. 5 : p5[k + i] = p4[k + i]
  <2>1. /\ Plan(p5) /\ Len(p5) = k + 5 + s
        /\ \A j \in 1 .. k + 5 + s : p5[j] = IF j <= k + 5 THEN p4[j] ELSE starts[j - (k + 5)]
    <3>1. /\ Plan(p5) /\ Len(p5) = Len(p4) + Len(starts)
          /\ \A j \in 1 .. Len(p4) + Len(starts) :
               p5[j] = IF j <= Len(p4) THEN p4[j] ELSE starts[j - Len(p4)]
      <4>1. Plan(p4) /\ Plan(starts)
        BY <1>2, <1>8, <1>11
      <4> QED
        BY <4>1, Joined
    <3> QED
      BY <1>2, <1>8, <1>11, <3>1
  <2> QED
    BY <1>2, <1>8, <2>1
<1> HIDE DEF p5
<1> DEFINE plan == p5 \o waits
<1>13. Plan(plan) /\ Len(plan) = k + 7 + s /\ \A i \in 1 .. 5 : plan[k + i] = p4[k + i]
  <2>1. /\ Plan(plan) /\ Len(plan) = k + 7 + s
        /\ \A j \in 1 .. k + 7 + s :
             plan[j] = IF j <= k + 5 + s THEN p5[j] ELSE waits[j - (k + 5 + s)]
    <3>1. /\ Plan(plan) /\ Len(plan) = Len(p5) + Len(waits)
          /\ \A j \in 1 .. Len(p5) + Len(waits) :
               plan[j] = IF j <= Len(p5) THEN p5[j] ELSE waits[j - Len(p5)]
      <4>1. Plan(p5) /\ Plan(waits)
        BY <1>2, <1>6, <1>8, <1>12
      <4> QED
        BY <4>1, Joined
    <3> QED
      BY <1>2, <1>6, <1>8, <1>12, <3>1
  <2> QED
    BY <1>2, <1>8, <1>12, <2>1
<1>14. plan = ReleaseCalls(infrastructure, start)
  BY <1>7 DEF p1, p2, p3, p4, p5
<1> HIDE DEF plan
<1> DEFINE e == Len(plan)
<1>15. /\ e - 6 - s = k + 1 /\ e - 5 - s = k + 2 /\ e - 4 - s = k + 3
       /\ e - 3 - s = k + 4 /\ e - 2 - s = k + 5 /\ e > 6 + s
  BY <1>2, <1>8, <1>13
<1>16. /\ plan[k + 1] = Call("import", "hitl") /\ plan[k + 2] = Call("import", "main")
       /\ plan[k + 3] = Call("manifest", None)
       /\ plan[k + 4] = Call("deploy", "hitl") /\ plan[k + 5] = Call("deploy", "main")
  BY <1>9, <1>10, <1>11, <1>13
<1> QED
  BY <1>13, <1>14, <1>15, <1>16 DEF s

LEMMA OtherPlans ==
    ASSUME NEW plan \in {Both("start") \o Both("wait"), Both("wait"), JobCalls}
    PROVE  plan \in Seq(AnyCall) /\ Len(plan) > 0 /\ Foreign(plan)
<1>1. CASE plan = Both("start") \o Both("wait")
  BY <1>1, TwoCalls, Joined DEF OtherOps
<1>2. CASE plan = Both("wait")
  BY <1>2, TwoCalls DEF OtherOps
<1>3. CASE plan = JobCalls
  <2>1. /\ Call("ensure", "hitl") \in AnyCall /\ Call("deploy", "hitl") \in AnyCall
        /\ Call("ensure", "main") \in AnyCall /\ Call("deploy", "main") \in AnyCall
    BY CallsAreCalls DEF Apps, OtherOps
  <2>2. JobCalls \in Seq(AnyCall) /\ Len(JobCalls) = 4
    BY <2>1 DEF JobCalls
  <2>3. \A j \in 1 .. 4 : JobCalls[j].op \in {"ensure", "deploy"}
    BY DEF JobCalls, Call
  <2> QED
    BY <1>3, <2>2, <2>3 DEF Foreign, PrepareOps
<1> QED
  BY <1>1, <1>2, <1>3

LEMMA PlanGoesOn ==
    ASSUME NEW plan \in Seq(AnyCall), todo \in Seq(AnyCall), todo # << >>, Ahead(plan)
    PROVE  /\ Head(todo) = plan[Len(plan) - Len(todo) + 1]
           /\ Len(plan) - Len(todo) + 1 \in 1 .. Len(plan)
           /\ todo' = Tail(todo) => Ahead(plan)' /\ Len(todo') = Len(todo) - 1
<1>1. /\ Len(todo) \in Nat \ {0} /\ Len(plan) \in Nat /\ Head(todo) = todo[1]
      /\ Len(Tail(todo)) = Len(todo) - 1
      /\ \A i \in 1 .. Len(todo) - 1 : Tail(todo)[i] = todo[i + 1]
  OBVIOUS
<1>2. todo[1] = plan[Len(plan) - Len(todo) + 1] /\ Len(plan) - Len(todo) + 1 \in 1 .. Len(plan)
  BY <1>1 DEF Ahead
<1>3. ASSUME todo' = Tail(todo) PROVE Ahead(plan)' /\ Len(todo') = Len(todo) - 1
  <2>1. Len(todo') = Len(todo) - 1 /\ \A i \in 1 .. Len(todo) - 1 : todo'[i] = todo[i + 1]
    BY <1>1, <1>3
  <2>2. ASSUME NEW i \in 1 .. Len(todo) - 1
        PROVE  todo[i + 1] = plan[Len(plan) - (Len(todo) - 1) + i]
    <3>1. i + 1 \in 1 .. Len(todo)
      BY <1>1
    <3>2. todo[i + 1] = plan[Len(plan) - Len(todo) + (i + 1)]
      BY <3>1 DEF Ahead
    <3>3. Len(plan) - Len(todo) + (i + 1) = Len(plan) - (Len(todo) - 1) + i
      BY <1>1
    <3> QED
      BY <3>2, <3>3
  <2>3. Len(todo) - 1 <= Len(plan)
    BY <1>1 DEF Ahead
  <2> QED
    BY <2>1, <2>2, <2>3 DEF Ahead
<1> QED
  BY <1>1, <1>2, <1>3

-----------------------------------------------------------------------------
(* Release: what the scripts have done so far *)

Contents == Revisions \cup Payloads \cup {None}
AppRecord == [there : BOOLEAN, state : {"NONE", "RUNNING", "STOPPED", "STARTING"},
              active : Deployments \cup {None}, pending : {<<>>} \cup {<<c>> : c \in Contents}]

ReleaseShape ==
  /\ checkout \in Revisions
  /\ static \in Revisions \cup {None}
  /\ dist \in Wheels \cup {None}
  /\ local \in Payloads
  /\ remote \in [hitl : Revisions \cup {None}, wheels : SUBSET Wheels, env : Targets \cup {None}]
  /\ apps \in [Apps -> AppRecord]
  /\ todo \in Seq(AnyCall)
  /\ (script = "none") <=> (todo = <<>>)

OnlyPrepareFills == script # "prepare" => Foreign(todo)

\* The UI is built before the wheel, and the wheel before the payload is filled.
Prepared ==
  script = "prepare" => \E t \in Targets :
    /\ Ahead(PrepareCalls(t))
    /\ Len(todo) <= 4 => static = checkout
    /\ Len(todo) <= 3 => dist \in Wheels /\ dist.ui = dist.code

\* What an App has pending, if anything, carries what the manifest names.
Submitted(a) == apps[a].pending # <<>> => Carries(a, apps[a].pending[1])

\* What a release has done when so many calls of it are left, s of them starts.
Published(s) ==
  /\ Len(todo) <= 6 + s => remote.hitl = checkout
  /\ Len(todo) <= 5 + s => local.wheels \subseteq remote.wheels /\ local.env = remote.env
  /\ Len(todo) <= 4 + s => manifest = [hitl |-> checkout, main |-> local]
  /\ Len(todo) <= 3 + s => Submitted("hitl")
  /\ Len(todo) <= 2 + s => Submitted("main")

Released ==
  script = "release" => \E infrastructure, start \in BOOLEAN :
    Ahead(ReleaseCalls(infrastructure, start)) /\ Published(StartCalls(start))

ReleaseInv == ReleaseShape /\ OnlyPrepareFills /\ Prepared /\ Released /\ UiMatchesCode

\* A script that goes on has made the call at the head of its plan.
LEMMA CallGoesOn ==
    ASSUME ReleaseShape, Calls
    PROVE  /\ todo # <<>> /\ checkout' = checkout
           /\ \/ todo' = Tail(todo) /\ (script' = IF Len(todo) = 1 THEN "none" ELSE script)
              \/ todo' = <<>> /\ script' = "none"
<1>1. ~Fails => \E op \in PrepareOps \cup OtherOps : At(op)
  BY DEF Calls, BuildUi, BuildWheel, FillPayload, Validate, BundleDeploy, Import, WriteManifest, DeploySnapshot,
         EnsureApp, StartApp, WaitForHealth, PrepareOps, OtherOps
<1>2. todo # <<>>
  BY <1>1 DEF At, Fails
<1>3. checkout' = checkout
  BY DEF Calls, BuildUi, BuildWheel, FillPayload, Validate, BundleDeploy, Import, WriteManifest, DeploySnapshot,
         EnsureApp, StartApp, WaitForHealth, Fails, sourceVars
<1>4. Passes \/ Ends
  BY DEF Calls, BuildUi, BuildWheel, FillPayload, Validate, BundleDeploy, Import, WriteManifest, DeploySnapshot,
         EnsureApp, StartApp, WaitForHealth, Fails
<1> QED
  BY <1>2, <1>3, <1>4 DEF Passes, Ends

LEMMA TodoAfterCall ==
    ASSUME ReleaseShape, Calls
    PROVE  /\ todo' \in Seq(AnyCall) /\ ((script' = "none") <=> (todo' = <<>>))
           /\ script' \in {script, "none"}
           /\ Foreign(todo) => Foreign(todo')
           /\ script' # "none" => todo' = Tail(todo) /\ script' = script
<1>1. todo \in Seq(AnyCall) /\ todo # <<>> /\ script # "none"
  BY CallGoesOn DEF ReleaseShape
<1>2. /\ Tail(todo) \in Seq(AnyCall) /\ Len(todo) \in Nat \ {0} /\ Len(Tail(todo)) = Len(todo) - 1
      /\ \A i \in 1 .. Len(todo) - 1 : Tail(todo)[i] = todo[i + 1]
  BY <1>1
<1>3. (Len(todo) = 1) <=> (Tail(todo) = <<>>)
  <2>1. (Len(Tail(todo)) = 0) <=> (Tail(todo) = <<>>)
    BY <1>2, EmptySeq
  <2> QED
    BY <1>2, <2>1
<1>4. Foreign(todo) => Foreign(Tail(todo))
  BY <1>2 DEF Foreign
<1>5. <<>> \in Seq(AnyCall) /\ Foreign(<<>>)
  BY DEF Foreign
<1> QED
  BY <1>1, <1>2, <1>3, <1>4, <1>5, CallGoesOn

\* What one call does to the sources and the payloads.
LEMMA SourcesAfterCall ==
    ASSUME ReleaseShape, Calls
    PROVE  /\ static' = static \/ static' = checkout
           /\ script' # "none" /\ Head(todo).op = "ui" => static' = checkout
           /\ dist' \in {dist, Built} \/ (script' = "none" /\ dist' = None)
           /\ script' # "none" /\ Head(todo).op = "wheel" => dist' = Built
           /\ \/ local' = local
              \/ Head(todo).op = "clear" /\ local' = [local EXCEPT !.wheels = {}]
              \/ Head(todo).op = "copy" /\ local' = [local EXCEPT !.wheels = @ \cup {dist}]
              \/ Head(todo).op = "sync" /\ local' = [local EXCEPT !.env = Head(todo).of]
           /\ \/ remote' = remote
              \/ remote' = [remote EXCEPT !.hitl = checkout]
              \/ remote' = [remote EXCEPT !.wheels = Overwritten(local.wheels), !.env = local.env]
              \/ script' = "none" /\ remote' = [remote EXCEPT !.wheels = Overwritten(local.wheels)]
              \/ remote' \in Synced
           /\ script' # "none" /\ Head(todo) = Call("import", "hitl") =>
                remote' = [remote EXCEPT !.hitl = checkout]
           /\ script' # "none" /\ Head(todo) = Call("import", "main") =>
                remote' = [remote EXCEPT !.wheels = Overwritten(local.wheels), !.env = local.env]
           /\ manifest' = manifest \/ manifest' = [hitl |-> checkout, main |-> local]
           /\ script' # "none" /\ Head(todo) = Call("manifest", None) =>
                manifest' = [hitl |-> checkout, main |-> local]
<1> USE DEF Calls, BuildUi, BuildWheel, FillPayload, Validate, BundleDeploy, Import, WriteManifest,
            DeploySnapshot, EnsureApp, StartApp, WaitForHealth, Fails, Ends, At,
            sourceVars, payloadVars
<1>1. static' = static \/ static' = checkout
  OBVIOUS
<1>2. script' # "none" /\ Head(todo).op = "ui" => static' = checkout
  OBVIOUS
<1>3. dist' \in {dist, Built} \/ (script' = "none" /\ dist' = None)
  OBVIOUS
<1>4. script' # "none" /\ Head(todo).op = "wheel" => dist' = Built
  OBVIOUS
<1>5. \/ local' = local
      \/ Head(todo).op = "clear" /\ local' = [local EXCEPT !.wheels = {}]
      \/ Head(todo).op = "copy" /\ local' = [local EXCEPT !.wheels = @ \cup {dist}]
      \/ Head(todo).op = "sync" /\ local' = [local EXCEPT !.env = Head(todo).of]
  OBVIOUS
<1>6. \/ remote' = remote
      \/ remote' = [remote EXCEPT !.hitl = checkout]
      \/ remote' = [remote EXCEPT !.wheels = Overwritten(local.wheels), !.env = local.env]
      \/ script' = "none" /\ remote' = [remote EXCEPT !.wheels = Overwritten(local.wheels)]
      \/ remote' \in Synced
  OBVIOUS
<1>7. script' # "none" /\ Head(todo) = Call("import", "hitl") =>
        remote' = [remote EXCEPT !.hitl = checkout]
  BY DEF Call
<1>8. script' # "none" /\ Head(todo) = Call("import", "main") =>
        remote' = [remote EXCEPT !.wheels = Overwritten(local.wheels), !.env = local.env]
  BY DEF Call
<1>9. manifest' = manifest \/ manifest' = [hitl |-> checkout, main |-> local]
  OBVIOUS
<1>10. script' # "none" /\ Head(todo) = Call("manifest", None) =>
         manifest' = [hitl |-> checkout, main |-> local]
  BY DEF Call
<1> QED
  BY <1>1, <1>2, <1>3, <1>4, <1>5, <1>6, <1>7, <1>8, <1>9, <1>10

LEMMA AppRecords ==
    ASSUME ReleaseShape, NEW a \in Apps
    PROVE  /\ Content(a) \in Contents /\ apps[a] \in AppRecord
           /\ \A p \in {<<>>, <<Content(a)>>} :
                /\ [apps[a] EXCEPT !.pending = p] \in AppRecord
                /\ [apps[a] EXCEPT !.pending = p].pending = p
           /\ \A s \in {"NONE", "RUNNING", "STOPPED", "STARTING"} :
                /\ [apps[a] EXCEPT !.state = s] \in AppRecord
                /\ [apps[a] EXCEPT !.state = s].pending = apps[a].pending
           /\ \A d \in Deployments :
                /\ [apps[a] EXCEPT !.pending = <<>>, !.active = d] \in AppRecord
                /\ [apps[a] EXCEPT !.pending = <<>>, !.active = d].pending = <<>>
           /\ NoApp \in AppRecord /\ NoApp.pending = <<>>
           /\ Created \in AppRecord /\ Created.pending = <<>>
           /\ \A s \in {"RUNNING", "STOPPED"} :
                /\ [Created EXCEPT !.state = s] \in AppRecord
                /\ [Created EXCEPT !.state = s].pending = <<>>
<1>1. apps[a] \in AppRecord /\ Content(a) \in Contents
  BY DEF ReleaseShape, Content, Contents, Payloads
<1>2. /\ NoApp \in AppRecord /\ NoApp.pending = <<>>
      /\ Created \in AppRecord /\ Created.pending = <<>>
      /\ \A s \in {"RUNNING", "STOPPED"} :
           /\ [Created EXCEPT !.state = s] \in AppRecord
           /\ [Created EXCEPT !.state = s].pending = <<>>
  BY DEF NoApp, Created, AppRecord
<1> QED
  BY <1>1, <1>2 DEF AppRecord

\* And to the Apps.
LEMMA AppsAfterCall ==
    ASSUME ReleaseShape, Calls
    PROVE  /\ apps' \in [Apps -> AppRecord]
           /\ \A a \in Apps : apps'[a].pending \in {apps[a].pending, <<>>, <<Content(a)>>}
           /\ \A a \in Apps : script' # "none" /\ Head(todo) = Call("deploy", a) =>
                apps'[a].pending = <<Content(a)>>
<1>1. apps \in [Apps -> AppRecord]
  BY DEF ReleaseShape
<1>2. ASSUME NEW a \in Apps, NEW r \in AppRecord, apps' = [apps EXCEPT ![a] = r]
      PROVE  /\ apps' \in [Apps -> AppRecord] /\ apps'[a] = r
             /\ \A b \in Apps \ {a} : apps'[b] = apps[b]
  BY <1>1, <1>2
<1>3. CASE UNCHANGED apps /\ ~(script' # "none" /\ At("deploy"))
  <2>1. \A a \in Apps : Head(todo) = Call("deploy", a) => At("deploy")
    BY CallGoesOn DEF Call, At
  <2> QED
    BY <1>1, <1>3, <2>1
<1>4. CASE DeploySnapshot
  <2> DEFINE a == Head(todo).of
             r == [apps[a] EXCEPT !.pending = <<Content(a)>>]
  <2>1. apps' = [apps EXCEPT ![a] = r]
    BY <1>4 DEF DeploySnapshot
  <2>2. \A b \in Apps : Head(todo) = Call("deploy", b) => b = a
    BY DEF Call
  <2>3. CASE a \in Apps
    <3>1. r \in AppRecord /\ r.pending = <<Content(a)>>
      BY <2>3, AppRecords
    <3> HIDE DEF r, a
    <3> QED
      BY <1>2, <2>1, <2>2, <2>3, <3>1
  <2>4. CASE a \notin Apps
    <3>1. apps' = apps
      BY <1>1, <2>1, <2>4
    <3> HIDE DEF r, a
    <3> QED
      BY <1>1, <2>2, <2>4, <3>1
  <2> QED
    BY <2>3, <2>4
<1>5. CASE EnsureApp \/ StartApp
  <2> DEFINE a == Head(todo).of
  <2>1. \A b : Head(todo) # Call("deploy", b)
    BY <1>5 DEF EnsureApp, StartApp, At, Call
  <2>2. \/ apps' = apps \/ apps' = [apps EXCEPT ![a] = Created]
        \/ a \in Apps /\ \E s \in {"NONE", "RUNNING", "STOPPED", "STARTING"} :
             apps' = [apps EXCEPT ![a] = [apps[a] EXCEPT !.state = s]]
    <3>1. CASE EnsureApp
      BY <3>1 DEF EnsureApp
    <3>2. CASE StartApp
      <4>1. CASE a \in Apps
        BY <1>1, <3>2, <4>1 DEF StartApp, AppRecord
      <4>2. CASE a \notin Apps
        BY <1>1, <3>2, <4>2 DEF StartApp
      <4> QED
        BY <4>1, <4>2
    <3> QED
      BY <1>5, <3>1, <3>2
  <2>3. CASE apps' = apps
    BY <1>1, <2>1, <2>3
  <2>4. CASE apps' = [apps EXCEPT ![a] = Created] /\ a \in Apps
    <3>1. Created \in AppRecord /\ Created.pending = <<>>
      BY <2>4, AppRecords
    <3> QED
      BY <1>2, <2>1, <2>4, <3>1
  <2>5. CASE apps' = [apps EXCEPT ![a] = Created] /\ a \notin Apps
    BY <1>1, <2>3, <2>5
  <2>6. ASSUME a \in Apps, NEW s \in {"NONE", "RUNNING", "STOPPED", "STARTING"},
               apps' = [apps EXCEPT ![a] = [apps[a] EXCEPT !.state = s]]
        PROVE  /\ apps' \in [Apps -> AppRecord]
               /\ \A b \in Apps : apps'[b].pending = apps[b].pending
    <3>1. /\ [apps[a] EXCEPT !.state = s] \in AppRecord
          /\ [apps[a] EXCEPT !.state = s].pending = apps[a].pending
      BY <2>6, AppRecords
    <3> QED
      BY <1>2, <2>6, <3>1
  <2> QED
    BY <2>1, <2>2, <2>3, <2>4, <2>5, <2>6
<1>6. CASE BundleDeploy
  <2>1. \A a \in Apps : Head(todo) # Call("deploy", a)
    BY <1>6 DEF BundleDeploy, At, Call
  <2>2. CASE UNCHANGED apps
    BY <1>1, <2>1, <2>2
  <2>3. CASE ~UNCHANGED apps
    <3>1. PICK new \in SUBSET Apps, state \in {"RUNNING", "STOPPED"} :
            apps' = [a \in Apps |-> IF a \in new THEN [Created EXCEPT !.state = state] ELSE apps[a]]
      BY <1>6, <2>3 DEF BundleDeploy
    <3>2. \A a \in Apps : /\ apps'[a] \in AppRecord
                          /\ apps'[a].pending \in {apps[a].pending, <<>>}
      BY <1>1, <3>1, AppRecords
    <3>3. apps' \in [Apps -> AppRecord]
      BY <3>1, <3>2
    <3> QED
      BY <2>1, <3>2, <3>3
  <2> QED
    BY <2>2, <2>3
<1> QED
  <2>1. \/ DeploySnapshot \/ EnsureApp \/ StartApp \/ BundleDeploy
        \/ UNCHANGED apps /\ ~(script' # "none" /\ At("deploy"))
    BY DEF Calls, BuildUi, BuildWheel, FillPayload, Validate, BundleDeploy, Import, WriteManifest,
       WaitForHealth, Fails, Ends, At, appVars
  <2> QED
    BY <1>3, <1>4, <1>5, <1>6, <2>1

LEMMA AppsAfterPlatform ==
    ASSUME ReleaseShape, Platform
    PROVE  /\ apps' \in [Apps -> AppRecord]
           /\ \A a \in Apps : apps'[a].pending \in {apps[a].pending, <<>>}
<1>1. apps \in [Apps -> AppRecord]
  BY DEF ReleaseShape
<1>2. PICK a \in Apps : DeploymentEnds(a) \/ StateChanges(a) \/ Deleted(a)
  BY DEF Platform
<1>3. ASSUME NEW r \in AppRecord, apps' = [apps EXCEPT ![a] = r],
             r.pending \in {apps[a].pending, <<>>}
      PROVE  /\ apps' \in [Apps -> AppRecord]
             /\ \A b \in Apps : apps'[b].pending \in {apps[b].pending, <<>>}
  BY <1>1, <1>3
<1>4. CASE Deleted(a)
  BY <1>3, <1>4, AppRecords DEF Deleted
<1>5. CASE StateChanges(a)
  <2>1. PICK s \in {"RUNNING", "STOPPED"} : apps' = [apps EXCEPT ![a] = [apps[a] EXCEPT !.state = s]]
    BY <1>5 DEF StateChanges
  <2>2. /\ [apps[a] EXCEPT !.state = s] \in AppRecord
        /\ [apps[a] EXCEPT !.state = s].pending = apps[a].pending
    BY AppRecords
  <2> QED
    BY <1>3, <2>1, <2>2
<1>6. CASE DeploymentEnds(a)
  <2>1. apps[a].pending[1] \in Contents
    <3>1. apps[a].pending \in {<<c>> : c \in Contents}
      BY <1>1, <1>6 DEF DeploymentEnds, AppRecord
    <3> QED
      BY <3>1
  <2>2. PICK ended \in {[content |-> apps[a].pending[1], state |-> s] : s \in {"SUCCEEDED", "FAILED"}} :
          \/ apps' = [apps EXCEPT ![a].pending = <<>>, ![a].active = ended]
          \/ apps' = [apps EXCEPT ![a].pending = <<>>]
    BY <1>6 DEF DeploymentEnds
  <2>3. ended \in Deployments
    BY <2>1, <2>2 DEF Deployments, Contents
  <2>4. \/ apps' = [apps EXCEPT ![a] = [apps[a] EXCEPT !.pending = <<>>, !.active = ended]]
        \/ apps' = [apps EXCEPT ![a] = [apps[a] EXCEPT !.pending = <<>>]]
    BY <1>1, <2>2
  <2>5. /\ [apps[a] EXCEPT !.pending = <<>>, !.active = ended] \in AppRecord
        /\ [apps[a] EXCEPT !.pending = <<>>, !.active = ended].pending = <<>>
        /\ [apps[a] EXCEPT !.pending = <<>>] \in AppRecord
        /\ [apps[a] EXCEPT !.pending = <<>>].pending = <<>>
    BY <2>3, AppRecords
  <2> QED
    BY <1>3, <2>4, <2>5
<1> QED
  BY <1>2, <1>4, <1>5, <1>6

-----------------------------------------------------------------------------
(* Release: every step keeps it *)

LEMMA PlanBegins ==
    ASSUME ScriptStarts
    PROVE  /\ script = "none" /\ script' # "none"
           /\ UNCHANGED <<sourceVars, payloadVars, apps>>
           /\ todo' \in Seq(AnyCall) /\ Len(todo') > 0
           /\ \/ \E t \in Targets : script' = "prepare" /\ todo' = PrepareCalls(t)
              \/ /\ script' = "release" /\ Foreign(todo')
                 /\ \E infrastructure, start \in BOOLEAN : todo' = ReleaseCalls(infrastructure, start)
              \/ script' \notin {"prepare", "release"} /\ Foreign(todo')
<1>1. CASE Prepare
  <2>1. PICK t \in Targets : Runs("prepare", PrepareCalls(t))
    BY <1>1 DEF Prepare
  <2> QED
    BY <2>1, PreparePlan DEF Runs, Starts
<1>2. CASE StartRelease
  <2>1. PICK infrastructure \in BOOLEAN, start \in BOOLEAN :
          Runs("release", ReleaseCalls(infrastructure, start))
    BY <1>2 DEF StartRelease
  <2>2. /\ ReleaseCalls(infrastructure, start) \in Seq(AnyCall)
        /\ Len(ReleaseCalls(infrastructure, start)) > 6 + StartCalls(start)
        /\ Foreign(ReleaseCalls(infrastructure, start))
    BY ReleasePlan
  <2>3. StartCalls(start) \in Nat
    BY DEF StartCalls
  <2>4. Len(ReleaseCalls(infrastructure, start)) > 0
    BY <2>2, <2>3
  <2> QED
    BY <2>1, <2>2, <2>4 DEF Runs, Starts
<1>3. CASE StartAndCheck \/ CheckOnly \/ DeployJob
  <2>1. PICK plan \in {Both("start") \o Both("wait"), Both("wait"), JobCalls},
             name \in {"start_and_check", "check_only", "job"} : Runs(name, plan)
    BY <1>3 DEF StartAndCheck, CheckOnly, DeployJob
  <2>2. plan \in Seq(AnyCall) /\ Len(plan) > 0 /\ Foreign(plan)
    BY OtherPlans
  <2> QED
    BY <2>1, <2>2 DEF Runs, Starts
<1> QED
  BY <1>1, <1>2, <1>3 DEF ScriptStarts

\* Outside of a script's start and a call, only a checkout and the Apps change.
\* A checkout brings no wheels but committed ones.
LEMMA StepKinds ==
    ASSUME ReleaseShape, [ReleaseNext]_releaseVars
    PROVE  \/ ScriptStarts
           \/ Calls
           \/ /\ script = "none" /\ checkout' \in Revisions
              /\ local' \in Payloads /\ local'.wheels \subseteq local.wheels \cup Committed
              /\ UNCHANGED <<static, dist, remote, manifest, apps, script, todo>>
           \/ /\ UNCHANGED <<sourceVars, payloadVars, script, todo>>
              /\ apps' \in [Apps -> AppRecord]
              /\ \A a \in Apps : apps'[a].pending \in {apps[a].pending, <<>>}
<1>1. CASE Edit
  <2>1. PICK r \in Revisions : checkout' = r /\ local' \in {CheckedOut(r), local}
    BY <1>1 DEF Edit
  <2>2. /\ Tracked[r] \in Payloads /\ Tracked[r].wheels \subseteq Committed
        /\ local \in Payloads
    BY ReleaseAssumption DEF Committed, ReleaseShape
  <2>3. CheckedOut(r) \in Payloads /\ CheckedOut(r).wheels \subseteq local.wheels \cup Committed
    BY <2>2 DEF CheckedOut, Payloads
  <2> QED
    BY <1>1, <2>1, <2>2, <2>3 DEF Edit, appVars
<1>2. CASE Platform
  BY <1>2, AppsAfterPlatform DEF Platform
<1>3. CASE UNCHANGED releaseVars
  BY <1>3 DEF releaseVars, ReleaseShape, appVars
<1> QED
  BY <1>1, <1>2, <1>3 DEF ReleaseNext

\* The calls of the preparation are made by it alone, and in the order of its plan.
LEMMA PreparationCall ==
    ASSUME ReleaseShape, OnlyPrepareFills, Prepared, Calls, Head(todo).op \in PrepareOps
    PROVE  /\ script = "prepare"
           /\ Head(todo).op = "copy" => dist \in Wheels /\ dist.ui = dist.code
           /\ Head(todo).op = "sync" => Head(todo).of \in Targets
<1>1. todo \in Seq(AnyCall) /\ todo # <<>>
  BY CallGoesOn DEF ReleaseShape
<1>2. Len(todo) \in Nat \ {0} /\ Head(todo) = todo[1]
  BY <1>1
<1>3. ~Foreign(todo)
  BY <1>2 DEF Foreign
<1>4. script = "prepare"
  BY <1>3 DEF OnlyPrepareFills
<1>5. PICK t \in Targets : /\ Ahead(PrepareCalls(t))
                           /\ Len(todo) <= 3 => dist \in Wheels /\ dist.ui = dist.code
  BY <1>4 DEF Prepared
<1> DEFINE plan == PrepareCalls(t)
<1>6. plan \in Seq(AnyCall) /\ Len(plan) = 5
  BY PreparePlan
<1>7. \A j \in 1 .. 5 : /\ plan[j].op = "copy" => j = 4
                        /\ plan[j].op = "sync" => plan[j].of \in Targets
  BY PreparePlan
<1> HIDE DEF plan
<1>8. Ahead(plan)
  BY <1>5 DEF plan
<1>9. Head(todo) = plan[5 - Len(todo) + 1] /\ 5 - Len(todo) + 1 \in 1 .. 5
  BY <1>1, <1>6, <1>8, PlanGoesOn
<1>10. Head(todo).op = "copy" => Len(todo) <= 3
  BY <1>2, <1>7, <1>9
<1> QED
  BY <1>4, <1>5, <1>7, <1>9, <1>10

LEMMA ShapeAfterCall ==
    ASSUME ReleaseShape, OnlyPrepareFills, Prepared, Calls
    PROVE  ReleaseShape'
<1>1. checkout' \in Revisions
  BY CallGoesOn DEF ReleaseShape
<1>2. static' \in Revisions \cup {None}
  BY SourcesAfterCall DEF ReleaseShape
<1>3. dist' \in Wheels \cup {None}
  <2>1. Built \in Wheels
    BY DEF ReleaseShape, Wheels, Built
  <2> QED
    BY <2>1, SourcesAfterCall DEF ReleaseShape
<1>4. local' \in Payloads
  <2>1. local \in Payloads /\ local.wheels \subseteq Wheels
    BY DEF ReleaseShape, Payloads
  <2>2. CASE local' = [local EXCEPT !.wheels = {}]
    BY <2>1, <2>2 DEF Payloads
  <2>3. CASE Head(todo).op = "copy" /\ local' = [local EXCEPT !.wheels = @ \cup {dist}]
    <3>1. dist \in Wheels
      BY <2>3, PreparationCall DEF PrepareOps
    <3> QED
      BY <2>1, <2>3, <3>1 DEF Payloads
  <2>4. CASE Head(todo).op = "sync" /\ local' = [local EXCEPT !.env = Head(todo).of]
    <3>1. Head(todo).of \in Targets
      BY <2>4, PreparationCall DEF PrepareOps
    <3> QED
      BY <2>1, <2>4, <3>1 DEF Payloads
  <2> QED
    BY <2>1, <2>2, <2>3, <2>4, SourcesAfterCall
<1>5. remote' \in [hitl : Revisions \cup {None}, wheels : SUBSET Wheels, env : Targets \cup {None}]
  <2>1. /\ checkout \in Revisions /\ local.wheels \subseteq Wheels /\ local.env \in Targets \cup {None}
        /\ remote \in [hitl : Revisions \cup {None}, wheels : SUBSET Wheels, env : Targets \cup {None}]
    BY DEF ReleaseShape, Payloads
  <2>2. Overwritten(local.wheels) \in SUBSET Wheels
    BY <2>1 DEF Overwritten
  <2>3. \/ remote' = remote
        \/ remote' = [remote EXCEPT !.hitl = checkout]
        \/ remote' = [remote EXCEPT !.wheels = Overwritten(local.wheels), !.env = local.env]
        \/ remote' = [remote EXCEPT !.wheels = Overwritten(local.wheels)]
        \/ remote' \in Synced
    BY SourcesAfterCall
  <2>4. Synced \subseteq [hitl : Revisions \cup {None}, wheels : SUBSET Wheels,
                         env : Targets \cup {None}]
    BY <2>1, <2>2 DEF Synced
  <2> QED
    BY <2>1, <2>2, <2>3, <2>4
<1>6. apps' \in [Apps -> AppRecord]
  BY AppsAfterCall
<1>7. todo' \in Seq(AnyCall) /\ ((script' = "none") <=> (todo' = <<>>))
  BY TodoAfterCall
<1> QED
  BY <1>1, <1>2, <1>3, <1>4, <1>5, <1>6, <1>7 DEF ReleaseShape

LEMMA ReleaseShapePreserved ==
    ASSUME ReleaseShape, OnlyPrepareFills, Prepared, [ReleaseNext]_releaseVars
    PROVE  ReleaseShape'
<1>1. CASE ScriptStarts
  <2>1. todo' # <<>>
    BY <1>1, PlanBegins
  <2> QED
    BY <1>1, <2>1, PlanBegins DEF ReleaseShape, sourceVars, payloadVars
<1>2. CASE Calls
  BY <1>2, ShapeAfterCall
<1>3. CASE ~ScriptStarts /\ ~Calls
  BY <1>3, StepKinds DEF ReleaseShape, sourceVars, payloadVars
<1> QED
  BY <1>1, <1>2, <1>3

LEMMA OnlyPrepareFillsPreserved ==
    ASSUME ReleaseShape, OnlyPrepareFills, [ReleaseNext]_releaseVars
    PROVE  OnlyPrepareFills'
<1>1. CASE ScriptStarts
  BY <1>1, PlanBegins DEF OnlyPrepareFills
<1>2. CASE Calls
  <2>1. Foreign(<<>>)
    BY DEF Foreign
  <2> QED
    BY <1>2, <2>1, TodoAfterCall DEF OnlyPrepareFills
<1>3. CASE ~ScriptStarts /\ ~Calls
  BY <1>3, StepKinds DEF OnlyPrepareFills
<1> QED
  BY <1>1, <1>2, <1>3

LEMMA PreparedAfterCall ==
    ASSUME ReleaseShape, Prepared, Calls
    PROVE  Prepared'
<1> SUFFICES ASSUME script' = "prepare" PROVE Prepared'
  BY DEF Prepared
<1>1. todo \in Seq(AnyCall) /\ todo # <<>> /\ todo' = Tail(todo) /\ script = "prepare"
  BY TodoAfterCall, CallGoesOn DEF ReleaseShape
<1>2. PICK t \in Targets : /\ Ahead(PrepareCalls(t))
                           /\ Len(todo) <= 4 => static = checkout
                           /\ Len(todo) <= 3 => dist \in Wheels /\ dist.ui = dist.code
  BY <1>1 DEF Prepared
<1> DEFINE plan == PrepareCalls(t)
<1>3. plan \in Seq(AnyCall) /\ Len(plan) = 5 /\ plan[1].op = "ui" /\ plan[2].op = "wheel"
  BY PreparePlan
<1> HIDE DEF plan
<1>4. Ahead(plan)
  BY <1>2 DEF plan
<1>5. /\ Head(todo) = plan[5 - Len(todo) + 1] /\ 5 - Len(todo) + 1 \in 1 .. 5
      /\ Ahead(plan)' /\ Len(todo') = Len(todo) - 1
  BY <1>1, <1>3, <1>4, PlanGoesOn
<1>6. Len(todo) \in Nat
  BY <1>1
<1>7. checkout' = checkout /\ checkout \in Revisions
  BY CallGoesOn DEF ReleaseShape
<1>8. Len(todo') <= 4 => static' = checkout'
  <2>1. CASE Len(todo) <= 4
    BY <1>2, <1>7, <2>1, SourcesAfterCall
  <2>2. CASE Len(todo) = 5
    <3>1. Head(todo).op = "ui"
      BY <1>3, <1>5, <2>2
    <3> QED
      BY <1>7, <3>1, SourcesAfterCall
  <2> QED
    BY <1>5, <1>6, <2>1, <2>2
<1>9. Len(todo') <= 3 => dist' \in Wheels /\ dist'.ui = dist'.code
  <2> SUFFICES ASSUME Len(todo') <= 3 PROVE dist' \in Wheels /\ dist'.ui = dist'.code
    OBVIOUS
  <2>1. Len(todo) <= 4 /\ static = checkout
    BY <1>2, <1>5, <1>6
  <2>2. Built \in Wheels /\ Built.ui = Built.code
    BY <1>7, <2>1 DEF Wheels, Built
  <2>3. CASE Len(todo) = 4
    <3>1. Head(todo).op = "wheel"
      BY <1>3, <1>5, <2>3
    <3> QED
      BY <2>2, <3>1, SourcesAfterCall
  <2>4. CASE Len(todo) <= 3
    <3>1. dist' = dist \/ dist' = Built
      BY SourcesAfterCall
    <3> QED
      BY <1>2, <2>2, <2>4, <3>1
  <2>5. Len(todo) <= 4
    BY <2>1
  <2>6. Len(todo) = 4 \/ Len(todo) <= 3
    <3>1. \A n \in Nat : n <= 4 => n = 4 \/ n <= 3
      OBVIOUS
    <3> QED
      BY <1>6, <2>5, <3>1
  <2> QED
    BY <2>3, <2>4, <2>6
<1> QED
  BY <1>5, <1>8, <1>9 DEF Prepared, plan

LEMMA PreparedPreserved ==
    ASSUME ReleaseShape, Prepared, [ReleaseNext]_releaseVars
    PROVE  Prepared'
<1>1. CASE ScriptStarts
  <2> SUFFICES ASSUME script' = "prepare" PROVE Prepared'
    BY DEF Prepared
  <2>1. PICK t \in Targets : todo' = PrepareCalls(t)
    BY <1>1, PlanBegins
  <2>2. Len(todo') = 5
    BY <2>1, PreparePlan
  <2>3. Ahead(PrepareCalls(t))'
    BY <2>1, <2>2 DEF Ahead, PrepareCalls
  <2> QED
    BY <2>2, <2>3 DEF Prepared
<1>2. CASE Calls
  BY <1>2, PreparedAfterCall
<1>3. CASE ~ScriptStarts /\ ~Calls
  BY <1>3, StepKinds DEF Prepared, Ahead, sourceVars
<1> QED
  BY <1>1, <1>2, <1>3

LEMMA UiMatchesCodePreserved ==
    ASSUME ReleaseShape, OnlyPrepareFills, Prepared, UiMatchesCode, [ReleaseNext]_releaseVars
    PROVE  UiMatchesCode'
<1>1. CASE ScriptStarts
  BY <1>1, PlanBegins DEF UiMatchesCode, payloadVars
<1>2. CASE Calls
  <2>1. /\ local \in [wheels : SUBSET Wheels, env : Targets \cup {None}]
        /\ remote \in [hitl : Revisions \cup {None}, wheels : SUBSET Wheels, env : Targets \cup {None}]
    BY DEF ReleaseShape, Payloads
  <2>2. ASSUME NEW w \in local'.wheels, w \notin Committed PROVE w.ui = w.code
    <3>1. CASE Head(todo).op = "copy" /\ local' = [local EXCEPT !.wheels = @ \cup {dist}]
      <4>1. dist.ui = dist.code
        BY <1>2, <3>1, PreparationCall DEF PrepareOps
      <4> QED
        BY <2>1, <2>2, <3>1, <4>1 DEF UiMatchesCode
    <3>2. CASE local'.wheels \subseteq local.wheels
      BY <2>2, <3>2 DEF UiMatchesCode
    <3> QED
      BY <1>2, <2>1, <3>1, <3>2, SourcesAfterCall
  <2>3. remote'.wheels \subseteq remote.wheels \cup local.wheels
    <3>1. Overwritten(local.wheels) \subseteq remote.wheels \cup local.wheels
      BY DEF Overwritten
    <3>2. \A r \in Synced : r.wheels \subseteq remote.wheels \cup local.wheels
      BY <3>1 DEF Synced
    <3> QED
      BY <1>2, <2>1, <3>1, <3>2, SourcesAfterCall
  <2> QED
    BY <2>2, <2>3 DEF UiMatchesCode, Committed
<1>3. CASE ~ScriptStarts /\ ~Calls
  <2>1. /\ local'.wheels \subseteq local.wheels \cup Committed
        /\ remote'.wheels \subseteq remote.wheels
    BY <1>3, StepKinds DEF payloadVars
  <2> QED
    BY <2>1 DEF UiMatchesCode, Committed
<1> QED
  BY <1>1, <1>2, <1>3

\* What is pending stays what the manifest names, and what is submitted becomes it.
LEMMA SubmittedPreserved ==
    ASSUME NEW a \in Apps, manifest' = [hitl |-> checkout, main |-> local],
           apps'[a].pending \in {<<>>, <<Content(a)>>}
             \/ (manifest' = manifest /\ Submitted(a) /\ apps'[a].pending = apps[a].pending),
           remote.hitl = checkout, local.wheels \subseteq remote.wheels, local.env = remote.env
    PROVE  Submitted(a)'
<1>1. CASE manifest' = manifest /\ Submitted(a) /\ apps'[a].pending = apps[a].pending
  BY <1>1 DEF Submitted, Carries
<1>2. CASE apps'[a].pending = <<>>
  BY <1>2 DEF Submitted
<1>3. CASE apps'[a].pending = <<Content(a)>>
  <2>1. apps'[a].pending[1] = Content(a)
    BY <1>3
  <2> QED
    BY <2>1 DEF Submitted, Carries, Content
<1> QED
  BY <1>1, <1>2, <1>3

LEMMA ReleasedAfterCall ==
    ASSUME ReleaseShape, OnlyPrepareFills, Released, Calls
    PROVE  Released'
<1> SUFFICES ASSUME script' = "release" PROVE Released'
  BY DEF Released
<1>1. todo \in Seq(AnyCall) /\ todo # <<>> /\ todo' = Tail(todo) /\ script = "release"
  BY TodoAfterCall, CallGoesOn DEF ReleaseShape
<1>2. PICK infrastructure \in BOOLEAN, start \in BOOLEAN :
        Ahead(ReleaseCalls(infrastructure, start)) /\ Published(StartCalls(start))
  BY <1>1 DEF Released
<1> DEFINE plan == ReleaseCalls(infrastructure, start)
           s == StartCalls(start)
           n == Len(todo)
           e == Len(plan)
<1>3. /\ plan \in Seq(AnyCall)
      /\ plan[e - 6 - s] = Call("import", "hitl") /\ plan[e - 5 - s] = Call("import", "main")
      /\ plan[e - 4 - s] = Call("manifest", None)
      /\ plan[e - 3 - s] = Call("deploy", "hitl") /\ plan[e - 2 - s] = Call("deploy", "main")
  BY ReleasePlan
<1>4. s \in Nat
  BY DEF StartCalls
<1>5. Ahead(plan) /\ Published(s)
  BY <1>2
<1> HIDE DEF plan, s
<1>6. /\ Head(todo) = plan[e - n + 1] /\ Ahead(plan)' /\ Len(todo') = n - 1
      /\ e \in Nat /\ n \in Nat
  BY <1>1, <1>3, <1>5, PlanGoesOn
<1>7. /\ n = 7 + s => Head(todo) = Call("import", "hitl")
      /\ n = 6 + s => Head(todo) = Call("import", "main")
      /\ n = 5 + s => Head(todo) = Call("manifest", None)
      /\ n = 4 + s => Head(todo) = Call("deploy", "hitl")
      /\ n = 3 + s => Head(todo) = Call("deploy", "main")
  <2>1. /\ n = 7 + s => e - n + 1 = e - 6 - s
        /\ n = 6 + s => e - n + 1 = e - 5 - s
        /\ n = 5 + s => e - n + 1 = e - 4 - s
        /\ n = 4 + s => e - n + 1 = e - 3 - s
        /\ n = 3 + s => e - n + 1 = e - 2 - s
    BY <1>4, <1>6
  <2> QED
    BY <1>3, <1>6, <2>1
<1>8. checkout' = checkout /\ local' = local
  <2>1. Foreign(todo) /\ Len(todo) \in Nat \ {0} /\ Head(todo) = todo[1]
    BY <1>1 DEF OnlyPrepareFills
  <2>2. Head(todo).op \notin PrepareOps
    BY <2>1 DEF Foreign
  <2> QED
    BY <2>2, CallGoesOn, SourcesAfterCall DEF PrepareOps
<1> DEFINE over == [remote EXCEPT !.wheels = Overwritten(local.wheels), !.env = local.env]
<1>9. /\ remote' \in {remote, [remote EXCEPT !.hitl = checkout], over} \cup Synced
      /\ manifest' \in {manifest, [hitl |-> checkout, main |-> local]}
  BY SourcesAfterCall
<1>10. /\ over.hitl = remote.hitl /\ local.wheels \subseteq over.wheels /\ over.env = local.env
       /\ [remote EXCEPT !.hitl = checkout].hitl = checkout
       /\ [remote EXCEPT !.hitl = checkout].wheels = remote.wheels
       /\ [remote EXCEPT !.hitl = checkout].env = remote.env
  BY DEF ReleaseShape, Overwritten
<1> HIDE DEF over
<1>a. /\ remote.hitl = checkout => remote'.hitl = checkout
      /\ local.wheels \subseteq remote.wheels => local.wheels \subseteq remote'.wheels
      /\ local.env = remote.env => local.env = remote'.env
  <2>1. CASE remote' \in Synced
    <3>1. /\ remote'.hitl \in {remote.hitl, checkout} /\ remote'.env \in {remote.env, local.env}
          /\ remote'.wheels \in {remote.wheels, Overwritten(local.wheels), local.wheels}
      BY <2>1 DEF Synced
    <3>2. local.wheels \subseteq Overwritten(local.wheels)
      BY DEF Overwritten
    <3> QED
      BY <3>1, <3>2
  <2>2. CASE remote' \notin Synced
    BY <1>9, <1>10, <2>2
  <2> QED
    BY <2>1, <2>2
<1> USE DEF over
<1>11. /\ n = 7 + s => remote' = [remote EXCEPT !.hitl = checkout]
       /\ n = 6 + s => remote' = over
       /\ n = 5 + s => manifest' = [hitl |-> checkout, main |-> local]
       /\ n = 4 + s => apps'["hitl"].pending = <<Content("hitl")>>
       /\ n = 3 + s => apps'["main"].pending = <<Content("main")>>
  BY <1>7, SourcesAfterCall, AppsAfterCall DEF Apps
<1> HIDE DEF over
<1>12. n - 1 <= 6 + s => remote'.hitl = checkout'
  <2>1. CASE n <= 6 + s
    BY <1>5, <1>8, <1>a, <2>1 DEF Published
  <2>2. CASE n = 7 + s
    BY <1>8, <1>10, <1>11, <2>2
  <2> QED
    BY <1>4, <1>6, <2>1, <2>2
<1>13. n - 1 <= 5 + s => local'.wheels \subseteq remote'.wheels /\ local'.env = remote'.env
  <2>1. CASE n <= 5 + s
    BY <1>5, <1>8, <1>a, <2>1 DEF Published
  <2>2. CASE n = 6 + s
    BY <1>8, <1>10, <1>11, <2>2
  <2> QED
    BY <1>4, <1>6, <2>1, <2>2
<1>14. n - 1 <= 4 + s => manifest' = [hitl |-> checkout, main |-> local]
  <2>1. CASE n <= 4 + s
    BY <1>5, <1>9, <2>1 DEF Published
  <2>2. CASE n = 5 + s
    BY <1>11, <2>2
  <2> QED
    BY <1>4, <1>6, <2>1, <2>2
<1>15. ASSUME NEW a \in Apps, NEW m \in {2, 3}, m = IF a = "hitl" THEN 3 ELSE 2,
              n - 1 <= m + s
       PROVE  Submitted(a)'
  <2>1. n <= 4 + s
    BY <1>4, <1>6, <1>15
  <2>2. /\ remote.hitl = checkout /\ local.wheels \subseteq remote.wheels
        /\ local.env = remote.env /\ manifest = [hitl |-> checkout, main |-> local]
    BY <1>4, <1>5, <1>6, <2>1 DEF Published
  <2>3. manifest' = [hitl |-> checkout, main |-> local]
    BY <1>9, <2>2
  <2>4. CASE n = m + s + 1
    <3>1. apps'[a].pending = <<Content(a)>>
      BY <1>4, <1>11, <1>15, <2>4 DEF Apps
    <3> QED
      BY <2>2, <2>3, <3>1, SubmittedPreserved
  <2>5. CASE n <= m + s
    <3>1. Submitted(a)
      BY <1>5, <1>15, <2>5 DEF Published, Apps
    <3>2. apps'[a].pending \in {apps[a].pending, <<>>, <<Content(a)>>}
      BY AppsAfterCall
    <3> QED
      BY <2>2, <2>3, <3>1, <3>2, SubmittedPreserved
  <2> QED
    BY <1>4, <1>6, <1>15, <2>4, <2>5
<1>16. /\ n - 1 <= 3 + s => Submitted("hitl")'
       /\ n - 1 <= 2 + s => Submitted("main")'
  BY <1>15 DEF Apps
<1>17. Published(s)'
  <2>1. s' = s
    BY DEF s
  <2> QED
    BY <1>6, <1>8, <1>12, <1>13, <1>14, <1>16, <2>1 DEF Published
<1> QED
  BY <1>6, <1>17 DEF Released, plan, s

LEMMA ReleasedPreserved ==
    ASSUME ReleaseShape, OnlyPrepareFills, Released, [ReleaseNext]_releaseVars
    PROVE  Released'
<1>1. CASE ScriptStarts
  <2> SUFFICES ASSUME script' = "release" PROVE Released'
    BY DEF Released
  <2>1. PICK infrastructure \in BOOLEAN, start \in BOOLEAN :
          todo' = ReleaseCalls(infrastructure, start)
    BY <1>1, PlanBegins
  <2> DEFINE plan == ReleaseCalls(infrastructure, start)
             s == StartCalls(start)
  <2>2. plan \in Seq(AnyCall) /\ Len(plan) > 6 + s
    BY ReleasePlan
  <2>3. s \in Nat
    BY DEF StartCalls
  <2> HIDE DEF plan, s
  <2>4. todo' = plan
    BY <2>1 DEF plan
  <2>5. Ahead(plan)'
    BY <2>2, <2>4 DEF Ahead
  <2>6. /\ ~(Len(todo') <= 6 + s) /\ ~(Len(todo') <= 5 + s) /\ ~(Len(todo') <= 4 + s)
        /\ ~(Len(todo') <= 3 + s) /\ ~(Len(todo') <= 2 + s)
    BY <2>2, <2>3, <2>4
  <2>7. Published(s)'
    <3>1. s' = s
      BY DEF s
    <3> QED
      BY <2>6, <3>1 DEF Published
  <2> QED
    BY <2>5, <2>7 DEF Released, plan, s
<1>2. CASE Calls
  BY <1>2, ReleasedAfterCall
<1>3. CASE script = "none" /\ UNCHANGED script
  BY <1>3 DEF Released
<1>4. CASE /\ UNCHANGED <<sourceVars, payloadVars, script, todo>>
           /\ \A a \in Apps : apps'[a].pending \in {apps[a].pending, <<>>}
  <2> SUFFICES ASSUME script' = "release" PROVE Released'
    BY DEF Released
  <2>1. PICK infrastructure \in BOOLEAN, start \in BOOLEAN :
          Ahead(ReleaseCalls(infrastructure, start)) /\ Published(StartCalls(start))
    BY <1>4 DEF Released
  <2>2. \A a \in Apps : Submitted(a) => Submitted(a)'
    BY <1>4 DEF Submitted, Carries, payloadVars
  <2>3. Ahead(ReleaseCalls(infrastructure, start))' /\ Published(StartCalls(start))'
    BY <1>4, <2>1, <2>2 DEF Ahead, Published, Apps, payloadVars, sourceVars, ReleaseCalls, Both, Call
  <2> QED
    BY <2>3 DEF Released
<1> QED
  BY <1>1, <1>2, <1>3, <1>4, StepKinds

LEMMA ReleaseInvInductive == ReleaseSpec => []ReleaseInv
<1>1. ReleaseInit => ReleaseInv
  <2> SUFFICES ASSUME ReleaseInit PROVE ReleaseInv
    OBVIOUS
  <2> USE DEF ReleaseInit
  <2>1. ReleaseShape
    <3>1. NoApp \in AppRecord /\ Created \in AppRecord
      BY DEF AppRecord, NoApp, Created
    <3>2. PICK known \in {NoApp, Created} : apps = [a \in Apps |-> known]
      OBVIOUS
    <3>3. apps \in [Apps -> AppRecord]
      BY <3>1, <3>2
    <3>4. <<>> \in Seq(AnyCall)
      OBVIOUS
    <3>5. local \in Payloads
      BY ReleaseAssumption
    <3> QED
      BY <3>3, <3>4, <3>5 DEF ReleaseShape
  <2>2. OnlyPrepareFills
    BY DEF OnlyPrepareFills, Foreign
  <2>3. Prepared /\ Released
    BY DEF Prepared, Released
  <2>4. UiMatchesCode
    <3>1. local.wheels \subseteq Committed /\ remote.wheels = {}
      BY DEF Committed
    <3> QED
      BY <3>1 DEF UiMatchesCode
  <2> QED
    BY <2>1, <2>2, <2>3, <2>4 DEF ReleaseInv
<1>2. ReleaseInv /\ [ReleaseNext]_releaseVars => ReleaseInv'
  <2> SUFFICES ASSUME ReleaseInv, [ReleaseNext]_releaseVars PROVE ReleaseInv'
    OBVIOUS
  <2>1. ReleaseShape /\ OnlyPrepareFills /\ Prepared /\ Released /\ UiMatchesCode
    BY DEF ReleaseInv
  <2>2. ReleaseShape' /\ OnlyPrepareFills' /\ Prepared' /\ Released' /\ UiMatchesCode'
    BY <2>1, ReleaseShapePreserved, OnlyPrepareFillsPreserved, PreparedPreserved,
       ReleasedPreserved, UiMatchesCodePreserved
  <2> QED
    BY <2>2 DEF ReleaseInv
<1> QED
  BY <1>1, <1>2, PTL DEF ReleaseSpec

\* For every choice of revisions, versions and committed payloads and any
\* interruptions, a wheel in the payload or in the workspace was committed or
\* carries the UI of its own revision.
THEOREM WheelsCarryTheirUi == ReleaseSpec => []UiMatchesCode
<1>1. ReleaseInv => UiMatchesCode
  BY DEF ReleaseInv
<1> QED
  BY <1>1, ReleaseInvInductive, PTL

\* What a release has submitted for an App carries what its manifest names,
\* whatever the releases, preparations and deployments before it left behind.
THEOREM SubmissionsCarryTheManifest == ReleaseSpec => []SubmittedIsManifest
<1>1. ReleaseInv => SubmittedIsManifest
  <2> SUFFICES ASSUME ReleaseInv, script = "release", NEW a \in Apps,
                      Call("deploy", a) \notin ToSet(todo), apps[a].pending # <<>>
               PROVE  Carries(a, apps[a].pending[1])
    BY DEF SubmittedIsManifest
  <2>1. PICK infrastructure \in BOOLEAN, start \in BOOLEAN :
          Ahead(ReleaseCalls(infrastructure, start)) /\ Published(StartCalls(start))
    BY DEF ReleaseInv, Released
  <2> DEFINE plan == ReleaseCalls(infrastructure, start)
             s == StartCalls(start)
             n == Len(todo)
             e == Len(plan)
             m == IF a = "hitl" THEN 3 ELSE 2
  <2>2. plan \in Seq(AnyCall) /\ plan[e - m - s] = Call("deploy", a)
    BY ReleasePlan DEF Apps
  <2>3. s \in Nat /\ m \in {2, 3}
    BY DEF StartCalls
  <2>4. Ahead(plan) /\ Published(s) /\ todo \in Seq(AnyCall)
    BY <2>1 DEF ReleaseInv, ReleaseShape
  <2> HIDE DEF plan, s, m
  <2>5. n <= m + s
    <3> SUFFICES ASSUME ~(n <= m + s) PROVE FALSE
      OBVIOUS
    <3>1. n \in Nat /\ e \in Nat /\ n - m - s \in 1 .. n
      BY <2>2, <2>3, <2>4
    <3>2. todo[n - m - s] = plan[e - n + (n - m - s)]
      BY <2>4, <3>1 DEF Ahead
    <3>3. e - n + (n - m - s) = e - m - s
      BY <2>3, <3>1
    <3>4. Call("deploy", a) \in ToSet(todo)
      BY <2>2, <3>1, <3>2, <3>3 DEF ToSet
    <3> QED
      BY <3>4
  <2>6. Submitted(a)
    BY <2>4, <2>5 DEF Published, m, Apps
  <2> QED
    BY <2>6 DEF Submitted
<1> QED
  BY <1>1, ReleaseInvInductive, PTL

-----------------------------------------------------------------------------
(* Grants *)

\* The items the first script may have to handle, the roles of a branch, and what
\* a run keeps: the roles it listed last among it.
Listed == Of("space", Spaces) \cup Of("source", Sources) \cup Of("endpoint", Endpoints)
            \cup Of("search", Searches) \cup Of("index", Indexes) \cup Of("role", Branches)
            \cup {Item("warehouse", Warehouse), Item("schema", Schema)}
            \cup Of("uc", Privileges) \cup Of("check", Indexes)
BranchRole == [id : {"app", "own"}, sp : Nat, member : SUBSET Memberships]
Listing == {<<>>} \cup {<<l>> : l \in [of : Of("role", Branches), mine : SUBSET BranchRole]}
GrantsRun == [sp : Nat, todo : SUBSET Listed, failed : BOOLEAN, open : BOOLEAN,
              live : BOOLEAN, audit : BOOLEAN, listed : Listing, code : {0, 1}]

GrantsShape ==
  /\ sp \in Nat
  /\ roles \in [Branches -> SUBSET BranchRole]
  /\ grants \in GrantsRun
  /\ memory \in [sp : Nat, refused : BOOLEAN, ended : BOOLEAN,
                 todo : SUBSET (Of("role", Branches) \cup Of("tables", MemorySchemas))]
  /\ DOMAIN tables = MemorySchemas

LEMMA ListedItems ==
    \A i \in Listed : i = Item(i.kind, i.of) /\ (i.kind = "role" => i.of \in Branches)
  BY DEF Listed, Of, Item

LEMMA PlannedIsListed ==
    ASSUME NEW audit
    PROVE  /\ Planned(audit) \subseteq Listed /\ Planned(FALSE) \subseteq Planned(audit)
           /\ \A i \in Planned(audit) :
                /\ i.kind \notin Tests
                /\ i.kind = "index" => i.of \in Named(Indexes)
                /\ i.kind = "role" => i.of \in Branches
<1>1. Planned(audit) \subseteq Listed /\ Planned(FALSE) \subseteq Planned(audit)
  BY DEF Planned, Audit, Listed, Of, Item, Named
<1>2. \A i \in Planned(audit) :
        /\ i.kind \notin Tests
        /\ i.kind = "index" => i.of \in Named(Indexes)
  BY DEF Planned, Audit, Of, Item, Named, Tests
<1>3. \A i \in Planned(audit) : i.kind = "role" => i.of \in Branches
  <2> SUFFICES ASSUME NEW i \in Planned(audit), i.kind = "role" PROVE i.of \in Branches
    OBVIOUS
  <2>1. i \in Listed
    BY <1>1
  <2> QED
    BY <2>1, ListedItems
<1> QED
  BY <1>1, <1>2, <1>3

LEMMA ListingTyped ==
    /\ <<>> \in Listing
    /\ \A l \in Listing : l # <<>> => l[1].of \in Of("role", Branches) /\ l[1].mine \subseteq BranchRole
    /\ \A i \in Of("role", Branches) : \A mine \in SUBSET BranchRole :
         <<[of |-> i, mine |-> mine]>> \in Listing
<1>1. <<>> \in Listing
  BY DEF Listing
<1>2. ASSUME NEW l \in Listing, l # <<>>
      PROVE  l[1].of \in Of("role", Branches) /\ l[1].mine \subseteq BranchRole
  <2>1. PICK x \in [of : Of("role", Branches), mine : SUBSET BranchRole] : l = <<x>>
    BY <1>2 DEF Listing
  <2> QED
    BY <2>1
<1>3. ASSUME NEW i \in Of("role", Branches), NEW mine \in SUBSET BranchRole
      PROVE  <<[of |-> i, mine |-> mine]>> \in Listing
  BY <1>3 DEF Listing
<1> QED
  BY <1>1, <1>2, <1>3

LEMMA RolesReplaced ==
    ASSUME GrantsShape, NEW b \in Branches, NEW r \in BranchRole
    PROVE  /\ [r EXCEPT !.member = {Superuser}] \in BranchRole
           /\ [r EXCEPT !.member = {Superuser}].sp = r.sp
           /\ IsSuper([r EXCEPT !.member = {Superuser}])
           /\ [roles EXCEPT ![b] = Replaced(b, r)] \in [Branches -> SUBSET BranchRole]
<1>1. roles \in [Branches -> SUBSET BranchRole]
  BY DEF GrantsShape
<1>2. /\ [r EXCEPT !.member = {Superuser}] \in BranchRole
      /\ [r EXCEPT !.member = {Superuser}].sp = r.sp
      /\ IsSuper([r EXCEPT !.member = {Superuser}])
  BY GrantsAssumption DEF BranchRole, IsSuper
<1>3. Replaced(b, r) \subseteq BranchRole
  BY <1>1, <1>2 DEF Replaced
<1> QED
  BY <1>1, <1>2, <1>3

LEMMA RolesCreated ==
    ASSUME GrantsShape, NEW b \in Branches, NEW n \in BranchRole
    PROVE  [roles EXCEPT ![b] = @ \cup {n}] \in [Branches -> SUBSET BranchRole]
  BY DEF GrantsShape

\* A role with one membership more.
Given(r, m) == [r EXCEPT !.member = @ \cup {m}]

LEMMA RolesGiven ==
    ASSUME GrantsShape, NEW b \in Branches, NEW r \in roles[b], NEW m \in Memberships
    PROVE  /\ Given(r, m) \in BranchRole
           /\ Given(r, m).sp = r.sp /\ r.member \subseteq Given(r, m).member
           /\ [roles EXCEPT ![b] = (@ \ {r}) \cup {Given(r, m)}] \in [Branches -> SUBSET BranchRole]
<1>1. roles \in [Branches -> SUBSET BranchRole] /\ r \in BranchRole
  BY DEF GrantsShape
<1>2. /\ Given(r, m) \in BranchRole
      /\ Given(r, m).sp = r.sp /\ r.member \subseteq Given(r, m).member
  BY <1>1 DEF BranchRole, Given
<1> QED
  BY <1>1, <1>2

LEMMA NewRole ==
    ASSUME NEW p \in Nat
    PROVE  /\ Role("app", p, {Superuser}) \in BranchRole
           /\ Role("own", p, {}) \in BranchRole
           /\ Role("app", p, {Superuser}).sp = p /\ IsSuper(Role("app", p, {Superuser}))
  BY GrantsAssumption DEF Role, BranchRole, IsSuper

\* The role that a run has listed and that update-role writes.
Overwrites(b, r) ==
  /\ grants.listed # <<>>
  /\ grants.listed[1].of = Item("role", b)
  /\ r \in grants.listed[1].mine

\* What a script, the platform or an administrator does to the roles.
RolesStep ==
    \/ UNCHANGED roles
    \/ \E b \in Branches : \E r \in BranchRole :
         Overwrites(b, r) /\ roles' = [roles EXCEPT ![b] = Replaced(b, r)]
    \/ \E b \in Branches : \E n \in BranchRole : roles' = [roles EXCEPT ![b] = @ \cup {n}]
    \/ \E b \in Branches, m \in Memberships : \E r \in roles[b] :
         roles' = [roles EXCEPT ![b] = (@ \ {r}) \cup {Given(r, m)}]

LEMMA GrantRoleIsRolesStep ==
    ASSUME GrantsShape, NEW i \in grants.todo, GrantRole(i) PROVE RolesStep
<1>1. grants.listed \in Listing /\ grants.sp \in Nat
  BY DEF GrantsShape, GrantsRun
<1>2. /\ grants.listed # <<>> /\ grants.listed[1].of = i
      /\ i \in Of("role", Branches) /\ grants.listed[1].mine \subseteq BranchRole
  BY <1>1, ListingTyped DEF GrantRole
<1>3. i.of \in Branches /\ i = Item("role", i.of)
  BY <1>2 DEF Of, Item
<1>4. CASE UNCHANGED roles
  BY <1>4 DEF RolesStep
<1>5. ASSUME NEW r \in grants.listed[1].mine, roles' = [roles EXCEPT ![i.of] = Replaced(i.of, r)]
      PROVE  RolesStep
  <2>1. Overwrites(i.of, r)
    BY <1>2, <1>3, <1>5 DEF Overwrites
  <2> QED
    BY <1>2, <1>3, <1>5, <2>1 DEF RolesStep
<1>6. CASE roles' = [roles EXCEPT ![i.of] = @ \cup {Role("app", grants.sp, {Superuser})}]
  <2>1. Role("app", grants.sp, {Superuser}) \in BranchRole
    BY <1>1, NewRole
  <2> QED
    BY <1>3, <1>6, <2>1 DEF RolesStep
<1> QED
  BY <1>4, <1>5, <1>6 DEF GrantRole

LEMMA GrantsNextIsRolesStep ==
    ASSUME GrantsShape, [GrantsNext]_grantsVars PROVE RolesStep
<1>1. CASE GrantsStep
  BY <1>1, GrantRoleIsRolesStep
     DEF GrantsStep, RolesStep, Missing, Tested, Accepted, StillRunning, Refused, ListRoles
<1>2. CASE MemoryStep
  <2>1. memory.sp \in Nat
    BY DEF GrantsShape
  <2>2. Role("own", memory.sp, {}) \in BranchRole
    BY <2>1, NewRole
  <2> QED
    BY <1>2, <2>2, GrantsAssumption DEF MemoryStep, CreateRole, GrantSchema, RolesStep
<1>3. CASE RoleAppears
  <2>1. sp \in Nat
    BY DEF GrantsShape
  <2>2. Role("own", sp, {}) \in BranchRole
    BY <2>1, NewRole
  <2> QED
    BY <1>3, <2>2 DEF RoleAppears, RolesStep
<1>4. CASE MembershipGiven
  <2>1. PICK b \in Branches, m \in Memberships : \E r \in RolesOf(roles[b], sp) :
          roles' = [roles EXCEPT ![b] = (@ \ {r}) \cup {[r EXCEPT !.member = @ \cup {m}]}]
    BY <1>4 DEF MembershipGiven
  <2>2. \A r \in RolesOf(roles[b], sp) : r \in roles[b]
    BY DEF RolesOf
  <2> QED
    BY <2>1, <2>2 DEF RolesStep, Given
<1>5. CASE UNCHANGED roles
  BY <1>5 DEF RolesStep
<1> QED
  BY <1>1, <1>2, <1>3, <1>4, <1>5
     DEF GrantsNext, StartGrants, EndGrants, GrantsRaise, StartMemory, EndMemory,
         MemoryRaises, Recreated, Provision, FirstUse, grantsVars

\* What a step of the first script keeps of its run.
LEMMA GrantsRecord ==
    ASSUME GrantsShape, GrantsStep
    PROVE  /\ grants' \in GrantsRun
           /\ grants'.sp = grants.sp /\ grants'.open = grants.open
           /\ grants'.live = grants.live /\ grants'.code = grants.code
           /\ grants'.audit = grants.audit
           /\ grants.failed => grants'.failed
<1>1. PICK i \in grants.todo :
        \/ Missing(i) \/ Tested(i) \/ Accepted(i) \/ StillRunning(i)
        \/ Refused(i) \/ ListRoles(i) \/ GrantRole(i)
  BY DEF GrantsStep
<1>2. grants \in GrantsRun
  BY DEF GrantsShape
<1>3. CASE \E S : grants' = Done(S) \/ grants' = Failed(S)
  BY <1>2, <1>3 DEF Done, Failed, GrantsRun
<1>4. CASE Tested(i)
  <2>1. i \in Listed /\ (i.kind = "check" => Item("index", i.of) \in Listed)
    BY <1>1, <1>2 DEF Listed, Of, Item, GrantsRun
  <2> QED
    BY <1>2, <1>4, <2>1 DEF Tested, GrantsRun
<1>5. CASE ListRoles(i)
  <2>1. PICK listed \in {roles[i.of], {}} :
          \/ grants' = Done({i})
          \/ grants' = [grants EXCEPT !.listed = <<[of |-> i, mine |-> RolesOf(listed, grants.sp)]>>]
    BY <1>5 DEF ListRoles
  <2>2. i \in Listed /\ i.kind = "role"
    BY <1>1, <1>2, <1>5 DEF GrantsRun, ListRoles
  <2>3. i.of \in Branches /\ i = Item("role", i.of)
    BY <2>2, ListedItems
  <2>4. i \in Of("role", Branches)
    BY <2>3 DEF Of
  <2>5. RolesOf(listed, grants.sp) \in SUBSET BranchRole
    BY <2>3 DEF GrantsShape, RolesOf
  <2>6. <<[of |-> i, mine |-> RolesOf(listed, grants.sp)]>> \in Listing
    BY <2>4, <2>5, ListingTyped
  <2> QED
    BY <1>2, <1>3, <2>1, <2>6 DEF GrantsRun
<1>6. CASE GrantRole(i)
  <2>1. \/ grants' = [Done({i}) EXCEPT !.listed = <<>>]
        \/ grants' = [Failed({i}) EXCEPT !.listed = <<>>]
    BY <1>6 DEF GrantRole
  <2>2. <<>> \in Listing
    BY ListingTyped
  <2> QED
    BY <1>2, <2>1, <2>2 DEF Done, Failed, GrantsRun
<1> QED
  BY <1>1, <1>3, <1>4, <1>5, <1>6 DEF Missing, Accepted, StillRunning, Refused

LEMMA GrantsShapePreserved ==
    ASSUME GrantsShape, [GrantsNext]_grantsVars PROVE GrantsShape'
<1>1. roles' \in [Branches -> SUBSET BranchRole]
  <2>1. RolesStep
    BY GrantsNextIsRolesStep
  <2>2. ASSUME NEW b \in Branches, NEW r \in BranchRole,
               roles' = [roles EXCEPT ![b] = Replaced(b, r)]
        PROVE  roles' \in [Branches -> SUBSET BranchRole]
    BY <2>2, RolesReplaced
  <2>3. ASSUME NEW b \in Branches, NEW n \in BranchRole,
               roles' = [roles EXCEPT ![b] = @ \cup {n}]
        PROVE  roles' \in [Branches -> SUBSET BranchRole]
    BY <2>3, RolesCreated
  <2>4. ASSUME NEW b \in Branches, NEW m \in Memberships, NEW r \in roles[b],
               roles' = [roles EXCEPT ![b] = (@ \ {r}) \cup {Given(r, m)}]
        PROVE  roles' \in [Branches -> SUBSET BranchRole]
    BY <2>4, RolesGiven
  <2>5. CASE UNCHANGED roles
    BY <2>5 DEF GrantsShape
  <2> QED
    BY <2>1, <2>2, <2>3, <2>4, <2>5 DEF RolesStep
<1>2. sp' \in Nat
  <2>1. CASE Recreated
    BY <2>1 DEF Recreated, GrantsShape
  <2>2. CASE UNCHANGED sp
    BY <2>2 DEF GrantsShape
  <2> QED
    BY <2>1, <2>2 DEF GrantsNext, StartGrants, GrantsStep, EndGrants, GrantsRaise, StartMemory,
       MemoryStep, EndMemory, MemoryRaises, Provision, RoleAppears, MembershipGiven, FirstUse,
       grantsVars, controlVars, Resolves, Within, Leaves
<1>3. DOMAIN tables' = MemorySchemas
  BY DEF GrantsShape, GrantsNext, StartGrants, GrantsStep, EndGrants, GrantsRaise, StartMemory,
         MemoryStep, EndMemory, MemoryRaises, Recreated, Provision, RoleAppears, MembershipGiven, FirstUse,
         grantsVars, memoryVars
<1>4. grants' \in GrantsRun
  <2>1. CASE StartGrants
    <3>1. PICK o \in Options :
            grants' = [Idle EXCEPT
              !.sp = sp, !.open = o.open, !.live = o.live, !.audit = o.audit,
              !.todo = {i \in Planned(o.audit) : i.kind # "index"}
                         \cup Of("check", Named(Indexes))
                         \cup (IF o.audit THEN {Item("schema", Schema)} ELSE {})]
      BY <2>1 DEF StartGrants
    <3>2. o.open \in BOOLEAN /\ o.live \in BOOLEAN /\ o.audit \in BOOLEAN
      BY GrantsAssumption
    <3>3. {i \in Planned(o.audit) : i.kind # "index"} \subseteq Listed
      BY PlannedIsListed
    <3>4. Of("check", Named(Indexes)) \cup (IF o.audit THEN {Item("schema", Schema)} ELSE {})
            \subseteq Listed
      BY DEF Listed, Of, Named
    <3>5. sp \in Nat /\ <<>> \in Listing
      BY ListingTyped DEF GrantsShape
    <3> QED
      BY <3>1, <3>2, <3>3, <3>4, <3>5 DEF Idle, GrantsRun
  <2>2. CASE GrantsStep
    BY <2>2, GrantsRecord
  <2>3. CASE EndGrants \/ GrantsRaise
    BY <2>3, ListingTyped DEF EndGrants, GrantsRaise, GrantsShape, GrantsRun
  <2>4. CASE UNCHANGED grants
    BY <2>4 DEF GrantsShape
  <2> QED
    BY <2>1, <2>2, <2>3, <2>4 DEF GrantsNext, StartMemory, MemoryStep, EndMemory,
       MemoryRaises, Recreated, Provision, RoleAppears, MembershipGiven, FirstUse, grantsVars, runVars
<1>5. memory' \in [sp : Nat, refused : BOOLEAN, ended : BOOLEAN,
                   todo : SUBSET (Of("role", Branches) \cup Of("tables", MemorySchemas))]
  <2>1. CASE StartMemory
    <3> DEFINE roleItems == Of("role", {MemoryBranch})
               tableItems == Of("tables", MemorySchemas)
               items == roleItems \cup tableItems
    <3>1. roleItems \subseteq Of("role", Branches)
      BY GrantsAssumption DEF Of
    <3> HIDE DEF roleItems
    <3>2. items \subseteq Of("role", Branches) \cup Of("tables", MemorySchemas)
      BY <3>1
    <3>3. memory' = [MemoryIdle EXCEPT !.sp = sp, !.todo = items]
      BY <2>1 DEF StartMemory, roleItems
    <3>4. sp \in Nat
      BY DEF GrantsShape
    <3> HIDE DEF items
    <3>5. memory' = [sp |-> sp, todo |-> items, refused |-> FALSE, ended |-> FALSE]
      BY <3>3 DEF MemoryIdle
    <3> DEFINE Todo == SUBSET (Of("role", Branches) \cup Of("tables", MemorySchemas))
    <3>6. items \in Todo
      BY <3>2
    <3> HIDE DEF Todo
    <3>7. memory' \in [sp : Nat, refused : BOOLEAN, ended : BOOLEAN, todo : Todo]
      BY <3>4, <3>5, <3>6
    <3> QED
      BY <3>7 DEF Todo
  <2>2. CASE MemoryStep
    <3> DEFINE Todo == SUBSET (Of("role", Branches) \cup Of("tables", MemorySchemas))
    <3>1. \E x : \/ memory' = [memory EXCEPT !.todo = memory.todo \ x]
                 \/ memory' = [memory EXCEPT !.todo = memory.todo \ x, !.refused = TRUE]
      BY <2>2 DEF MemoryStep, CreateRole, GrantSchema
    <3>2. \A x : memory.todo \ x \in Todo
      BY DEF GrantsShape
    <3>3. memory \in [sp : Nat, refused : BOOLEAN, ended : BOOLEAN, todo : Todo]
      BY DEF GrantsShape
    <3> HIDE DEF Todo
    <3>4. memory' \in [sp : Nat, refused : BOOLEAN, ended : BOOLEAN, todo : Todo]
      BY <3>1, <3>2, <3>3
    <3> QED
      BY <3>4 DEF Todo
  <2>3. CASE MemoryRaises
    BY <2>3 DEF MemoryRaises, MemoryIdle
  <2>4. CASE EndMemory
    BY <2>4 DEF EndMemory, GrantsShape
  <2>5. CASE UNCHANGED memory
    BY <2>5 DEF GrantsShape
  <2> QED
    BY <2>1, <2>2, <2>3, <2>4, <2>5 DEF GrantsNext, StartGrants, GrantsStep, EndGrants,
       GrantsRaise, Recreated, Provision, RoleAppears, MembershipGiven, FirstUse, grantsVars, memoryVars
<1> QED
  BY <1>1, <1>2, <1>3, <1>4, <1>5 DEF GrantsShape

LEMMA GrantsInitShape == GrantsInit => GrantsShape
<1> SUFFICES ASSUME GrantsInit PROVE GrantsShape
  OBVIOUS
<1>1. Role("app", 0, {Superuser}) \in BranchRole
  BY NewRole
<1>2. roles \in [Branches -> SUBSET BranchRole]
  BY <1>1 DEF GrantsInit
<1>3. sp \in Nat /\ DOMAIN tables = MemorySchemas
  BY DEF GrantsInit, MemorySchemas
<1>4. grants \in GrantsRun
  BY ListingTyped DEF GrantsInit, Idle, GrantsRun
<1>5. memory \in [sp : Nat, refused : BOOLEAN, ended : BOOLEAN,
                  todo : SUBSET (Of("role", Branches) \cup Of("tables", MemorySchemas))]
  BY DEF GrantsInit, MemoryIdle
<1> QED
  BY <1>2, <1>3, <1>4, <1>5 DEF GrantsShape

-----------------------------------------------------------------------------
(* What is reported as granted is granted *)

LEMMA SuperuserIsKept ==
    ASSUME GrantsShape, RolesStep
    PROVE  \A b \in Branches : \A r \in roles[b] :
             \E q \in roles'[b] : q.sp = r.sp /\ (IsSuper(r) => IsSuper(q))
<1>1. roles \in [Branches -> SUBSET BranchRole]
  BY DEF GrantsShape
<1>2. ASSUME NEW b \in Branches, NEW p \in BranchRole,
             roles' = [roles EXCEPT ![b] = Replaced(b, p)],
             NEW c \in Branches, NEW r \in roles[c]
      PROVE  \E q \in roles'[c] : q.sp = r.sp /\ (IsSuper(r) => IsSuper(q))
  <2>1. CASE c = b /\ r.id = p.id /\ r.sp = p.sp
    <3>1. [p EXCEPT !.member = {Superuser}] \in roles'[c]
      BY <1>1, <1>2, <2>1 DEF Replaced
    <3>2. /\ [p EXCEPT !.member = {Superuser}].sp = p.sp
          /\ IsSuper([p EXCEPT !.member = {Superuser}])
      BY <1>2, RolesReplaced
    <3> QED
      BY <2>1, <3>1, <3>2
  <2>2. CASE c # b \/ r.id # p.id \/ r.sp # p.sp
    BY <1>1, <1>2, <2>2 DEF Replaced
  <2> QED
    BY <2>1, <2>2
<1>3. ASSUME NEW b \in Branches, NEW m \in Memberships, NEW g \in roles[b],
             roles' = [roles EXCEPT ![b] = (@ \ {g}) \cup {Given(g, m)}],
             NEW c \in Branches, NEW r \in roles[c]
      PROVE  \E q \in roles'[c] : q.sp = r.sp /\ (IsSuper(r) => IsSuper(q))
  <2>1. CASE c = b /\ r = g
    <3>1. Given(g, m) \in roles'[c]
      BY <1>1, <1>3, <2>1
    <3>2. Given(g, m).sp = g.sp /\ g.member \subseteq Given(g, m).member
      BY <1>3, RolesGiven
    <3> QED
      BY <2>1, <3>1, <3>2 DEF IsSuper
  <2>2. CASE c # b \/ r # g
    BY <1>1, <1>3, <2>2
  <2> QED
    BY <2>1, <2>2
<1>4. ASSUME NEW b \in Branches, NEW n \in BranchRole,
             roles' = [roles EXCEPT ![b] = @ \cup {n}],
             NEW c \in Branches, NEW r \in roles[c]
      PROVE  \E q \in roles'[c] : q.sp = r.sp /\ (IsSuper(r) => IsSuper(q))
  BY <1>1, <1>4
<1> QED
  BY <1>2, <1>3, <1>4 DEF RolesStep

\* What the first script has yet to see to: an index is tested before.
Awaited(i) == \/ i \in grants.todo
              \/ i.kind = "index" /\ Item("check", i.of) \in grants.todo

NothingIsForgotten ==
  (script = "grants" /\ grants.live /\ ~grants.failed) =>
    \A i \in Planned(grants.audit) : Has(grants.sp, i) \/ Awaited(i)

\* A script that has not ended has no success to report.
NoEarlySuccess == script = "grants" => grants.code = 1

SchemasFollow ==
  /\ memory.ended => memory.todo = {}
  /\ (script = "memory" \/ memory.ended) /\ ~memory.refused =>
       \A s \in MemorySchemas :
         Item("tables", s) \in memory.todo \/ <<memory.sp, s>> \in readable

\* A run lists the roles of its principal on a branch it has yet to handle, and
\* finds none to write for a principal that an earlier run ended for: that one
\* is a superuser already.
ListingIsOwn ==
  grants.listed # <<>> =>
    /\ grants.listed[1].of \in grants.todo
    /\ \A r \in grants.listed[1].mine : r.sp = grants.sp
    /\ grants.sp \in settled /\ grants.listed[1].of \in Planned(FALSE) =>
         grants.listed[1].mine = {}

SettledHasRoles ==
  \A p \in settled : \A b \in Branches :
    Item("role", b) \in Planned(FALSE) => Has(p, Item("role", b))

GrantsInv == GrantsShape /\ NothingIsForgotten /\ NoEarlySuccess /\ CleanExitHolds
               /\ SchemasFollow /\ ListingIsOwn /\ SettledHasRoles

LEMMA GrantsGrow ==
    ASSUME GrantsShape, [GrantsNext]_grantsVars
    PROVE  /\ held \subseteq held' /\ submitted \subseteq submitted'
           /\ readable \subseteq readable' /\ hints' = hints
           /\ \A b \in Branches : \A r \in roles[b] :
                \E q \in roles'[b] : q.sp = r.sp /\ (IsSuper(r) => IsSuper(q))
<1>1. held \subseteq held' /\ submitted \subseteq submitted' /\ hints' = hints
  BY DEF GrantsNext, StartGrants, GrantsStep, EndGrants, GrantsRaise, StartMemory,
     MemoryStep, EndMemory, MemoryRaises, Recreated, Provision, RoleAppears, MembershipGiven,
     FirstUse, grantsVars, platformVars, Missing, Tested, Accepted, StillRunning, Refused,
     ListRoles, GrantRole
<1>2. readable \subseteq readable'
  BY DEF GrantsNext, StartGrants, GrantsStep, EndGrants, GrantsRaise, StartMemory,
     MemoryStep, EndMemory, MemoryRaises, Recreated, Provision, RoleAppears, MembershipGiven,
     FirstUse, grantsVars, memoryVars, CreateRole, GrantSchema
<1> QED
  BY <1>1, <1>2, GrantsNextIsRolesStep, SuperuserIsKept

LEMMA PlannedIsFixed ==
    ASSUME GrantsShape, [GrantsNext]_grantsVars
    PROVE  \A audit : Planned(audit)' = Planned(audit)
  BY GrantsGrow DEF Planned, Named

LEMMA HasLasts ==
    ASSUME GrantsShape, [GrantsNext]_grantsVars, NEW p, NEW i,
           i.kind = "role" => i.of \in Branches, Has(p, i)
    PROVE  Has(p, i)'
<1>1. CASE i.kind = "role"
  BY <1>1, GrantsGrow DEF Has
<1>2. CASE i.kind # "role"
  BY <1>2, GrantsGrow DEF Has
<1> QED
  BY <1>1, <1>2

\* A role that the script is done with is there.
LEMMA RoleIsHeld ==
    ASSUME GrantsShape, ListingIsOwn, NEW i \in grants.todo, GrantRole(i)
    PROVE  \/ grants'.failed
           \/ /\ grants'.todo = grants.todo \ {i}
              /\ \E r \in roles'[i.of] : r.sp = grants.sp /\ IsSuper(r)
<1>1. grants.listed \in Listing /\ grants.sp \in Nat /\ grants \in GrantsRun
  BY DEF GrantsShape, GrantsRun
<1>2. /\ grants.listed # <<>> /\ grants.listed[1].of = i
      /\ i \in Of("role", Branches) /\ grants.listed[1].mine \subseteq BranchRole
  BY <1>1, ListingTyped DEF GrantRole
<1>3. i.of \in Branches /\ roles \in [Branches -> SUBSET BranchRole]
  BY <1>2 DEF Of, Item, GrantsShape
<1>4. ASSUME grants' = [Failed({i}) EXCEPT !.listed = <<>>] PROVE grants'.failed
  BY <1>1, <1>4 DEF Failed, GrantsRun
<1>5. ASSUME grants' = [Done({i}) EXCEPT !.listed = <<>>] PROVE grants'.todo = grants.todo \ {i}
  BY <1>1, <1>5 DEF Done, GrantsRun
<1>6. ASSUME NEW r \in grants.listed[1].mine, roles' = [roles EXCEPT ![i.of] = Replaced(i.of, r)]
      PROVE  \E q \in roles'[i.of] : q.sp = grants.sp /\ IsSuper(q)
  <2>1. [r EXCEPT !.member = {Superuser}] \in roles'[i.of]
    BY <1>3, <1>6 DEF Replaced
  <2>2. /\ [r EXCEPT !.member = {Superuser}].sp = r.sp
        /\ IsSuper([r EXCEPT !.member = {Superuser}])
    BY <1>2, <1>3, <1>6, RolesReplaced
  <2>3. r.sp = grants.sp
    BY <1>2, <1>6 DEF ListingIsOwn
  <2> QED
    BY <2>1, <2>2, <2>3
<1>7. ASSUME roles' = [roles EXCEPT ![i.of] = @ \cup {Role("app", grants.sp, {Superuser})}]
      PROVE  \E q \in roles'[i.of] : q.sp = grants.sp /\ IsSuper(q)
  <2>1. Role("app", grants.sp, {Superuser}) \in roles'[i.of]
    BY <1>3, <1>7
  <2>2. /\ Role("app", grants.sp, {Superuser}).sp = grants.sp
        /\ IsSuper(Role("app", grants.sp, {Superuser}))
    BY <1>1, NewRole
  <2> QED
    BY <2>1, <2>2
<1> QED
  BY <1>4, <1>5, <1>6, <1>7 DEF GrantRole

\* A role that is listed and has enough needs nothing more.
LEMMA RoleWasHeld ==
    ASSUME GrantsShape, NEW i \in grants.todo, ListRoles(i), grants.live
    PROVE  /\ grants'.todo # grants.todo =>
                /\ grants'.todo = grants.todo \ {i}
                /\ \E r \in roles'[i.of] : r.sp = grants.sp /\ IsSuper(r)
<1>1. grants \in GrantsRun
  BY DEF GrantsShape
<1>2. PICK listed \in {roles[i.of], {}} :
        grants' = IF ~grants.live \/ \E r \in RolesOf(listed, grants.sp) : Enough(r) THEN Done({i})
                  ELSE [grants EXCEPT !.listed = <<[of |-> i, mine |-> RolesOf(listed, grants.sp)]>>]
  BY DEF ListRoles
<1>3. CASE \E r \in RolesOf(listed, grants.sp) : Enough(r)
  <2>1. grants'.todo = grants.todo \ {i}
    BY <1>1, <1>2, <1>3 DEF Done, GrantsRun
  <2>2. PICK r \in RolesOf(listed, grants.sp) : Enough(r)
    BY <1>3
  <2>3. r \in roles[i.of] /\ r.sp = grants.sp /\ IsSuper(r)
    BY <2>2 DEF RolesOf, Enough
  <2> QED
    BY <2>1, <2>3 DEF ListRoles
<1>4. CASE ~\E r \in RolesOf(listed, grants.sp) : Enough(r)
  BY <1>1, <1>2, <1>4 DEF GrantsRun
<1> QED
  BY <1>3, <1>4

LEMMA StepForgetsNothing ==
    ASSUME GrantsInv, GrantsStep, grants'.live, ~grants'.failed,
           NEW i \in Planned(grants.audit)
    PROVE  Has(grants.sp, i)' \/ Awaited(i)'
<1>1. GrantsShape /\ grants.live /\ ~grants.failed /\ script = "grants" /\ grants'.sp = grants.sp
  BY GrantsRecord DEF GrantsInv, GrantsStep, Within
<1>2. Has(grants.sp, i) => Has(grants.sp, i)'
  <2>1. [GrantsNext]_grantsVars
    BY DEF GrantsNext
  <2>2. i.kind = "role" => i.of \in Branches
    BY PlannedIsListed
  <2> QED
    BY <1>1, <2>1, <2>2, HasLasts DEF Has
<1>3. Has(grants.sp, i) \/ Awaited(i)
  BY <1>1 DEF GrantsInv, NothingIsForgotten
<1>4. PICK k \in grants.todo :
        \/ Missing(k) \/ Tested(k) \/ Accepted(k) \/ StillRunning(k)
        \/ Refused(k) \/ ListRoles(k) \/ GrantRole(k)
  BY DEF GrantsStep
<1>5. grants \in GrantsRun
  BY <1>1 DEF GrantsShape
<1>6. /\ i = Item(i.kind, i.of) /\ i.kind \notin Tests
      /\ k = Item(k.kind, k.of)
  BY <1>4, <1>5, PlannedIsListed, ListedItems DEF GrantsRun
<1>7. ASSUME NEW S, grants' = Failed(S) PROVE FALSE
  BY <1>5, <1>7 DEF Failed, GrantsRun
<1>8. ASSUME grants'.todo = grants.todo \ {k}, k.kind \notin Tests, Awaited(i), i # k
      PROVE  Awaited(i)'
  <2>1. Item("check", i.of) # k
    BY <1>8 DEF Item, Tests
  <2> QED
    BY <1>8, <2>1 DEF Awaited
<1>9. CASE Tested(k)
  <2>1. grants'.todo = (grants.todo \ {k}) \cup
                         (IF k.kind = "check" THEN {Item("index", k.of)} ELSE {})
    BY <1>5, <1>9 DEF Tested, GrantsRun
  <2>2. Awaited(i) => Awaited(i)'
    <3>1. i # k
      BY <1>6, <1>9 DEF Tested
    <3>2. CASE i.kind = "index" /\ Item("check", i.of) = k
      <4>1. k.kind = "check" /\ k.of = i.of
        BY <3>2 DEF Item
      <4> QED
        BY <1>6, <2>1, <3>2, <4>1 DEF Awaited
    <3> QED
      BY <2>1, <3>1, <3>2 DEF Awaited
  <2> QED
    BY <1>2, <1>3, <2>2
<1>10. CASE Accepted(k) \/ StillRunning(k)
  <2>1. k.kind \notin Tests \cup {"role"} /\ grants'.todo = grants.todo \ {k}
    BY <1>5, <1>10 DEF Accepted, StillRunning, GoesOut, Done, GrantsRun
  <2>2. <<grants.sp, k>> \in held' \cup submitted'
    BY <1>1, <1>10 DEF Accepted, StillRunning
  <2>3. Has(grants.sp, k)'
    BY <1>1, <2>1, <2>2 DEF Has
  <2> QED
    BY <1>2, <1>3, <1>8, <2>1, <2>3
<1>11. CASE GrantRole(k)
  <2>1. grants'.todo = grants.todo \ {k} /\ \E r \in roles'[k.of] : r.sp = grants.sp /\ IsSuper(r)
    BY <1>1, <1>4, <1>11, RoleIsHeld DEF GrantsInv
  <2>2. k.kind = "role" /\ k.kind \notin Tests
    <3>1. k \in Of("role", Branches)
      BY <1>5, <1>11, ListingTyped DEF GrantRole, GrantsRun
    <3> QED
      BY <3>1 DEF Of, Item, Tests
  <2>3. Has(grants.sp, k)'
    BY <1>1, <2>1, <2>2 DEF Has
  <2> QED
    BY <1>2, <1>3, <1>8, <2>1, <2>2, <2>3
<1>12. CASE ListRoles(k)
  <2>1. k.kind = "role" /\ k.kind \notin Tests
    BY <1>12 DEF ListRoles, Tests
  <2>2. CASE grants'.todo = grants.todo
    BY <1>2, <1>3, <2>2 DEF Awaited
  <2>3. CASE grants'.todo # grants.todo
    <3>1. grants'.todo = grants.todo \ {k} /\ \E r \in roles'[k.of] : r.sp = grants.sp /\ IsSuper(r)
      BY <1>1, <1>4, <1>12, <2>3, RoleWasHeld
    <3>2. Has(grants.sp, k)'
      BY <1>1, <2>1, <3>1 DEF Has
    <3> QED
      BY <1>2, <1>3, <1>8, <2>1, <3>1, <3>2
  <2> QED
    BY <2>2, <2>3
<1> QED
  BY <1>4, <1>7, <1>9, <1>10, <1>11, <1>12 DEF Missing, Refused

LEMMA StartForgetsNothing ==
    ASSUME StartGrants, NEW i \in Planned(grants'.audit) PROVE Awaited(i)'
<1>1. PICK o \in Options :
        grants' = [Idle EXCEPT
          !.sp = sp, !.open = o.open, !.live = o.live, !.audit = o.audit,
          !.todo = {j \in Planned(o.audit) : j.kind # "index"}
                     \cup Of("check", Named(Indexes))
                     \cup (IF o.audit THEN {Item("schema", Schema)} ELSE {})]
  BY DEF StartGrants
<1>2. /\ grants'.audit = o.audit
      /\ {j \in Planned(o.audit) : j.kind # "index"} \subseteq grants'.todo
      /\ Of("check", Named(Indexes)) \subseteq grants'.todo
  BY <1>1 DEF Idle
<1>3. CASE i.kind = "index"
  <2>1. i.of \in Named(Indexes)
    BY <1>3, PlannedIsListed
  <2>2. Item("check", i.of) \in Of("check", Named(Indexes))
    BY <2>1 DEF Of
  <2> QED
    BY <1>2, <1>3, <2>2 DEF Awaited
<1>4. CASE i.kind # "index"
  BY <1>2, <1>4 DEF Awaited
<1> QED
  BY <1>3, <1>4

\* At the end of a live run that has not failed every planned item is held.
LEMMA EndHasAll ==
    ASSUME GrantsInv, EndGrants, grants.live, ~grants.failed, NEW i \in Planned(grants.audit)
    PROVE  Has(grants.sp, i) /\ Has(grants.sp, i)'
<1>1. script = "grants" /\ grants.todo = {} /\ GrantsShape /\ grants'.sp = grants.sp
  BY DEF EndGrants, Leaves, GrantsInv, GrantsShape, GrantsRun
<1>2. Has(grants.sp, i)
  BY <1>1 DEF GrantsInv, NothingIsForgotten, Awaited
<1>3. [GrantsNext]_grantsVars /\ (i.kind = "role" => i.of \in Branches)
  BY PlannedIsListed DEF GrantsNext
<1> QED
  BY <1>1, <1>2, <1>3, HasLasts DEF Has

LEMMA NothingIsForgottenPreserved ==
    ASSUME GrantsInv, [GrantsNext]_grantsVars
    PROVE  NothingIsForgotten' /\ NoEarlySuccess' /\ CleanExitHolds'
<1> USE DEF GrantsInv
<1>1. \A audit : Planned(audit)' = Planned(audit)
  BY PlannedIsFixed
<1>2. grants \in GrantsRun
  BY DEF GrantsShape
<1>3. CASE StartGrants
  <2>1. grants'.code = 1
    BY <1>3 DEF StartGrants, Idle
  <2>2. Planned(grants.audit)' = Planned(grants'.audit)
    BY <1>1 DEF Planned
  <2> QED
    BY <1>3, <2>1, <2>2, StartForgetsNothing
       DEF NothingIsForgotten, NoEarlySuccess, CleanExitHolds
<1>4. CASE GrantsStep
  <2>1. /\ script = "grants" /\ script' = "grants" /\ grants'.sp = grants.sp /\ grants'.code = 1
        /\ grants'.audit = grants.audit
    BY <1>4, GrantsRecord DEF GrantsStep, Within, controlVars, NoEarlySuccess
  <2>2. Planned(grants.audit)' = Planned(grants.audit)
    BY <1>1, <2>1 DEF Planned
  <2> QED
    BY <1>4, <2>1, <2>2, StepForgetsNothing DEF NothingIsForgotten, NoEarlySuccess, CleanExitHolds, Has
<1>5. CASE EndGrants
  <2>1. /\ script = "grants" /\ script' = "none" /\ grants.todo = {}
        /\ grants'.sp = grants.sp /\ grants'.open = grants.open /\ grants'.live = grants.live
        /\ grants'.audit = grants.audit
        /\ grants'.code = 0 => ~grants.failed \/ grants.open
    BY <1>2, <1>5 DEF EndGrants, Leaves, GrantsRun
  <2>2. Planned(grants.audit)' = Planned(grants.audit)
    BY <1>1, <2>1 DEF Planned
  <2>3. ASSUME grants'.code = 0, ~grants'.open, grants'.live, NEW i \in Planned(grants.audit)
        PROVE  Has(grants.sp, i)'
    BY <1>5, <2>1, <2>3, EndHasAll
  <2> QED
    BY <2>1, <2>2, <2>3 DEF NothingIsForgotten, NoEarlySuccess, CleanExitHolds
<1>6. CASE GrantsRaise
  BY <1>2, <1>6 DEF GrantsRaise, Leaves, NothingIsForgotten, NoEarlySuccess, CleanExitHolds, GrantsRun
<1>7. CASE UNCHANGED grants /\ (script' = "grants" => script = "grants")
  <2>1. \A i \in Planned(grants.audit) : Has(grants.sp, i) => Has(grants.sp, i)'
    <3>1. \A i \in Planned(grants.audit) : i.kind = "role" => i.of \in Branches
      BY PlannedIsListed
    <3> QED
      BY <1>7, <3>1, HasLasts DEF Has
  <2>2. Planned(grants.audit)' = Planned(grants.audit)
    BY <1>1, <1>7 DEF Planned
  <2> QED
    BY <1>7, <2>1, <2>2 DEF NothingIsForgotten, NoEarlySuccess, CleanExitHolds, Awaited
<1> QED
  BY <1>3, <1>4, <1>5, <1>6, <1>7
     DEF GrantsNext, StartMemory, MemoryStep, EndMemory, MemoryRaises, Recreated, Provision,
         RoleAppears, MembershipGiven, FirstUse, grantsVars, runVars, controlVars, Resolves,
         Starts, Within, Leaves

\* Only a run that ends without a failure adds its principal to the settled ones.
LEMMA SettledOnlyByEnd ==
    ASSUME [GrantsNext]_grantsVars
    PROVE  \/ settled' = settled
           \/ EndGrants /\ grants.live /\ ~grants.failed /\ settled' = settled \cup {grants.sp}
  BY DEF GrantsNext, StartGrants, GrantsStep, EndGrants, GrantsRaise, StartMemory,
     MemoryStep, EndMemory, MemoryRaises, Recreated, Provision, RoleAppears, MembershipGiven,
     FirstUse, grantsVars, runVars

LEMMA SettledHasRolesPreserved ==
    ASSUME GrantsInv, [GrantsNext]_grantsVars PROVE SettledHasRoles'
<1>1. GrantsShape /\ \A audit : Planned(audit)' = Planned(audit)
  BY PlannedIsFixed DEF GrantsInv
<1>2. SUFFICES ASSUME NEW p \in settled', NEW b \in Branches, Item("role", b) \in Planned(FALSE)
               PROVE  Has(p, Item("role", b))'
  BY <1>1 DEF SettledHasRoles
<1>3. Item("role", b).kind = "role" /\ Item("role", b).of \in Branches
  BY DEF Item
<1>4. CASE p \in settled
  <2>1. Has(p, Item("role", b))
    BY <1>2, <1>4 DEF GrantsInv, SettledHasRoles
  <2> QED
    BY <1>1, <1>3, <2>1, HasLasts
<1>5. CASE p \notin settled
  <2>1. EndGrants /\ grants.live /\ ~grants.failed /\ p = grants.sp
    BY <1>5, SettledOnlyByEnd
  <2>2. Item("role", b) \in Planned(grants.audit)
    BY <1>2, PlannedIsListed
  <2>3. Has(grants.sp, Item("role", b))'
    BY <2>1, <2>2, EndHasAll
  <2>4. grants'.sp = grants.sp
    BY <1>1, <2>1 DEF EndGrants, GrantsShape, GrantsRun
  <2> QED
    BY <1>3, <2>1, <2>3, <2>4 DEF Has
<1> QED
  BY <1>4, <1>5

LEMMA ListingIsOwnPreserved ==
    ASSUME GrantsInv, [GrantsNext]_grantsVars PROVE ListingIsOwn'
<1>1. GrantsShape /\ ListingIsOwn /\ \A audit : Planned(audit)' = Planned(audit)
  BY PlannedIsFixed DEF GrantsInv
<1>2. grants \in GrantsRun
  BY <1>1 DEF GrantsShape
<1>3. CASE UNCHANGED <<grants, settled>>
  BY <1>1, <1>3 DEF ListingIsOwn
<1>4. CASE grants'.listed = <<>>
  BY <1>4 DEF ListingIsOwn
<1>5. ASSUME GrantsStep PROVE ListingIsOwn'
  <2>1. PICK k \in grants.todo :
          \/ Missing(k) \/ Tested(k) \/ Accepted(k) \/ StillRunning(k)
          \/ Refused(k) \/ ListRoles(k) \/ GrantRole(k)
    BY <1>5 DEF GrantsStep
  <2>2. grants'.sp = grants.sp /\ settled' = settled
    BY <1>1, <1>5, GrantsRecord DEF GrantsStep
  <2>3. ASSUME grants'.listed = grants.listed,
               \A i \in grants.todo : i.kind = "role" => i \in grants'.todo
        PROVE  ListingIsOwn'
    <3>1. grants.listed # <<>> => grants.listed[1].of.kind = "role"
      BY <1>2, ListingTyped DEF GrantsRun, Of, Item
    <3> QED
      BY <1>1, <2>2, <2>3, <3>1 DEF ListingIsOwn
  <2>4. CASE Missing(k)
    <3>1. grants' = Failed(LeftOut(k)) /\ \A i \in LeftOut(k) : i.kind # "role"
      BY <2>4 DEF Missing, LeftOut, OfKinds
    <3> QED
      BY <1>2, <2>3, <3>1 DEF Failed, GrantsRun
  <2>5. CASE Tested(k)
    BY <1>2, <2>3, <2>5 DEF Tested, Tests, GrantsRun
  <2>6. CASE Accepted(k) \/ StillRunning(k) \/ Refused(k)
    <3>1. k.kind # "role" /\ (grants' = Done({k}) \/ grants' = Failed({k}))
      BY <2>6 DEF Accepted, StillRunning, Refused, GoesOut
    <3> QED
      BY <1>2, <2>3, <3>1 DEF Done, Failed, GrantsRun
  <2>7. CASE GrantRole(k)
    BY <1>2, <1>4, <2>7 DEF GrantRole, Done, Failed, GrantsRun
  <2>8. CASE ListRoles(k)
    <3>1. PICK listed \in {roles[k.of], {}} :
            LET mine == RolesOf(listed, grants.sp) IN
              grants' = IF ~grants.live \/ \E r \in mine : Enough(r) THEN Done({k})
                        ELSE [grants EXCEPT !.listed = <<[of |-> k, mine |-> mine]>>]
      BY <2>8 DEF ListRoles
    <3> DEFINE mine == RolesOf(listed, grants.sp)
    <3>2. CASE grants' = Done({k})
      BY <1>2, <1>4, <2>8, <3>2 DEF ListRoles, Done, GrantsRun
    <3>3. CASE /\ grants' = [grants EXCEPT !.listed = <<[of |-> k, mine |-> mine]>>]
               /\ ~\E r \in mine : Enough(r)
      <4>1. /\ grants'.listed # <<>> /\ grants'.listed[1].of = k /\ grants'.listed[1].mine = mine
            /\ grants'.todo = grants.todo
        BY <1>2, <3>3 DEF GrantsRun
      <4>2. \A r \in mine : r.sp = grants.sp
        BY DEF RolesOf
      <4>3. ASSUME grants.sp \in settled, k \in Planned(FALSE) PROVE mine = {}
        <5>1. k = Item("role", k.of) /\ k.of \in Branches /\ k.kind = "role"
          BY <2>8, <4>3, PlannedIsListed, ListedItems DEF ListRoles
        <5>2. Has(grants.sp, k)
          BY <4>3, <5>1 DEF GrantsInv, SettledHasRoles
        <5>3. PICK r \in roles[k.of] : r.sp = grants.sp /\ IsSuper(r)
          BY <5>1, <5>2 DEF Has
        <5>4. listed # roles[k.of]
          <6> SUFFICES ASSUME listed = roles[k.of] PROVE FALSE
            OBVIOUS
          <6>1. r \in mine
            BY <5>3 DEF RolesOf
          <6> QED
            BY <3>3, <5>3, <6>1 DEF Enough
        <5> QED
          BY <3>1, <5>4 DEF RolesOf
      <4> HIDE DEF mine
      <4> QED
        BY <1>1, <2>1, <2>2, <4>1, <4>2, <4>3 DEF ListingIsOwn
    <3> QED
      BY <3>1, <3>2, <3>3
  <2> QED
    BY <2>1, <2>4, <2>5, <2>6, <2>7, <2>8
<1>6. CASE EndGrants
  <2>1. grants.todo = {} /\ grants'.listed = grants.listed
    BY <1>2, <1>6 DEF EndGrants, GrantsRun
  <2> QED
    BY <1>1, <1>4, <2>1 DEF ListingIsOwn
<1> QED
  BY <1>2, <1>3, <1>4, <1>5, <1>6
     DEF GrantsNext, StartGrants, GrantsRaise, StartMemory, MemoryStep, EndMemory, MemoryRaises,
         Recreated, Provision, RoleAppears, MembershipGiven, FirstUse, grantsVars, runVars, Idle,
         GrantsRun

LEMMA SchemasFollowPreserved ==
    ASSUME GrantsInv, [GrantsNext]_grantsVars PROVE SchemasFollow'
<1>1. memory \in [sp : Nat, refused : BOOLEAN, ended : BOOLEAN,
                  todo : SUBSET (Of("role", Branches) \cup Of("tables", MemorySchemas))]
  BY DEF GrantsInv, GrantsShape
<1>2. SchemasFollow /\ readable \subseteq readable'
  BY GrantsGrow DEF GrantsInv
<1>3. CASE StartMemory
  <2>1. /\ ~memory'.ended
        /\ memory'.todo = Of("role", {MemoryBranch}) \cup Of("tables", MemorySchemas)
    BY <1>3 DEF StartMemory, MemoryIdle
  <2> QED
    BY <2>1 DEF SchemasFollow, Of
<1>4. CASE MemoryStep
  <2>1. script = "memory" /\ script' = "memory"
    BY <1>4 DEF MemoryStep, Within, controlVars
  <2>2. CASE CreateRole
    <3>1. /\ memory'.todo = memory.todo \ Of("role", Branches) /\ memory'.sp = memory.sp
          /\ memory'.refused = memory.refused /\ memory'.ended = memory.ended
      BY <1>1, <2>2 DEF CreateRole
    <3>2. \A s : Item("tables", s) \notin Of("role", Branches)
      BY DEF Item, Of
    <3> QED
      BY <1>2, <2>1, <3>1, <3>2 DEF SchemasFollow
  <2>3. ASSUME NEW s \in MemorySchemas, GrantSchema(s) PROVE SchemasFollow'
    <3>1. /\ memory'.todo = memory.todo \ {Item("tables", s)} /\ memory'.sp = memory.sp
          /\ memory'.ended = memory.ended /\ (memory.refused => memory'.refused)
          /\ memory'.refused \/ <<memory.sp, s>> \in readable'
      BY <1>1, <2>3 DEF GrantSchema
    <3>2. \A r \in MemorySchemas \ {s} : Item("tables", r) # Item("tables", s)
      BY DEF Item
    <3> QED
      BY <1>2, <2>1, <3>1, <3>2 DEF SchemasFollow
  <2> QED
    BY <1>4, <2>2, <2>3 DEF MemoryStep
<1>5. CASE MemoryRaises
  BY <1>5 DEF MemoryRaises, Leaves, MemoryIdle, SchemasFollow
<1>6. CASE EndMemory
  <2>1. /\ script = "memory" /\ memory.todo = {} /\ memory'.todo = {} /\ memory'.sp = memory.sp
        /\ memory'.refused = memory.refused
    BY <1>1, <1>6 DEF EndMemory, Leaves
  <2> QED
    BY <1>2, <2>1 DEF SchemasFollow
<1>7. CASE UNCHANGED memory /\ (script' = "memory" => script = "memory")
  BY <1>2, <1>7 DEF SchemasFollow
<1> QED
  BY <1>3, <1>4, <1>5, <1>6, <1>7
     DEF GrantsNext, StartGrants, GrantsStep, EndGrants, GrantsRaise, Recreated, Provision,
         RoleAppears, MembershipGiven, FirstUse, grantsVars, memoryVars, controlVars, Resolves,
         Starts, Within, Leaves

LEMMA GrantsInvInductive == GrantsSpec => []GrantsInv
<1>1. GrantsInit => GrantsInv
  <2>1. GrantsInit => NothingIsForgotten /\ NoEarlySuccess /\ CleanExitHolds /\ SchemasFollow
                    /\ ListingIsOwn /\ SettledHasRoles
    BY DEF GrantsInit, NothingIsForgotten, NoEarlySuccess, CleanExitHolds, SchemasFollow,
           ListingIsOwn, SettledHasRoles, Idle, MemoryIdle
  <2> QED
    BY <2>1, GrantsInitShape DEF GrantsInv
<1>2. GrantsInv /\ [GrantsNext]_grantsVars => GrantsInv'
  <2> SUFFICES ASSUME GrantsInv, [GrantsNext]_grantsVars PROVE GrantsInv'
    OBVIOUS
  <2> QED
    BY GrantsShapePreserved, NothingIsForgottenPreserved, SchemasFollowPreserved,
       ListingIsOwnPreserved, SettledHasRolesPreserved DEF GrantsInv
<1> QED
  BY <1>1, <1>2, PTL DEF GrantsSpec

\* For every set of resources, objects that are missing and options, and any
\* number of scripts, principals and refused calls: a clean exit of the first
\* script leaves the principal it resolved with every grant it planned, and an
\* end of the second one with nothing refused with every memory schema, and later
\* scripts and Apps take nothing of it back (grant_app_runtime_permissions.py: run;
\* grant_lakebase_memory_permissions.py).
THEOREM ReportsAreTrue == GrantsSpec => []ReportedIsGranted
<1>1. GrantsInv => ReportedIsGranted
  <2> SUFFICES ASSUME GrantsInv PROVE CleanExitHolds /\ MemoryIsReadable
    BY DEF ReportedIsGranted
  <2>1. SchemasFollow /\ DOMAIN tables = MemorySchemas
    BY DEF GrantsInv, GrantsShape
  <2> QED
    BY <2>1 DEF GrantsInv, SchemasFollow, MemoryIsReadable
<1> QED
  BY <1>1, GrantsInvInductive, PTL

-----------------------------------------------------------------------------
(* What a rerun may overwrite *)

LEMMA SettledRolesKeepMembers ==
    ASSUME GrantsInv, [GrantsNext]_grantsVars, NEW b \in Branches, NEW r \in roles[b],
           r.sp \in settled, Item("role", b) \in Planned(FALSE)
    PROVE  \E q \in roles'[b] : q.sp = r.sp /\ r.member \subseteq q.member
<1>1. GrantsShape /\ roles \in [Branches -> SUBSET BranchRole]
  BY DEF GrantsInv, GrantsShape
<1>2. RolesStep
  BY <1>1, GrantsNextIsRolesStep
<1>3. ASSUME NEW c \in Branches, NEW p \in BranchRole, Overwrites(c, p),
             roles' = [roles EXCEPT ![c] = Replaced(c, p)]
      PROVE  r \in roles'[b]
  <2>1. CASE c = b
    <3>1. /\ p.sp = grants.sp
          /\ grants.sp \notin settled
      BY <1>3, <2>1 DEF GrantsInv, ListingIsOwn, Overwrites
    <3> QED
      BY <1>1, <1>3, <2>1, <3>1 DEF Replaced
  <2>2. CASE c # b
    BY <1>1, <1>3, <2>2
  <2> QED
    BY <2>1, <2>2
<1>4. ASSUME NEW c \in Branches, NEW m \in Memberships, NEW g \in roles[c],
             roles' = [roles EXCEPT ![c] = (@ \ {g}) \cup {Given(g, m)}]
      PROVE  \E q \in roles'[b] : q.sp = r.sp /\ r.member \subseteq q.member
  <2>1. CASE c = b /\ r = g
    <3>1. Given(g, m) \in roles'[b]
      BY <1>1, <1>4, <2>1
    <3>2. Given(g, m).sp = g.sp /\ g.member \subseteq Given(g, m).member
      BY <1>1, <1>4, RolesGiven
    <3> QED
      BY <2>1, <3>1, <3>2
  <2>2. CASE c # b \/ r # g
    BY <1>1, <1>4, <2>2
  <2> QED
    BY <2>1, <2>2
<1>5. ASSUME NEW c \in Branches, NEW n \in BranchRole, roles' = [roles EXCEPT ![c] = @ \cup {n}]
      PROVE  r \in roles'[b]
  BY <1>1, <1>5
<1> QED
  BY <1>2, <1>3, <1>4, <1>5 DEF RolesStep

\* For every set of branches and memberships, and any number of scripts,
\* principals, refused calls and administrators' grants between the calls of a
\* run: once a run has ended for a principal with no failure, what update-role
\* overwrites in a later one is never a role of that principal
\* (grant_app_runtime_permissions.py: grant_lakebase_app_permission).
THEOREM RerunsAreHarmless == GrantsSpec => RerunTakesNothing
<1>1. GrantsInv /\ [GrantsNext]_grantsVars =>
        \A b \in Branches : \A r \in roles[b] :
          r.sp \in settled /\ Item("role", b) \in Planned(FALSE) =>
            \E q \in roles'[b] : q.sp = r.sp /\ r.member \subseteq q.member
  BY SettledRolesKeepMembers
<1> QED
  BY <1>1, GrantsInvInductive, PTL DEF RerunTakesNothing, GrantsSpec

-----------------------------------------------------------------------------
(* Setup: the writes of a stage *)

EnvWrite ==
  [file : {"env"}, key : {"profile", "tracking"}, value : Profiles]
  \cup [file : {"env"}, key : {"experiment"}, value : Experiments]
  \cup [file : {"env"}, key : {"endpoint"}, value : PgEndpoints \cup {Empty}]
  \cup [file : {"env"}, key : {"instance"}, value : Instances \cup {Empty}]
  \cup [file : {"env"}, key : {"pghost"}, value : Hosts]
  \cup [file : {"env"}, key : {"pguser", "pgdatabase"}, value : {TRUE}]

\* Entries of databricks.yml that keep the variable and the resource together.
Entries ==
  [app : {TRUE}] \cup [experiment : Experiments]
  \cup {x \in [variable : {"autoscaling", "provisioned", Absent}, resource : Resource \cup {Absent}] :
          x.variable # Absent => x.resource # Absent /\ x.resource.kind = x.variable}

YmlWrite == [file : {"yml"}, entries : Entries]
AnyWrite == EnvWrite \cup YmlWrite

\* The pending writes of a key, and the value it has once they are done.
EnvWrites(k) == {w \in ToSet(pending) : w.file = "env" /\ w.key = k}
WillBe(k, v) == /\ \A w \in EnvWrites(k) : w.value = v
                /\ EnvWrites(k) = {} => env[k] = v

YmlWrites(k) == {w \in ToSet(pending) : w.file = "yml" /\ k \in DOMAIN w.entries}
YmlWillBe(k, v) == /\ \A w \in YmlWrites(k) : w.entries[k] = v
                   /\ YmlWrites(k) = {} => yml[k] = v

LEMMA SetOfJoined ==
    ASSUME NEW s \in Seq(AnyWrite), NEW t \in Seq(AnyWrite)
    PROVE  s \o t \in Seq(AnyWrite) /\ ToSet(s \o t) = ToSet(s) \cup ToSet(t)
<1>1. /\ s \o t \in Seq(AnyWrite) /\ Len(s \o t) = Len(s) + Len(t)
      /\ Len(s) \in Nat /\ Len(t) \in Nat
      /\ \A j \in 1 .. Len(s) + Len(t) :
           (s \o t)[j] = IF j <= Len(s) THEN s[j] ELSE t[j - Len(s)]
      /\ DOMAIN s = 1 .. Len(s) /\ DOMAIN t = 1 .. Len(t)
      /\ DOMAIN (s \o t) = 1 .. Len(s) + Len(t)
  OBVIOUS
<1>2. ASSUME NEW j \in 1 .. Len(s) + Len(t)
      PROVE  (s \o t)[j] \in ToSet(s) \cup ToSet(t)
  <2>1. CASE j <= Len(s)
    <3>1. j \in DOMAIN s /\ (s \o t)[j] = s[j]
      BY <1>1, <2>1
    <3> QED
      BY <3>1 DEF ToSet
  <2>2. CASE ~(j <= Len(s))
    <3>1. j - Len(s) \in DOMAIN t /\ (s \o t)[j] = t[j - Len(s)]
      BY <1>1, <2>2
    <3> QED
      BY <3>1 DEF ToSet
  <2> QED
    BY <2>1, <2>2
<1>3. ASSUME NEW j \in 1 .. Len(s)
      PROVE  s[j] \in ToSet(s \o t)
  <2>1. j \in 1 .. Len(s) + Len(t) /\ j <= Len(s)
    BY <1>1
  <2>2. (s \o t)[j] = s[j]
    BY <1>1, <2>1
  <2> QED
    BY <1>1, <2>1, <2>2 DEF ToSet
<1>4. ASSUME NEW j \in 1 .. Len(t)
      PROVE  t[j] \in ToSet(s \o t)
  <2>1. j + Len(s) \in 1 .. Len(s) + Len(t) /\ ~(j + Len(s) <= Len(s)) /\ j + Len(s) - Len(s) = j
    BY <1>1
  <2>2. (s \o t)[j + Len(s)] = t[j]
    BY <1>1, <2>1
  <2> QED
    BY <1>1, <2>1, <2>2 DEF ToSet
<1>5. ToSet(s \o t) \subseteq ToSet(s) \cup ToSet(t)
  BY <1>1, <1>2 DEF ToSet
<1>6. ToSet(s) \subseteq ToSet(s \o t) /\ ToSet(t) \subseteq ToSet(s \o t)
  BY <1>1, <1>3, <1>4 DEF ToSet
<1> QED
  BY <1>1, <1>5, <1>6

LEMMA SetOfTail ==
    ASSUME NEW s \in Seq(AnyWrite), s # << >>
    PROVE  /\ Tail(s) \in Seq(AnyWrite) /\ Head(s) \in AnyWrite /\ Head(s) \in ToSet(s)
           /\ ToSet(s) = ToSet(Tail(s)) \cup {Head(s)} /\ ToSet(s) \subseteq AnyWrite
<1>1. /\ Tail(s) \in Seq(AnyWrite) /\ Len(s) \in Nat \ {0} /\ Len(Tail(s)) = Len(s) - 1
      /\ Head(s) = s[1] /\ DOMAIN s = 1 .. Len(s) /\ DOMAIN Tail(s) = 1 .. Len(s) - 1
      /\ \A j \in 1 .. Len(s) - 1 : Tail(s)[j] = s[j + 1]
      /\ \A j \in 1 .. Len(s) : s[j] \in AnyWrite
  OBVIOUS
<1>2. Head(s) \in ToSet(s) /\ Head(s) \in AnyWrite /\ ToSet(s) \subseteq AnyWrite
  BY <1>1 DEF ToSet
<1>3. ToSet(Tail(s)) \subseteq ToSet(s)
  <2>1. \A j \in 1 .. Len(s) - 1 : j + 1 \in 1 .. Len(s)
    BY <1>1
  <2> QED
    BY <1>1, <2>1 DEF ToSet
<1>4. ASSUME NEW j \in 1 .. Len(s)
      PROVE  s[j] \in ToSet(Tail(s)) \cup {Head(s)}
  <2>1. CASE j = 1
    BY <1>1, <2>1
  <2>2. CASE j # 1
    <3>1. j - 1 \in 1 .. Len(s) - 1 /\ j - 1 + 1 = j
      BY <1>1, <2>2
    <3>2. Tail(s)[j - 1] = s[j]
      BY <1>1, <3>1
    <3> QED
      BY <1>1, <3>1, <3>2 DEF ToSet
  <2> QED
    BY <2>1, <2>2
<1>5. ToSet(s) \subseteq ToSet(Tail(s)) \cup {Head(s)}
  BY <1>1, <1>4 DEF ToSet
<1> QED
  BY <1>1, <1>2, <1>3, <1>5

LEMMA SetOfOne ==
    ASSUME NEW a \in AnyWrite
    PROVE  <<a>> \in Seq(AnyWrite) /\ ToSet(<<a>>) = {a}
  BY DEF ToSet

LEMMA SetOfTwo ==
    ASSUME NEW a \in AnyWrite, NEW b \in AnyWrite
    PROVE  <<a, b>> \in Seq(AnyWrite) /\ ToSet(<<a, b>>) = {a, b}
  BY DEF ToSet

LEMMA SetOfThree ==
    ASSUME NEW a \in Seq(AnyWrite), NEW b \in Seq(AnyWrite), NEW c \in Seq(AnyWrite)
    PROVE  /\ a \o b \o c \in Seq(AnyWrite)
           /\ ToSet(a \o b \o c) = ToSet(a) \cup ToSet(b) \cup ToSet(c)
<1> DEFINE ab == a \o b
<1>1. ab \in Seq(AnyWrite) /\ ToSet(ab) = ToSet(a) \cup ToSet(b)
  BY SetOfJoined
<1> HIDE DEF ab
<1>2. ab \o c \in Seq(AnyWrite) /\ ToSet(ab \o c) = ToSet(ab) \cup ToSet(c)
  BY <1>1, SetOfJoined
<1> QED
  BY <1>1, <1>2 DEF ab

LEMMA SetOfFour ==
    ASSUME NEW a \in Seq(AnyWrite), NEW b \in Seq(AnyWrite), NEW c \in Seq(AnyWrite),
           NEW d \in Seq(AnyWrite)
    PROVE  /\ a \o b \o c \o d \in Seq(AnyWrite)
           /\ ToSet(a \o b \o c \o d) = ToSet(a) \cup ToSet(b) \cup ToSet(c) \cup ToSet(d)
<1> DEFINE abc == a \o b \o c
<1>1. abc \in Seq(AnyWrite) /\ ToSet(abc) = ToSet(a) \cup ToSet(b) \cup ToSet(c)
  BY SetOfThree
<1> HIDE DEF abc
<1>2. abc \o d \in Seq(AnyWrite) /\ ToSet(abc \o d) = ToSet(abc) \cup ToSet(d)
  BY <1>1, SetOfJoined
<1> QED
  BY <1>1, <1>2 DEF abc

LEMMA SetOfWhen ==
    ASSUME NEW cond \in BOOLEAN, NEW s, cond => s \in Seq(AnyWrite)
    PROVE  /\ When(cond, s) \in Seq(AnyWrite)
           /\ ToSet(When(cond, s)) = IF cond THEN ToSet(s) ELSE {}
  BY DEF When, ToSet

\* What the files hold, and what a stage may leave to be written.
SetupShape ==
  /\ env \in Env
  /\ yml \in Yml
  /\ experiments \subseteq Experiments
  /\ stage \in Stages
  /\ args \in Arguments \cup {Empty}
  /\ config \in Config \cup {Empty}
  /\ config # Empty /\ config.named => config.target # Empty
  /\ stage \in {"idle", "auth", "bind"} => config = Empty
  /\ stage = "branch" => config # Empty /\ config.kind = "autoscaling" /\ config.named
  /\ appExperiment \in {0, Empty}
  /\ pending \in Seq(AnyWrite)
  /\ stage = "idle" => pending = << >>
  /\ history \in [foreign : BOOLEAN, broken : BOOLEAN]
  /\ VariableHasItsResource

LEMMA EmptyIsNothing ==
    /\ Empty \notin Profiles /\ Empty \notin Hosts /\ Empty \notin Experiments
    /\ Empty \notin Resource /\ Empty \notin Config
    /\ 0 \in Experiments /\ Absent \notin Resource /\ Absent \notin Experiments
  BY QuickstartAssumption DEF Experiments

\* A write keeps the files well formed, and the variable with its resource.
LEMMA FilesAfterWrite ==
    ASSUME SetupShape, Write
    PROVE  env' \in Env /\ yml' \in Yml /\ VariableHasItsResource'
<1> DEFINE w == Head(pending)
<1>1. w \in AnyWrite
  BY SetOfTail DEF Write, SetupShape
<1>2. CASE w.file = "env"
  <2>1. w \in EnvWrite
    BY <1>1, <1>2 DEF AnyWrite, YmlWrite
  <2>2. env' = [env EXCEPT ![w.key] = w.value] /\ yml' = yml
    BY <1>2 DEF Write
  <2> HIDE DEF w
  <2>3. env' \in Env
    BY <2>1, <2>2 DEF EnvWrite, SetupShape, Env, Hosts
  <2> QED
    BY <2>2, <2>3 DEF SetupShape, VariableHasItsResource
<1>3. CASE w.file # "env"
  <2>1. w \in YmlWrite
    BY <1>1, <1>3 DEF AnyWrite, EnvWrite
  <2>2. /\ env' = env
        /\ yml' = [k \in DOMAIN yml |-> IF k \in DOMAIN w.entries THEN w.entries[k] ELSE yml[k]]
    BY <1>3 DEF Write
  <2> HIDE DEF w
  <2> DEFINE entries == w.entries
  <2>3. entries \in Entries
    BY <2>1 DEF YmlWrite
  <2>4. yml' = [k \in DOMAIN yml |-> IF k \in DOMAIN entries THEN entries[k] ELSE yml[k]]
    BY <2>2
  <2> HIDE DEF entries
  <2>5. CASE entries \in [app : {TRUE}] \cup [experiment : Experiments]
    BY <2>2, <2>4, <2>5 DEF SetupShape, Yml, VariableHasItsResource
  <2>6. CASE entries \in [variable : {"autoscaling", "provisioned", Absent}, resource : Resource \cup {Absent}]
    <3>1. entries.variable # Absent => entries.resource # Absent /\ entries.resource.kind = entries.variable
      BY <2>3, <2>6 DEF Entries
    <3>2. yml'.variable = entries.variable /\ yml'.resource = entries.resource
      BY <2>4, <2>6 DEF SetupShape, Yml
    <3>3. yml' \in Yml
      BY <2>4, <2>6 DEF SetupShape, Yml
    <3> QED
      BY <2>2, <3>1, <3>2, <3>3 DEF SetupShape, VariableHasItsResource
  <2> QED
    BY <2>3, <2>5, <2>6 DEF Entries
<1> QED
  BY <1>2, <1>3

LEMMA WriteSettles ==
    ASSUME SetupShape, Write, NEW k \in DOMAIN env, NEW v, WillBe(k, v)
    PROVE  WillBe(k, v)'
<1> DEFINE w == Head(pending)
<1>1. /\ w \in AnyWrite /\ w \in ToSet(pending) /\ pending' = Tail(pending)
      /\ ToSet(pending) = ToSet(Tail(pending)) \cup {w}
  BY SetOfTail DEF Write, SetupShape
<1>2. IF w.file = "env" THEN env' = [env EXCEPT ![w.key] = w.value] ELSE env' = env
  BY DEF Write
<1> HIDE DEF w
<1>3. CASE w.file = "env" /\ w.key = k
  <2>1. w.value = v
    BY <1>1, <1>3 DEF WillBe, EnvWrites
  <2>2. env'[k] = v
    BY <1>2, <1>3, <2>1 DEF SetupShape, Env
  <2> QED
    BY <1>1, <2>2 DEF WillBe, EnvWrites
<1>4. CASE ~(w.file = "env" /\ w.key = k)
  <2>1. EnvWrites(k)' = EnvWrites(k)
    BY <1>1, <1>4 DEF EnvWrites
  <2>2. env'[k] = env[k]
    BY <1>2, <1>4 DEF SetupShape, Env
  <2> QED
    BY <2>1, <2>2 DEF WillBe
<1> QED
  BY <1>3, <1>4

LEMMA YmlWriteSettles ==
    ASSUME SetupShape, Write, NEW k \in DOMAIN yml, NEW v, YmlWillBe(k, v)
    PROVE  YmlWillBe(k, v)'
<1> DEFINE w == Head(pending)
<1>1. /\ w \in AnyWrite /\ w \in ToSet(pending) /\ pending' = Tail(pending)
      /\ ToSet(pending) = ToSet(Tail(pending)) \cup {w}
  BY SetOfTail DEF Write, SetupShape
<1>2. w.file \in {"env", "yml"}
  BY <1>1 DEF AnyWrite, EnvWrite, YmlWrite
<1>3. IF w.file = "env" THEN yml' = yml
      ELSE yml' = [j \in DOMAIN yml |-> IF j \in DOMAIN w.entries THEN w.entries[j] ELSE yml[j]]
  BY DEF Write
<1> HIDE DEF w
<1>4. CASE w.file = "yml" /\ k \in DOMAIN w.entries
  <2>1. w.entries[k] = v
    BY <1>1, <1>4 DEF YmlWillBe, YmlWrites
  <2>2. yml'[k] = v
    BY <1>3, <1>4, <2>1
  <2> QED
    BY <1>1, <2>2 DEF YmlWillBe, YmlWrites
<1>5. CASE ~(w.file = "yml" /\ k \in DOMAIN w.entries)
  <2>1. YmlWrites(k)' = YmlWrites(k)
    BY <1>1, <1>5 DEF YmlWrites
  <2>2. yml'[k] = yml[k]
    BY <1>2, <1>3, <1>5
  <2> QED
    BY <2>1, <2>2 DEF YmlWillBe
<1> QED
  BY <1>4, <1>5

\* The writes W are to the keys of .env that describe a database.
InLocal(W) == \A w \in W : /\ w.file = "env"
                          /\ w.key \in {"endpoint", "instance", "pghost", "pguser", "pgdatabase"}

\* The writes W make .env name the database c describes: its endpoint and no
\* instance, or its instance and no endpoint.
Names(W, c) ==
    /\ \A w \in W : w.key = "endpoint" => w.value = IF c.kind = "provisioned" THEN Empty ELSE c.target
    /\ \A w \in W : w.key = "instance" => w.value = IF c.kind = "provisioned" THEN c.target ELSE Empty
    /\ \E w \in W : w.key = "instance"

LEMMA AdoptWrites ==
    ASSUME NEW resource \in Resource, NEW found \in BOOLEAN, NEW host \in BOOLEAN,
           found => resource.target # Empty
    PROVE  LET writes == AdoptLakebase(resource, found, host)
               W == ToSet(writes)
           IN /\ writes \in Seq(AnyWrite)
              /\ InLocal(W)
              /\ SetEnv("pguser", TRUE) \in W /\ SetEnv("pgdatabase", TRUE) \in W
              /\ Names(W, resource)
              /\ resource.kind = "provisioned" \/ found => \E w \in W : w.key = "endpoint"
<1> DEFINE t == resource.target
<1>1. SetEnv("pguser", TRUE) \in AnyWrite /\ SetEnv("pgdatabase", TRUE) \in AnyWrite
  BY DEF SetEnv, AnyWrite, EnvWrite
<1>2. <<SetEnv("pguser", TRUE)>> \in Seq(AnyWrite) /\ ToSet(<<SetEnv("pguser", TRUE)>>) = {SetEnv("pguser", TRUE)}
  BY <1>1, SetOfOne, SetOfTwo
<1>3. CASE resource.kind = "provisioned"
  <2>1. /\ SetEnv("instance", t) \in AnyWrite /\ SetEnv("endpoint", Empty) \in AnyWrite
        /\ SetEnv("pghost", t) \in AnyWrite
    BY <1>3 DEF SetEnv, AnyWrite, EnvWrite, Resource, Hosts
  <2> DEFINE a == <<SetEnv("instance", t), SetEnv("endpoint", Empty)>>
             b == When(host, <<SetEnv("pghost", t)>>)
             c == <<SetEnv("pgdatabase", TRUE)>>
             d == <<SetEnv("pguser", TRUE)>>
  <2>2. /\ a \in Seq(AnyWrite) /\ ToSet(a) = {SetEnv("instance", t), SetEnv("endpoint", Empty)}
        /\ b \in Seq(AnyWrite) /\ ToSet(b) \subseteq {SetEnv("pghost", t)}
        /\ c \in Seq(AnyWrite) /\ ToSet(c) = {SetEnv("pgdatabase", TRUE)}
    BY <1>1, <2>1, SetOfOne, SetOfTwo, SetOfWhen
  <2>3. AdoptLakebase(resource, found, host) = a \o b \o c \o d
    BY <1>3 DEF AdoptLakebase, AppDatabase
  <2>4. d \in Seq(AnyWrite) /\ ToSet(d) = {SetEnv("pguser", TRUE)}
    BY <1>2
  <2> HIDE DEF a, b, c, d
  <2>5. /\ a \o b \o c \o d \in Seq(AnyWrite)
        /\ ToSet(a \o b \o c \o d) = ToSet(a) \cup ToSet(b) \cup ToSet(c) \cup ToSet(d)
    <3>1. a \in Seq(AnyWrite) /\ b \in Seq(AnyWrite) /\ c \in Seq(AnyWrite) /\ d \in Seq(AnyWrite)
      BY <2>2, <2>4
    <3> QED
      BY <3>1, SetOfFour
  <2> DEFINE W == ToSet(AdoptLakebase(resource, found, host))
  <2>6. /\ {SetEnv("instance", t), SetEnv("endpoint", Empty), SetEnv("pgdatabase", TRUE),
            SetEnv("pguser", TRUE)} \subseteq W
        /\ W \subseteq {SetEnv("instance", t), SetEnv("endpoint", Empty), SetEnv("pgdatabase", TRUE),
                        SetEnv("pguser", TRUE), SetEnv("pghost", t)}
    BY <2>2, <2>3, <2>4, <2>5
  <2> HIDE DEF W, t
  <2>7. /\ \A w \in W : /\ w.file = "env"
                     /\ w.key \in {"endpoint", "instance", "pghost", "pguser", "pgdatabase"}
        /\ \A w \in W : w.key = "endpoint" => w.value = Empty
        /\ \A w \in W : w.key = "instance" => w.value = t
        /\ \E w \in W : w.key = "endpoint"
        /\ \E w \in W : w.key = "instance"
    BY <2>6 DEF SetEnv
  <2> QED
    BY <1>3, <2>3, <2>5, <2>6, <2>7 DEF W, t, Names, InLocal
<1>4. CASE resource.kind = "autoscaling"
  <2>1. /\ SetEnv("instance", Empty) \in AnyWrite /\ SetEnv("endpoint", t) \in AnyWrite
        /\ found => SetEnv("pghost", t) \in AnyWrite
    BY <1>4 DEF SetEnv, AnyWrite, EnvWrite, Resource, Hosts
  <2> DEFINE a == When(found, <<SetEnv("endpoint", t)>>)
             b == When(found /\ host, <<SetEnv("pghost", t)>>)
             c == <<SetEnv("instance", Empty), SetEnv("pgdatabase", TRUE)>>
             d == <<SetEnv("pguser", TRUE)>>
  <2>2. /\ a \in Seq(AnyWrite) /\ ToSet(a) = IF found THEN {SetEnv("endpoint", t)} ELSE {}
        /\ c \in Seq(AnyWrite) /\ ToSet(c) = {SetEnv("instance", Empty), SetEnv("pgdatabase", TRUE)}
    BY <1>1, <2>1, SetOfOne, SetOfTwo, SetOfWhen
  <2>3. b \in Seq(AnyWrite) /\ ToSet(b) \subseteq {SetEnv("pghost", t)}
    <3>1. (found /\ host) \in BOOLEAN
      OBVIOUS
    <3>2. found /\ host => <<SetEnv("pghost", t)>> \in Seq(AnyWrite)
                           /\ ToSet(<<SetEnv("pghost", t)>>) = {SetEnv("pghost", t)}
      BY <2>1, SetOfOne, SetOfTwo
    <3> QED
      BY <3>1, <3>2, SetOfWhen
  <2>4. AdoptLakebase(resource, found, host) = a \o b \o c \o d
    BY <1>4 DEF AdoptLakebase, AppPostgres
  <2>5. d \in Seq(AnyWrite) /\ ToSet(d) = {SetEnv("pguser", TRUE)}
    BY <1>2
  <2> HIDE DEF a, b, c, d
  <2>6. /\ a \o b \o c \o d \in Seq(AnyWrite)
        /\ ToSet(a \o b \o c \o d) = ToSet(a) \cup ToSet(b) \cup ToSet(c) \cup ToSet(d)
    <3>1. a \in Seq(AnyWrite) /\ b \in Seq(AnyWrite) /\ c \in Seq(AnyWrite) /\ d \in Seq(AnyWrite)
      BY <2>2, <2>3, <2>5
    <3> QED
      BY <3>1, SetOfFour
  <2> DEFINE W == ToSet(AdoptLakebase(resource, found, host))
  <2>7. /\ {SetEnv("instance", Empty), SetEnv("pgdatabase", TRUE), SetEnv("pguser", TRUE)} \subseteq W
        /\ W \subseteq {SetEnv("instance", Empty), SetEnv("pgdatabase", TRUE), SetEnv("pguser", TRUE),
                        SetEnv("endpoint", t), SetEnv("pghost", t)}
        /\ found => SetEnv("endpoint", t) \in W
    BY <2>2, <2>3, <2>4, <2>5, <2>6
  <2> HIDE DEF W, t
  <2>8. /\ \A w \in W : /\ w.file = "env"
                     /\ w.key \in {"endpoint", "instance", "pghost", "pguser", "pgdatabase"}
        /\ \A w \in W : w.key = "endpoint" => w.value = t
        /\ \A w \in W : w.key = "instance" => w.value = Empty
        /\ found => \E w \in W : w.key = "endpoint"
        /\ \E w \in W : w.key = "instance"
    BY <2>7 DEF SetEnv
  <2> QED
    BY <1>4, <2>4, <2>6, <2>7, <2>8 DEF W, t, Names, InLocal
<1> QED
  BY <1>3, <1>4 DEF Resource

LEMMA SaveWrites ==
    ASSUME NEW c \in Config, c.target # Empty, NEW host \in BOOLEAN
    PROVE  LET writes == SaveLakebase(c, host)
               W == ToSet(writes)
           IN /\ writes \in Seq(AnyWrite)
              /\ InLocal(W)
              /\ SetEnv("pguser", TRUE) \in W /\ SetEnv("pgdatabase", TRUE) \in W
              /\ Names(W, c)
              /\ \E w \in W : w.key = "endpoint"
<1> DEFINE t == c.target
           a == IF c.kind = "autoscaling" THEN <<SetEnv("endpoint", t), SetEnv("instance", Empty)>>
                ELSE <<SetEnv("instance", t), SetEnv("endpoint", Empty)>>
           b == When(host, <<SetEnv("pghost", t)>>)
           d == <<SetEnv("pguser", TRUE), SetEnv("pgdatabase", TRUE)>>
           W == ToSet(SaveLakebase(c, host))
           e == IF c.kind = "provisioned" THEN Empty ELSE t
           i == IF c.kind = "provisioned" THEN t ELSE Empty
<1>1. c.kind \in {"autoscaling", "provisioned"}
  BY DEF Config
<1>2. /\ SetEnv("endpoint", e) \in AnyWrite /\ SetEnv("instance", i) \in AnyWrite
      /\ SetEnv("pghost", t) \in AnyWrite
      /\ SetEnv("pguser", TRUE) \in AnyWrite /\ SetEnv("pgdatabase", TRUE) \in AnyWrite
  BY DEF SetEnv, AnyWrite, EnvWrite, Config, Hosts
<1>3. /\ b \in Seq(AnyWrite) /\ ToSet(b) \subseteq {SetEnv("pghost", t)}
      /\ d \in Seq(AnyWrite) /\ ToSet(d) = {SetEnv("pguser", TRUE), SetEnv("pgdatabase", TRUE)}
  BY <1>2, SetOfOne, SetOfTwo, SetOfWhen
<1>4. a \in Seq(AnyWrite) /\ ToSet(a) = {SetEnv("endpoint", e), SetEnv("instance", i)}
  <2>1. CASE c.kind = "autoscaling"
    BY <1>2, <2>1, SetOfOne, SetOfTwo
  <2>2. CASE c.kind = "provisioned"
    BY <1>2, <2>2, SetOfOne, SetOfTwo
  <2> QED
    BY <1>1, <2>1, <2>2
<1>5. SaveLakebase(c, host) = a \o b \o d
  BY DEF SaveLakebase
<1> HIDE DEF a, b, d, e, i, t
<1>6. a \o b \o d \in Seq(AnyWrite) /\ ToSet(a \o b \o d) = ToSet(a) \cup ToSet(b) \cup ToSet(d)
  BY <1>3, <1>4, SetOfThree
<1>7. /\ {SetEnv("endpoint", e), SetEnv("instance", i), SetEnv("pguser", TRUE), SetEnv("pgdatabase", TRUE)} \subseteq W
      /\ W \subseteq {SetEnv("endpoint", e), SetEnv("instance", i), SetEnv("pguser", TRUE),
                      SetEnv("pgdatabase", TRUE), SetEnv("pghost", t)}
  BY <1>3, <1>4, <1>5, <1>6
<1> HIDE DEF W
<1>8. /\ \A w \in W : /\ w.file = "env"
                     /\ w.key \in {"endpoint", "instance", "pghost", "pguser", "pgdatabase"}
      /\ \A w \in W : w.key = "endpoint" => w.value = e
      /\ \A w \in W : w.key = "instance" => w.value = i
      /\ \E w \in W : w.key = "endpoint"
      /\ \E w \in W : w.key = "instance"
  BY <1>7 DEF SetEnv
<1>9. Names(W, c) /\ InLocal(W)
  BY <1>8 DEF t, e, i, Names, InLocal
<1>10. SaveLakebase(c, host) \in Seq(AnyWrite) /\ SetEnv("pguser", TRUE) \in W /\ SetEnv("pgdatabase", TRUE) \in W
  BY <1>5, <1>6, <1>7
<1> QED
  BY <1>8, <1>9, <1>10 DEF W

LEMMA ExperimentWrites ==
    ASSUME NEW x \in Experiments
    PROVE  /\ SaveExperiment(x) \in Seq(AnyWrite)
           /\ SetEnv("experiment", x) \in ToSet(SaveExperiment(x))
           /\ ToSet(SaveExperiment(x)) \subseteq {SetEnv("experiment", x), SetYml([experiment |-> x])}
           /\ yml.experiment # Absent => SetYml([experiment |-> x]) \in ToSet(SaveExperiment(x))
<1> DEFINE a == <<SetEnv("experiment", x)>>
           b == <<SetYml([experiment |-> x])>>
           cond == yml.experiment # Absent
<1>1. SetEnv("experiment", x) \in AnyWrite /\ SetYml([experiment |-> x]) \in AnyWrite
  BY DEF SetEnv, SetYml, AnyWrite, EnvWrite, YmlWrite, Entries
<1>2. /\ a \in Seq(AnyWrite) /\ ToSet(a) = {SetEnv("experiment", x)}
      /\ b \in Seq(AnyWrite) /\ ToSet(b) = {SetYml([experiment |-> x])}
  BY <1>1, SetOfOne
<1>3. cond \in BOOLEAN /\ SaveExperiment(x) = a \o When(cond, b)
  BY DEF SaveExperiment
<1> HIDE DEF a, b
<1>4. When(cond, b) \in Seq(AnyWrite) /\ ToSet(When(cond, b)) = IF cond THEN ToSet(b) ELSE {}
  BY <1>2, SetOfWhen
<1>5. a \o When(cond, b) \in Seq(AnyWrite) /\ ToSet(a \o When(cond, b)) = ToSet(a) \cup ToSet(When(cond, b))
  BY <1>2, <1>4, SetOfJoined
<1> QED
  BY <1>2, <1>3, <1>4, <1>5

LEMMA BindWrites ==
    ASSUME NEW lake \in Resource \cup {Empty}, NEW found \in BOOLEAN, NEW host \in BOOLEAN,
           found => lake # Empty /\ lake.target # Empty
    PROVE  LET writes == << SetYml([app |-> TRUE]) >>
                           \o When(lake # Empty, AdoptLakebase(lake, found, host))
           IN /\ writes \in Seq(AnyWrite)
              /\ ToSet(writes) = {SetYml([app |-> TRUE])}
                   \cup (IF lake # Empty THEN ToSet(AdoptLakebase(lake, found, host)) ELSE {})
<1> DEFINE a == <<SetYml([app |-> TRUE])>>
           cond == lake # Empty
           adopt == AdoptLakebase(lake, found, host)
           b == When(cond, adopt)
<1>1. SetYml([app |-> TRUE]) \in AnyWrite
  BY DEF SetYml, AnyWrite, YmlWrite, Entries
<1>2. a \in Seq(AnyWrite) /\ ToSet(a) = {SetYml([app |-> TRUE])}
  BY <1>1, SetOfOne
<1>3. cond => adopt \in Seq(AnyWrite)
  BY AdoptWrites
<1>4. cond \in BOOLEAN
  OBVIOUS
<1> HIDE DEF a, adopt, cond
<1>5. b \in Seq(AnyWrite) /\ ToSet(b) = IF cond THEN ToSet(adopt) ELSE {}
  BY <1>3, <1>4, SetOfWhen
<1> HIDE DEF b
<1>6. a \o b \in Seq(AnyWrite) /\ ToSet(a \o b) = ToSet(a) \cup ToSet(b)
  BY <1>2, <1>5, SetOfJoined
<1> QED
  BY <1>2, <1>5, <1>6 DEF a, b, cond, adopt

\* The keys that writes set.
Keys(W) == {w.key : w \in {x \in W : x.file = "env"}}
YmlKeys(W) == UNION {DOMAIN w.entries : w \in {x \in W : x.file = "yml"}}

LakebaseKeys == {"endpoint", "instance", "pghost", "pguser", "pgdatabase"}
ExperimentStep == SeedExperiment \/ ReuseExperiment \/ \E x \in Experiments : CreateExperiment(x)
QuietStep == BindNothing \/ KeepAppConfig \/ ReuseLakebase \/ SkipLakebase
             \/ (\E e \in PgEndpoints : CreateProject(e)) \/ CreatedUnresolved

\* Each stage writes its own keys, once the writes of the one before are done.
LEMMA AuthenticateWrites ==
    ASSUME Authenticate
    PROVE  /\ pending' \in Seq(AnyWrite) /\ YmlKeys(ToSet(pending')) = {}
           /\ Keys(ToSet(pending')) \subseteq {"profile", "tracking"}
           /\ \E p \in Profiles : ToSet(pending') = {SetEnv("profile", p), SetEnv("tracking", p)}
<1>1. PICK p \in Profiles : pending' = << SetEnv("profile", p), SetEnv("tracking", p) >>
  BY DEF Authenticate, Goes
<1>2. SetEnv("profile", p) \in AnyWrite /\ SetEnv("tracking", p) \in AnyWrite
  BY DEF SetEnv, AnyWrite, EnvWrite
<1>3. pending' \in Seq(AnyWrite) /\ ToSet(pending') = {SetEnv("profile", p), SetEnv("tracking", p)}
  BY <1>1, <1>2, SetOfTwo
<1>4. Keys({SetEnv("profile", p), SetEnv("tracking", p)}) \subseteq {"profile", "tracking"}
  BY DEF Keys, SetEnv
<1>5. YmlKeys({SetEnv("profile", p), SetEnv("tracking", p)}) = {}
  BY DEF YmlKeys, SetEnv
<1> QED
  BY <1>3, <1>4, <1>5

\* What binding to an app with the resources r adopts.
Adopted(r, found, host) ==
  /\ found => r.lakebase # Empty /\ r.lakebase.target # Empty
  /\ appExperiment' = r.experiment
  /\ config' = IF r.lakebase = Empty THEN Empty
               ELSE [kind |-> r.lakebase.kind, target |-> r.lakebase.target,
                     named |-> r.lakebase.target # Empty]
  /\ history' = [history EXCEPT
                   !.foreign = r.lakebase # Empty /\ r.lakebase.kind = "autoscaling" /\ ~found]
  /\ ToSet(pending') = {SetYml([app |-> TRUE])}
       \cup (IF r.lakebase # Empty THEN ToSet(AdoptLakebase(r.lakebase, found, host)) ELSE {})

LEMMA BindAppWrites ==
    ASSUME BindApp
    PROVE  /\ pending' \in Seq(AnyWrite)
           /\ \/ /\ ToSet(pending') = {SetYml([app |-> TRUE])}
                 /\ UNCHANGED <<config, appExperiment, history>>
              \/ \E r \in AppResources, found \in BOOLEAN, host \in BOOLEAN : Adopted(r, found, host)
<1>1. CASE /\ pending' = << SetYml([app |-> TRUE]) >>
           /\ UNCHANGED <<config, appExperiment, history>>
  <2>1. SetYml([app |-> TRUE]) \in AnyWrite
    BY DEF SetYml, AnyWrite, YmlWrite, Entries
  <2> QED
    BY <1>1, <2>1, SetOfOne
<1>2. ASSUME NEW r \in AppResources, NEW found \in BOOLEAN, NEW host \in BOOLEAN,
             found => r.lakebase # Empty /\ r.lakebase.target # Empty,
             appExperiment' = r.experiment,
             config' = IF r.lakebase = Empty THEN Empty
                       ELSE [kind |-> r.lakebase.kind, target |-> r.lakebase.target,
                             named |-> r.lakebase.target # Empty],
             pending' = << SetYml([app |-> TRUE]) >>
                        \o When(r.lakebase # Empty, AdoptLakebase(r.lakebase, found, host)),
             history' = [history EXCEPT
                !.foreign = r.lakebase # Empty /\ r.lakebase.kind = "autoscaling" /\ ~found]
      PROVE  pending' \in Seq(AnyWrite) /\ Adopted(r, found, host)
  <2>1. r.lakebase \in Resource \cup {Empty}
    BY QuickstartAssumption
  <2>2. /\ pending' \in Seq(AnyWrite)
        /\ ToSet(pending') = {SetYml([app |-> TRUE])}
             \cup (IF r.lakebase # Empty THEN ToSet(AdoptLakebase(r.lakebase, found, host)) ELSE {})
    BY <1>2, <2>1, BindWrites
  <2> QED
    BY <1>2, <2>2 DEF Adopted
<1> QED
  BY <1>1, <1>2 DEF BindApp, Goes

LEMMA ExperimentStepWrites ==
    ASSUME SetupShape, ExperimentStep
    PROVE  /\ pending = << >> /\ env' = env /\ yml' = yml
           /\ pending' \in Seq(AnyWrite)
           /\ \/ stage' = "experiment" /\ ToSet(pending') \subseteq {SetEnv("experiment", yml.experiment)}
              \/ /\ stage' = "lakebase"
                 /\ \E x \in Experiments : pending' = SaveExperiment(x)
<1>1. CASE SeedExperiment /\ appExperiment # Empty
  <2>1. appExperiment \in Experiments
    BY <1>1, EmptyIsNothing DEF SetupShape
  <2> QED
    BY <1>1, <2>1, ExperimentWrites DEF SeedExperiment, Goes, Reached, files
<1>2. CASE SeedExperiment /\ appExperiment = Empty
  <2> DEFINE cond == env.experiment = Empty /\ yml.experiment \notin {Empty, Absent}
             a == << SetEnv("experiment", yml.experiment) >>
  <2>1. cond => a \in Seq(AnyWrite) /\ ToSet(a) = {SetEnv("experiment", yml.experiment)}
    <3>1. cond => SetEnv("experiment", yml.experiment) \in AnyWrite
      BY DEF SetEnv, AnyWrite, EnvWrite, SetupShape, Yml
    <3> QED
      BY <3>1, SetOfOne
  <2>2. cond \in BOOLEAN
    OBVIOUS
  <2>3. pending' = When(cond, a) /\ stage' = "experiment"
    BY <1>2 DEF SeedExperiment, Goes
  <2> HIDE DEF cond, a
  <2>4. When(cond, a) \in Seq(AnyWrite) /\ ToSet(When(cond, a)) = IF cond THEN ToSet(a) ELSE {}
    BY <2>1, <2>2, SetOfWhen
  <2> QED
    BY <1>2, <2>1, <2>3, <2>4 DEF SeedExperiment, Reached, files
<1>3. CASE ReuseExperiment
  <2>1. env.experiment \in Experiments
    BY <1>3 DEF ReuseExperiment, SetupShape
  <2> QED
    BY <1>3, <2>1, ExperimentWrites DEF ReuseExperiment, Goes, Reached, files
<1>4. CASE \E x \in Experiments : CreateExperiment(x)
  BY <1>4, ExperimentWrites DEF CreateExperiment, Goes, Reached, files
<1> QED
  BY <1>1, <1>2, <1>3, <1>4 DEF ExperimentStep

LEMMA SaveStepWrites ==
    ASSUME SetupShape, SetUpLakebase \/ CreateBranch
    PROVE  /\ config' \in Config /\ config'.target # Empty
           /\ \E host \in BOOLEAN : pending' = SaveLakebase(config', host)
<1>1. CASE SetUpLakebase
  BY <1>1 DEF SetUpLakebase, Goes
<1>2. CASE CreateBranch
  BY <1>2 DEF CreateBranch, Goes, Reached, SetupShape, locals
<1> QED
  BY <1>1, <1>2

LEMMA UpdateYmlWrites ==
    ASSUME SetupShape, UpdateYml
    PROVE  /\ pending' \in Seq(AnyWrite) /\ UNCHANGED locals
           /\ ToSet(pending') = IF config = Empty THEN {} ELSE {SetYml(LakebaseEntries(config))}
<1> DEFINE cond == config # Empty
           a == <<SetYml(LakebaseEntries(config))>>
<1>1. cond => a \in Seq(AnyWrite) /\ ToSet(a) = {SetYml(LakebaseEntries(config))}
  <2> SUFFICES ASSUME config # Empty PROVE SetYml(LakebaseEntries(config)) \in AnyWrite
    BY SetOfOne
  <2>1. config \in Config /\ config.kind \in {"autoscaling", "provisioned"}
    BY DEF SetupShape, Config
  <2> DEFINE r == [kind |-> config.kind, target |-> IF config.named THEN config.target ELSE Empty]
  <2>2. r \in Resource /\ r.kind = config.kind
    BY <2>1 DEF Resource, Config
  <2>3. r # Absent
    BY <2>2, EmptyIsNothing
  <2>4. LakebaseEntries(config).resource \in {Absent, r}
    BY DEF LakebaseEntries
  <2>5. LakebaseEntries(config).variable \in {Absent, config.kind}
    BY DEF LakebaseEntries
  <2>6. LakebaseEntries(config) \in [variable : {"autoscaling", "provisioned", Absent},
                                     resource : Resource \cup {Absent}]
    <3>1. LakebaseEntries(config) = [variable |-> LakebaseEntries(config).variable,
                                     resource |-> LakebaseEntries(config).resource]
      BY DEF LakebaseEntries
    <3> HIDE DEF r
    <3> QED
      BY <2>1, <2>2, <2>4, <2>5, <3>1
  <2>7. LakebaseEntries(config).variable # Absent =>
          LakebaseEntries(config).resource = r /\ LakebaseEntries(config).variable = config.kind
    BY <2>1 DEF LakebaseEntries, Adds, SetupShape, VariableHasItsResource
  <2>8. LakebaseEntries(config) \in Entries
    <3> HIDE DEF r
    <3> QED
      BY <2>2, <2>3, <2>6, <2>7 DEF Entries
  <2> QED
    BY <2>8 DEF SetYml, AnyWrite, YmlWrite
<1>2. cond \in BOOLEAN /\ pending' = When(cond, a)
  BY DEF UpdateYml, Goes
<1> HIDE DEF a
<1>3. When(cond, a) \in Seq(AnyWrite) /\ ToSet(When(cond, a)) = IF cond THEN ToSet(a) ELSE {}
  BY <1>1, <1>2, SetOfWhen
<1> QED
  BY <1>1, <1>2, <1>3 DEF UpdateYml

LEMMA StageWrites ==
    ASSUME SetupShape, StageStep
    PROVE  /\ pending = << >> /\ env' = env /\ yml' = yml /\ pending' \in Seq(AnyWrite)
           /\ \/ /\ Authenticate
                 /\ Keys(ToSet(pending')) \subseteq {"profile", "tracking"}
                 /\ YmlKeys(ToSet(pending')) = {}
              \/ /\ BindApp
                 /\ Keys(ToSet(pending')) \subseteq LakebaseKeys
                 /\ YmlKeys(ToSet(pending')) \subseteq {"app"}
              \/ /\ ExperimentStep
                 /\ Keys(ToSet(pending')) \subseteq {"experiment"}
                 /\ YmlKeys(ToSet(pending')) \subseteq {"experiment"}
              \/ /\ SetUpLakebase \/ CreateBranch
                 /\ Keys(ToSet(pending')) \subseteq LakebaseKeys
                 /\ YmlKeys(ToSet(pending')) = {}
              \/ /\ UpdateYml
                 /\ Keys(ToSet(pending')) = {}
                 /\ YmlKeys(ToSet(pending')) \subseteq {"variable", "resource"}
              \/ QuietStep /\ pending' = << >>
<1>1. pending = << >> /\ env' = env /\ yml' = yml
  BY DEF StageStep, Authenticate, BindApp, BindNothing, SeedExperiment, ReuseExperiment, CreateExperiment,
         KeepAppConfig, ReuseLakebase, SetUpLakebase, SkipLakebase, CreateProject, CreateBranch,
         CreatedUnresolved, UpdateYml, Reached, files
<1>2. CASE Authenticate
  BY <1>1, <1>2, AuthenticateWrites
<1>3. CASE BindApp
  <2>1. SetYml([app |-> TRUE]).file = "yml" /\ DOMAIN SetYml([app |-> TRUE]).entries = {"app"}
    BY DEF SetYml
  <2>2. CASE ToSet(pending') = {SetYml([app |-> TRUE])}
    BY <1>1, <1>3, <2>1, <2>2, BindAppWrites DEF Keys, YmlKeys
  <2>3. ASSUME NEW r \in AppResources, NEW found \in BOOLEAN, NEW host \in BOOLEAN,
               Adopted(r, found, host)
        PROVE  /\ Keys(ToSet(pending')) \subseteq LakebaseKeys
               /\ YmlKeys(ToSet(pending')) \subseteq {"app"}
    <3>1. r.lakebase \in Resource \cup {Empty}
      BY QuickstartAssumption
    <3> DEFINE A == IF r.lakebase # Empty THEN ToSet(AdoptLakebase(r.lakebase, found, host)) ELSE {}
    <3>2. \A w \in A : w.key \in LakebaseKeys /\ w.file = "env"
      <4>1. CASE r.lakebase = Empty
        BY <4>1
      <4>2. CASE r.lakebase # Empty
        <5>1. r.lakebase \in Resource /\ (found => r.lakebase.target # Empty)
          BY <2>3, <3>1, <4>2 DEF Adopted
        <5> DEFINE lake == r.lakebase
        <5> HIDE DEF lake
        <5>2. lake \in Resource /\ (found => lake.target # Empty)
          BY <5>1 DEF lake
        <5>3. \A w \in ToSet(AdoptLakebase(lake, found, host)) : w.file = "env" /\ w.key \in LakebaseKeys
          <6>1. InLocal(ToSet(AdoptLakebase(lake, found, host)))
            BY <5>2, AdoptWrites
          <6> QED
            BY <6>1 DEF InLocal, LakebaseKeys
        <5> QED
          BY <4>2, <5>3 DEF lake
      <4> QED
        BY <4>1, <4>2
    <3>3. ToSet(pending') = {SetYml([app |-> TRUE])} \cup A
      BY <2>3 DEF Adopted
    <3> HIDE DEF A
    <3> QED
      BY <2>1, <3>2, <3>3 DEF Keys, YmlKeys
  <2> QED
    BY <1>1, <1>3, <2>2, <2>3, BindAppWrites
<1>4. CASE ExperimentStep
  <2>1. CASE ToSet(pending') \subseteq {SetEnv("experiment", yml.experiment)}
    BY <1>1, <1>4, <2>1, ExperimentStepWrites DEF Keys, YmlKeys, SetEnv
  <2>2. ASSUME NEW x \in Experiments, pending' = SaveExperiment(x)
        PROVE  /\ Keys(ToSet(pending')) \subseteq {"experiment"}
               /\ YmlKeys(ToSet(pending')) \subseteq {"experiment"}
    <3>1. ToSet(pending') \subseteq {SetEnv("experiment", x), SetYml([experiment |-> x])}
      BY <2>2, ExperimentWrites
    <3> QED
      BY <3>1 DEF Keys, YmlKeys, SetEnv, SetYml
  <2> QED
    BY <1>1, <1>4, <2>1, <2>2, ExperimentStepWrites
<1>5. CASE SetUpLakebase \/ CreateBranch
  <2>1. PICK host \in BOOLEAN : pending' = SaveLakebase(config', host)
    BY <1>5, SaveStepWrites
  <2>2. config' \in Config /\ config'.target # Empty
    BY <1>5, SaveStepWrites
  <2>3. /\ pending' \in Seq(AnyWrite)
        /\ \A w \in ToSet(pending') : w.key \in LakebaseKeys /\ w.file = "env"
    <3>1. pending' \in Seq(AnyWrite) /\ InLocal(ToSet(pending'))
      BY <2>1, <2>2, SaveWrites
    <3> QED
      BY <3>1 DEF InLocal, LakebaseKeys
  <2> QED
    BY <1>1, <1>5, <2>3 DEF Keys, YmlKeys
<1>6. CASE UpdateYml
  <2>1. ToSet(pending') \subseteq {SetYml(LakebaseEntries(config))}
    BY <1>6, UpdateYmlWrites
  <2>2. DOMAIN LakebaseEntries(config) = {"variable", "resource"}
    BY DEF LakebaseEntries
  <2> QED
    BY <1>1, <1>6, <2>1, <2>2, UpdateYmlWrites DEF Keys, YmlKeys, SetYml
<1>7. CASE QuietStep
  <2>1. pending' = << >>
    BY <1>7 DEF QuietStep, BindNothing, KeepAppConfig, ReuseLakebase, SkipLakebase, CreateProject,
           CreatedUnresolved, Goes, Stops
  <2> QED
    BY <1>1, <1>7, <2>1
<1> QED
  BY <1>2, <1>3, <1>4, <1>5, <1>6, <1>7 DEF StageStep, ExperimentStep, QuietStep

-----------------------------------------------------------------------------
(* Setup: what a completed run leaves *)

\* A run that goes past the authentication will have one profile in .env.
ProfileFollows ==
  stage \notin {"idle", "auth"} =>
    \E p \in Profiles : WillBe("profile", p) /\ WillBe("tracking", p)

\* Past the experiment, both files will name it.
ExperimentFollows ==
  stage \in {"lakebase", "branch", "yml", "done"} =>
    \E x \in Experiments :
      WillBe("experiment", x) /\ \E y \in {x, Absent} : YmlWillBe("experiment", y)

\* The Lakebase that get_existing_lakebase_config will read.
LocalIs(c) == IF c.kind = "autoscaling" THEN WillBe("endpoint", c.target)
              ELSE WillBe("instance", c.target) /\ WillBe("endpoint", Empty)

LakebaseFollows ==
  stage # "branch" /\ config # Empty /\ config.named /\ ~history.foreign => LocalIs(config)

ResourceFollows ==
  stage = "done" /\ config # Empty =>
    \E r \in Resource \cup {Absent} :
      /\ YmlWillBe("resource", r)
      /\ r # Absent /\ r.target # Empty => config.named /\ r.target = config.target

\* While no write was lost, a Lakebase in .env will come with a user and a database.
User == WillBe("pguser", TRUE) /\ WillBe("pgdatabase", TRUE)
NoLakebase == WillBe("endpoint", Empty) /\ WillBe("instance", Empty)
UserFollows ==
  ~history.broken => User \/ (NoLakebase /\ (config = Empty \/ stage = "branch"))

SetupInv == /\ SetupShape /\ ProfileFollows /\ ExperimentFollows
            /\ LakebaseFollows /\ ResourceFollows /\ UserFollows

LEMMA Kept ==
    ASSUME pending = << >>, env' = env, NEW k, k \notin Keys(ToSet(pending')), NEW v, WillBe(k, v)
    PROVE  WillBe(k, v)'
<1>1. EnvWrites(k) = {}
  BY DEF EnvWrites, ToSet
<1>2. EnvWrites(k)' = {}
  BY DEF EnvWrites, Keys
<1> QED
  BY <1>1, <1>2 DEF WillBe

LEMMA YmlKept ==
    ASSUME pending = << >>, yml' = yml, NEW k, k \notin YmlKeys(ToSet(pending')), NEW v, YmlWillBe(k, v)
    PROVE  YmlWillBe(k, v)'
<1>1. YmlWrites(k) = {}
  BY DEF YmlWrites, ToSet
<1>2. YmlWrites(k)' = {}
  BY DEF YmlWrites, YmlKeys
<1> QED
  BY <1>1, <1>2 DEF YmlWillBe

LEMMA IsSet ==
    ASSUME NEW k, NEW v,
           \E w \in ToSet(pending') : w.file = "env" /\ w.key = k,
           \A w \in ToSet(pending') : w.file = "env" /\ w.key = k => w.value = v
    PROVE  WillBe(k, v)'
  BY DEF WillBe, EnvWrites

\* The kinds of steps beside those of the stages and the writes.
LEMMA SetupSteps ==
    ASSUME [SetupNext]_setupVars
    PROVE  \/ StageStep
           \/ Write /\ UNCHANGED <<experiments, stage, args, config, appExperiment, history>>
           \/ /\ Run /\ stage = "idle" /\ stage' = "auth" /\ pending' = << >> /\ args' \in Arguments
              /\ history' = [history EXCEPT !.foreign = FALSE]
              /\ UNCHANGED <<env, yml, experiments, config, appExperiment>>
           \/ /\ stage' = "idle" /\ pending' = << >>
              /\ args' = Empty /\ config' = Empty /\ appExperiment' = Empty
              /\ history' = [history EXCEPT !.broken = @ \/ pending # << >>] \/ (pending = << >> /\ history' = history)
              /\ UNCHANGED <<env, yml, experiments>>
           \/ /\ UNCHANGED <<env, yml, stage, args, config, appExperiment, pending, history>>
              /\ experiments' \subseteq experiments
<1>1. CASE Write
  BY <1>1 DEF Write, workspace, locals
<1>2. CASE Run
  BY <1>2 DEF Run, Goes, files, workspace
<1>3. CASE Interrupted
  BY <1>3 DEF Interrupted, Stops, files, workspace
<1>4. CASE Finishes
  BY <1>4 DEF Finishes, Stops, Reached, files, workspace
<1>5. CASE DeleteExperiment
  BY <1>5 DEF DeleteExperiment, files, locals
<1>6. CASE UNCHANGED setupVars
  BY <1>6 DEF setupVars, files, workspace, locals
<1> QED
  BY <1>1, <1>2, <1>3, <1>4, <1>5, <1>6 DEF SetupNext

LEMMA ConfigAfterStage ==
    ASSUME SetupShape, StageStep
    PROVE  /\ config' \in Config \cup {Empty}
           /\ config' # Empty /\ config'.named => config'.target # Empty
           /\ stage' \in Stages
           /\ stage' \in {"idle", "auth", "bind"} => config' = Empty
           /\ stage' = "branch" => config' # Empty /\ config'.kind = "autoscaling" /\ config'.named
           /\ stage' = "idle" => pending' = << >>
           /\ args' \in Arguments \cup {Empty} /\ appExperiment' \in {0, Empty}
           /\ experiments' \subseteq Experiments
           /\ history' \in [foreign : BOOLEAN, broken : BOOLEAN]
<1>1. CASE BindApp
  <2>1. /\ stage' = "seed" /\ args' = args /\ experiments' = experiments
    BY <1>1 DEF BindApp, Goes, workspace
  <2>2. config = Empty
    BY <1>1 DEF BindApp, Reached, SetupShape
  <2>3. CASE UNCHANGED <<config, appExperiment, history>>
    BY <2>1, <2>2, <2>3 DEF SetupShape, Stages
  <2>4. ASSUME NEW r \in AppResources, NEW found \in BOOLEAN, NEW host \in BOOLEAN,
               Adopted(r, found, host)
        PROVE  /\ config' \in Config \cup {Empty}
               /\ config' # Empty /\ config'.named => config'.target # Empty
               /\ appExperiment' \in {0, Empty}
               /\ history' \in [foreign : BOOLEAN, broken : BOOLEAN]
    <3>1. r.lakebase \in Resource \cup {Empty} /\ r.experiment \in {0, Empty}
      BY QuickstartAssumption
    <3>2. config' \in Config \cup {Empty} /\ (config' # Empty /\ config'.named => config'.target # Empty)
      BY <2>4, <3>1, EmptyIsNothing DEF Adopted, Resource, Config, Hosts
    <3>3. history' \in [foreign : BOOLEAN, broken : BOOLEAN]
      BY <2>4 DEF Adopted, SetupShape
    <3> QED
      BY <2>4, <3>1, <3>2, <3>3 DEF Adopted
  <2> QED
    BY <1>1, <2>1, <2>3, <2>4, BindAppWrites DEF SetupShape, Stages
<1>2. CASE ReuseLakebase
  <2>1. Existing \in Config /\ (Existing.named => Existing.target # Empty)
    BY <1>2, EmptyIsNothing DEF ReuseLakebase, Existing, Config, SetupShape, Env, Hosts
  <2> QED
    BY <1>2, <2>1 DEF ReuseLakebase, Goes, SetupShape, Stages, workspace
<1>3. CASE SetUpLakebase
  BY <1>3 DEF SetUpLakebase, Goes, SetupShape, Stages, workspace
<1>4. CASE \E e \in PgEndpoints : CreateProject(e)
  <2>1. PICK e \in PgEndpoints : CreateProject(e)
    BY <1>4
  <2>2. config' = [kind |-> "autoscaling", target |-> e, named |-> TRUE]
    BY <2>1 DEF CreateProject
  <2>3. config' \in Config /\ config'.target # Empty
    BY <2>2, EmptyIsNothing DEF Config, Hosts
  <2>4. config' # Empty
    BY <2>3, EmptyIsNothing
  <2> QED
    BY <2>1, <2>2, <2>3, <2>4 DEF CreateProject, Goes, SetupShape, Stages
<1>5. CASE CreateBranch
  BY <1>5 DEF CreateBranch, Goes, Reached, SetupShape, Stages, locals
<1>6. CASE CreatedUnresolved
  BY <1>6 DEF CreatedUnresolved, Stops, SetupShape, Stages
<1>7. CASE \E x \in Experiments : CreateExperiment(x)
  BY <1>7 DEF CreateExperiment, Goes, Reached, SetupShape, Stages, locals
<1>8. CASE \/ Authenticate \/ BindNothing \/ SeedExperiment \/ ReuseExperiment
           \/ KeepAppConfig \/ SkipLakebase \/ UpdateYml
  <2>1. UNCHANGED <<experiments, args, config, appExperiment, history>>
    BY <1>8 DEF Authenticate, BindNothing, SeedExperiment, ReuseExperiment, KeepAppConfig, SkipLakebase,
           UpdateYml, workspace, locals
  <2>2. stage' \in {"bind", "seed", "experiment", "lakebase", "yml", "done"}
    BY <1>8 DEF Authenticate, BindNothing, SeedExperiment, ReuseExperiment, KeepAppConfig, SkipLakebase,
           UpdateYml, Goes
  <2>3. stage' = "bind" => stage = "auth"
    BY <1>8 DEF Authenticate, BindNothing, SeedExperiment, ReuseExperiment, KeepAppConfig, SkipLakebase,
           UpdateYml, Goes, Reached
  <2> QED
    BY <2>1, <2>2, <2>3 DEF SetupShape, Stages
<1> QED
  BY <1>1, <1>2, <1>3, <1>4, <1>5, <1>6, <1>7, <1>8 DEF StageStep

LEMMA SetupShapePreserved ==
    ASSUME SetupShape, [SetupNext]_setupVars
    PROVE  SetupShape'
<1>1. CASE StageStep
  <2>1. env' = env /\ yml' = yml /\ pending' \in Seq(AnyWrite)
    BY <1>1, StageWrites
  <2>2. VariableHasItsResource'
    BY <2>1 DEF SetupShape, VariableHasItsResource
  <2> QED
    BY <1>1, <2>1, <2>2, ConfigAfterStage DEF SetupShape
<1>2. CASE Write /\ UNCHANGED <<experiments, stage, args, config, appExperiment, history>>
  <2>1. pending' \in Seq(AnyWrite) /\ stage # "idle"
    BY <1>2, SetOfTail DEF Write, SetupShape
  <2> QED
    BY <1>2, <2>1, FilesAfterWrite DEF SetupShape
<1>3. CASE ~StageStep /\ ~(Write /\ UNCHANGED <<experiments, stage, args, config, appExperiment, history>>)
  <2>1. env' = env /\ yml' = yml /\ << >> \in Seq(AnyWrite)
    BY <1>3, SetupSteps
  <2>2. VariableHasItsResource'
    BY <2>1 DEF SetupShape, VariableHasItsResource
  <2> QED
    BY <1>3, <2>1, <2>2, SetupSteps DEF SetupShape, Stages
<1> QED
  BY <1>1, <1>2, <1>3, SetupSteps

LEMMA ProfileFollowsPreserved ==
    ASSUME SetupShape, ProfileFollows, [SetupNext]_setupVars
    PROVE  ProfileFollows'
<1>1. CASE StageStep
  <2>1. CASE Authenticate
    <3>1. PICK p \in Profiles : ToSet(pending') = {SetEnv("profile", p), SetEnv("tracking", p)}
      BY <2>1, AuthenticateWrites
    <3>2. WillBe("profile", p)' /\ WillBe("tracking", p)'
      BY <3>1, IsSet DEF SetEnv
    <3> QED
      BY <3>2 DEF ProfileFollows
  <2>2. CASE ~Authenticate /\ stage \notin {"idle", "auth"}
    <3>1. PICK p \in Profiles : WillBe("profile", p) /\ WillBe("tracking", p)
      BY <2>2 DEF ProfileFollows
    <3>2. "profile" \notin Keys(ToSet(pending')) /\ "tracking" \notin Keys(ToSet(pending'))
      <4>1. Keys({}) = {} /\ ToSet(<< >>) = {}
        BY DEF Keys, ToSet
      <4> QED
        BY <1>1, <2>2, <4>1, StageWrites DEF LakebaseKeys
    <3>3. WillBe("profile", p)' /\ WillBe("tracking", p)'
      BY <1>1, <3>1, <3>2, Kept, StageWrites
    <3> QED
      BY <3>3 DEF ProfileFollows
  <2>3. stage \in {"idle", "auth"} => Authenticate
    BY <1>1 DEF StageStep, BindApp, BindNothing, SeedExperiment, ReuseExperiment, CreateExperiment,
           KeepAppConfig, ReuseLakebase, SetUpLakebase, SkipLakebase, CreateProject, CreateBranch,
           CreatedUnresolved, UpdateYml, Reached
  <2> QED
    BY <2>1, <2>2, <2>3
<1>2. CASE Write /\ stage' = stage
  <2>1. "profile" \in DOMAIN env /\ "tracking" \in DOMAIN env
    BY DEF SetupShape, Env
  <2> QED
    BY <1>2, <2>1, WriteSettles DEF ProfileFollows
<1>3. CASE stage' \in {"idle", "auth"}
  BY <1>3 DEF ProfileFollows
<1>4. CASE UNCHANGED <<env, stage, pending>>
  BY <1>4 DEF ProfileFollows, WillBe, EnvWrites
<1> QED
  BY <1>1, <1>2, <1>3, <1>4, SetupSteps

LEMMA ExperimentFollowsPreserved ==
    ASSUME SetupShape, ExperimentFollows, [SetupNext]_setupVars
    PROVE  ExperimentFollows'
<1>1. CASE ExperimentStep
  <2>1. CASE stage' = "lakebase"
    <3>1. PICK x \in Experiments : pending' = SaveExperiment(x)
      BY <1>1, <2>1, ExperimentStepWrites
    <3>2. /\ pending = << >> /\ yml' = yml
          /\ SetEnv("experiment", x) \in ToSet(pending')
          /\ ToSet(pending') \subseteq {SetEnv("experiment", x), SetYml([experiment |-> x])}
          /\ yml.experiment # Absent => SetYml([experiment |-> x]) \in ToSet(pending')
      BY <1>1, <3>1, ExperimentWrites, ExperimentStepWrites
    <3>3. WillBe("experiment", x)'
      BY <3>2, IsSet DEF SetEnv, SetYml
    <3>4. \A w \in YmlWrites("experiment")' : w.entries["experiment"] = x
      BY <3>2 DEF YmlWrites, SetEnv, SetYml
    <3>5. CASE yml.experiment # Absent
      <4>1. YmlWrites("experiment")' # {}
        BY <3>2, <3>5 DEF YmlWrites, SetYml
      <4>2. YmlWillBe("experiment", x)'
        BY <3>4, <4>1 DEF YmlWillBe
      <4> QED
        BY <3>3, <4>2 DEF ExperimentFollows
    <3>6. CASE yml.experiment = Absent
      <4>1. YmlWillBe("experiment", x)' \/ YmlWillBe("experiment", Absent)'
        BY <3>2, <3>4, <3>6 DEF YmlWillBe
      <4> QED
        BY <3>3, <4>1 DEF ExperimentFollows
    <3> QED
      BY <3>5, <3>6
  <2>2. CASE stage' = "experiment"
    BY <2>2 DEF ExperimentFollows
  <2> QED
    BY <1>1, <2>1, <2>2, ExperimentStepWrites
<1>2. CASE StageStep /\ ~ExperimentStep
  <2> SUFFICES ASSUME stage' \in {"lakebase", "branch", "yml", "done"} PROVE ExperimentFollows'
    BY DEF ExperimentFollows
  <2>1. stage \in {"lakebase", "branch", "yml", "done"}
    BY <1>2 DEF StageStep, ExperimentStep, Authenticate, BindApp, BindNothing, KeepAppConfig,
           ReuseLakebase, SetUpLakebase, SkipLakebase, CreateProject, CreateBranch, CreatedUnresolved,
           UpdateYml, Reached, Goes, Stops
  <2>2. PICK x \in Experiments :
          WillBe("experiment", x) /\ \E y \in {x, Absent} : YmlWillBe("experiment", y)
    BY <2>1 DEF ExperimentFollows
  <2>3. PICK y \in {x, Absent} : YmlWillBe("experiment", y)
    BY <2>2
  <2>4. "experiment" \notin Keys(ToSet(pending')) /\ "experiment" \notin YmlKeys(ToSet(pending'))
    <3>1. Keys({}) = {} /\ YmlKeys({}) = {} /\ ToSet(<< >>) = {}
      BY DEF Keys, YmlKeys, ToSet
    <3> QED
      BY <1>2, <3>1, StageWrites DEF LakebaseKeys
  <2>5. WillBe("experiment", x)' /\ YmlWillBe("experiment", y)'
    BY <1>2, <2>2, <2>3, <2>4, Kept, YmlKept, StageWrites
  <2> QED
    BY <2>5 DEF ExperimentFollows
<1>3. CASE Write /\ stage' = stage
  <2> SUFFICES ASSUME stage \in {"lakebase", "branch", "yml", "done"} PROVE ExperimentFollows'
    BY <1>3 DEF ExperimentFollows
  <2>1. PICK x \in Experiments :
          WillBe("experiment", x) /\ \E y \in {x, Absent} : YmlWillBe("experiment", y)
    BY DEF ExperimentFollows
  <2>2. PICK y \in {x, Absent} : YmlWillBe("experiment", y)
    BY <2>1
  <2>3. "experiment" \in DOMAIN env /\ "experiment" \in DOMAIN yml
    BY DEF SetupShape, Env, Yml
  <2>4. WillBe("experiment", x)' /\ YmlWillBe("experiment", y)'
    BY <1>3, <2>1, <2>2, <2>3, WriteSettles, YmlWriteSettles
  <2> QED
    BY <2>4 DEF ExperimentFollows
<1>4. CASE stage' \in {"idle", "auth"}
  BY <1>4 DEF ExperimentFollows
<1>5. CASE UNCHANGED <<env, yml, stage, pending>>
  BY <1>5 DEF ExperimentFollows, WillBe, EnvWrites, YmlWillBe, YmlWrites
<1> QED
  BY <1>1, <1>2, <1>3, <1>4, <1>5, SetupSteps

LEMMA AtRest ==
    ASSUME pending = << >>, NEW k, NEW v
    PROVE  (WillBe(k, v) <=> env[k] = v) /\ (YmlWillBe(k, v) <=> yml[k] = v)
<1>1. EnvWrites(k) = {} /\ YmlWrites(k) = {}
  BY DEF EnvWrites, YmlWrites, ToSet
<1> QED
  BY <1>1 DEF WillBe, YmlWillBe

\* A step without writes on either side keeps what .env will hold.
LEMMA QuietlyKept ==
    ASSUME pending = << >>, pending' = << >>, env' = env, NEW k, NEW v, WillBe(k, v)
    PROVE  WillBe(k, v)'
  BY DEF WillBe, EnvWrites

\* The stages that leave the configuration and what .env says of it alone.
LEMMA OtherStages ==
    ASSUME SetupShape, StageStep, ~BindApp, ~ReuseLakebase, ~SetUpLakebase, ~CreateBranch,
           ~CreatedUnresolved, ~\E e \in PgEndpoints : CreateProject(e)
    PROVE  /\ config' = config /\ history' = history /\ stage # "branch" /\ stage' # "branch"
           /\ \A k \in LakebaseKeys : \A v : WillBe(k, v) => WillBe(k, v)'
<1>1. config' = config /\ history' = history /\ stage # "branch" /\ stage' # "branch"
  BY DEF StageStep, Authenticate, BindNothing, SeedExperiment, ReuseExperiment, CreateExperiment,
         KeepAppConfig, SkipLakebase, UpdateYml, Reached, Goes, locals
<1>2. Keys(ToSet(pending')) \cap LakebaseKeys = {}
  <2>1. Keys({}) = {} /\ ToSet(<< >>) = {}
    BY DEF Keys, ToSet
  <2> QED
    BY <2>1, StageWrites DEF LakebaseKeys
<1>3. pending = << >> /\ env' = env
  BY StageWrites
<1>4. ASSUME NEW k \in LakebaseKeys, NEW v, WillBe(k, v) PROVE WillBe(k, v)'
  <2>1. k \notin Keys(ToSet(pending'))
    BY <1>2, <1>4
  <2> QED
    BY <1>3, <1>4, <2>1, Kept
<1> QED
  BY <1>1, <1>4

LEMMA LocalIsWritten ==
    ASSUME NEW c \in Config, NEW W, ToSet(pending') = W \cup {SetYml([app |-> TRUE])} \/ ToSet(pending') = W,
           InLocal(W), Names(W, c), \E w \in W : w.key = "endpoint"
    PROVE  /\ c.kind = "autoscaling" => WillBe("endpoint", c.target)'
           /\ c.kind = "provisioned" => WillBe("instance", c.target)' /\ WillBe("endpoint", Empty)'
<1>1. \A w \in ToSet(pending') : w.file = "env" => w \in W
  BY DEF SetYml
<1>2. W \subseteq ToSet(pending') /\ \A w \in W : w.file = "env"
  BY DEF InLocal
<1>3. WillBe("endpoint", IF c.kind = "provisioned" THEN Empty ELSE c.target)'
  BY <1>1, <1>2, IsSet DEF Names
<1>4. WillBe("instance", IF c.kind = "provisioned" THEN c.target ELSE Empty)'
  BY <1>1, <1>2, IsSet DEF Names
<1> QED
  BY <1>3, <1>4

LEMMA UserIsWritten ==
    ASSUME pending' \in Seq(AnyWrite),
           SetEnv("pguser", TRUE) \in ToSet(pending'), SetEnv("pgdatabase", TRUE) \in ToSet(pending')
    PROVE  User'
<1>1. ToSet(pending') \subseteq AnyWrite
  BY DEF ToSet
<1>2. \A w \in AnyWrite : w.file = "env" /\ w.key \in {"pguser", "pgdatabase"} => w.value = TRUE
  BY DEF AnyWrite, EnvWrite, YmlWrite
<1>3. /\ SetEnv("pguser", TRUE).file = "env" /\ SetEnv("pguser", TRUE).key = "pguser"
      /\ SetEnv("pgdatabase", TRUE).file = "env" /\ SetEnv("pgdatabase", TRUE).key = "pgdatabase"
  BY DEF SetEnv
<1>4. WillBe("pguser", TRUE)' /\ WillBe("pgdatabase", TRUE)'
  BY <1>1, <1>2, <1>3, IsSet
<1> QED
  BY <1>4 DEF User

LEMMA LakebaseFollowsPreserved ==
    ASSUME SetupShape, LakebaseFollows, [SetupNext]_setupVars
    PROVE  LakebaseFollows'
<1> SUFFICES ASSUME stage' # "branch", config' # Empty, config'.named, ~history'.foreign
             PROVE  LocalIs(config)'
  BY DEF LakebaseFollows
<1>c. PICK c : c = config'
  OBVIOUS
<1>1. c \in Config /\ c.kind \in {"autoscaling", "provisioned"} /\ c.target # Empty
  <2>1. SetupShape'
    BY SetupShapePreserved
  <2> QED
    BY <1>c, <2>1 DEF SetupShape, Config
<1> SUFFICES /\ c.kind = "autoscaling" => WillBe("endpoint", c.target)'
             /\ c.kind = "provisioned" => WillBe("instance", c.target)' /\ WillBe("endpoint", Empty)'
  BY <1>c, <1>1 DEF LocalIs, WillBe, EnvWrites
<1>2. CASE BindApp
  <2>1. config = Empty
    BY <1>2 DEF BindApp, Reached, SetupShape
  <2>2. PICK r \in AppResources, found \in BOOLEAN, host \in BOOLEAN : Adopted(r, found, host)
    BY <1>c, <1>2, <2>1, BindAppWrites
  <2>3. PICK lake : lake = r.lakebase
    OBVIOUS
  <2> DEFINE W == ToSet(AdoptLakebase(lake, found, host))
  <2>4. lake \in Resource /\ (found => lake.target # Empty)
    BY <1>c, <2>2, <2>3, QuickstartAssumption DEF Adopted
  <2>5. /\ c.kind = lake.kind /\ c.target = lake.target
        /\ ToSet(pending') = W \cup {SetYml([app |-> TRUE])}
        /\ c.kind = "autoscaling" => found
    BY <1>c, <2>2, <2>3 DEF Adopted, SetupShape
  <2>6. lake.kind = "provisioned" \/ found
    BY <1>1, <2>5
  <2>7. InLocal(W) /\ Names(W, lake) /\ (\E w \in W : w.key = "endpoint")
    <3>1. Names(W, lake)
      BY <2>4, AdoptWrites
    <3>2. InLocal(W)
      BY <2>4, AdoptWrites
    <3>3. lake.kind = "provisioned" \/ found => \E w \in W : w.key = "endpoint"
      BY <2>4, AdoptWrites
    <3> HIDE DEF W
    <3> QED
      BY <2>6, <3>1, <3>2, <3>3
  <2>8. Names(W, c)
    BY <2>5, <2>7 DEF Names
  <2> HIDE DEF W
  <2> QED
    BY <1>1, <2>5, <2>7, <2>8, LocalIsWritten
<1>3. CASE SetUpLakebase \/ CreateBranch
  <2>1. PICK host \in BOOLEAN : pending' = SaveLakebase(c, host)
    BY <1>c, <1>3, SaveStepWrites
  <2> DEFINE W == ToSet(SaveLakebase(c, host))
  <2>2. InLocal(W) /\ Names(W, c) /\ (\E w \in W : w.key = "endpoint")
    BY <1>1, SaveWrites
  <2>3. ToSet(pending') = W
    BY <2>1
  <2> HIDE DEF W
  <2> QED
    BY <1>1, <2>2, <2>3, LocalIsWritten
<1>4. CASE ReuseLakebase
  <2>1. config' = Existing /\ pending' = << >> /\ env' = env
    BY <1>4 DEF ReuseLakebase, Goes, files
  <2>2. /\ Existing.kind = "provisioned" /\ env.endpoint = Empty
        /\ env.instance = Existing.target
    BY <1>c, <1>1, <1>4, <2>1 DEF Existing, ReuseLakebase
  <2>3. \A k, v : env'[k] = v => WillBe(k, v)'
    BY <2>1 DEF WillBe, EnvWrites, ToSet
  <2>4. env'["endpoint"] = Empty /\ env'["instance"] = c.target /\ c.kind = "provisioned"
    BY <1>c, <2>1, <2>2
  <2> QED
    BY <2>3, <2>4
<1>5. CASE CreatedUnresolved \/ \E e \in PgEndpoints : CreateProject(e)
  BY <1>c, <1>5 DEF CreatedUnresolved, CreateProject, Stops, Goes
<1>6. CASE StageStep /\ ~BindApp /\ ~ReuseLakebase /\ ~SetUpLakebase /\ ~CreateBranch
           /\ ~CreatedUnresolved /\ ~\E e \in PgEndpoints : CreateProject(e)
  <2>1. /\ config' = config /\ history' = history /\ stage # "branch"
        /\ \A k \in LakebaseKeys : \A v : WillBe(k, v) => WillBe(k, v)'
    BY <1>6, OtherStages
  <2>2. LocalIs(config)
    BY <2>1 DEF LakebaseFollows
  <2>3. /\ c.kind = "autoscaling" => WillBe("endpoint", c.target)
        /\ c.kind = "provisioned" => WillBe("instance", c.target) /\ WillBe("endpoint", Empty)
    BY <1>c, <2>1, <2>2 DEF LocalIs
  <2>4. "endpoint" \in LakebaseKeys /\ "instance" \in LakebaseKeys
    BY DEF LakebaseKeys
  <2> QED
    BY <2>1, <2>3, <2>4
<1>7. CASE Write /\ UNCHANGED <<stage, config, history>>
  <2>1. LocalIs(config) /\ "endpoint" \in DOMAIN env /\ "instance" \in DOMAIN env
    BY <1>7 DEF LakebaseFollows, SetupShape, Env
  <2>2. c = config
    BY <1>c, <1>7
  <2>3. /\ c.kind = "autoscaling" => WillBe("endpoint", c.target)
        /\ c.kind = "provisioned" => WillBe("instance", c.target) /\ WillBe("endpoint", Empty)
    BY <2>1, <2>2 DEF LocalIs
  <2>4. \A k \in DOMAIN env : \A v : WillBe(k, v) => WillBe(k, v)'
    BY <1>7, WriteSettles
  <2> QED
    BY <2>1, <2>3, <2>4
<1>8. CASE UNCHANGED <<env, stage, config, pending, history>>
  BY <1>c, <1>8 DEF LakebaseFollows, LocalIs, WillBe, EnvWrites
<1>9. CASE config' = Empty \/ (stage = "idle" /\ config' = config)
  BY <1>9 DEF SetupShape
<1> QED
  BY <1>2, <1>3, <1>4, <1>5, <1>6, <1>7, <1>8, <1>9, SetupSteps

LEMMA ResourceFollowsPreserved ==
    ASSUME SetupShape, ResourceFollows, [SetupNext]_setupVars
    PROVE  ResourceFollows'
<1>1. CASE UpdateYml
  <2> SUFFICES ASSUME config' # Empty PROVE ResourceFollows'
    BY DEF ResourceFollows
  <2>1. config' = config /\ ToSet(pending') = {SetYml(LakebaseEntries(config))}
    BY <1>1, UpdateYmlWrites DEF locals
  <2>r. PICK r : r = LakebaseEntries(config).resource
    OBVIOUS
  <2>2. /\ r \in Resource \cup {Absent}
        /\ r # Absent /\ r.target # Empty => config.named /\ r.target = config.target
    BY <2>r, <2>1 DEF LakebaseEntries, Resource, Config, SetupShape
  <2>3. YmlWillBe("resource", r)'
    <3>1. DOMAIN LakebaseEntries(config) = {"variable", "resource"}
      BY DEF LakebaseEntries
    <3>2. /\ SetYml(LakebaseEntries(config)).file = "yml"
          /\ SetYml(LakebaseEntries(config)).entries = LakebaseEntries(config)
      BY DEF SetYml
    <3>3. YmlWrites("resource")' = {SetYml(LakebaseEntries(config))}
      BY <2>1, <3>1, <3>2 DEF YmlWrites
    <3>4. LakebaseEntries(config)["resource"] = r
      BY <2>r
    <3>5. \A w \in YmlWrites("resource")' : w.entries["resource"] = r
      BY <3>2, <3>3, <3>4
    <3>6. YmlWrites("resource")' # {}
      BY <3>3
    <3> QED
      BY <3>5, <3>6 DEF YmlWillBe
  <2> QED
    BY <2>1, <2>2, <2>3 DEF ResourceFollows
<1>2. CASE Write /\ UNCHANGED <<stage, config>>
  <2> SUFFICES ASSUME stage = "done", config # Empty PROVE ResourceFollows'
    BY <1>2 DEF ResourceFollows
  <2>1. PICK r \in Resource \cup {Absent} :
          /\ YmlWillBe("resource", r)
          /\ r # Absent /\ r.target # Empty => config.named /\ r.target = config.target
    BY DEF ResourceFollows
  <2>2. "resource" \in DOMAIN yml
    BY DEF SetupShape, Yml
  <2>3. YmlWillBe("resource", r)'
    BY <1>2, <2>1, <2>2, YmlWriteSettles
  <2> QED
    BY <1>2, <2>1, <2>3 DEF ResourceFollows
<1>3. CASE stage' # "done"
  BY <1>3 DEF ResourceFollows
<1>4. CASE UNCHANGED <<yml, stage, config, pending>>
  BY <1>4 DEF ResourceFollows, YmlWillBe, YmlWrites
<1>5. StageStep /\ ~UpdateYml => stage' # "done"
  BY DEF StageStep, Authenticate, BindApp, BindNothing, SeedExperiment, ReuseExperiment, CreateExperiment,
         KeepAppConfig, ReuseLakebase, SetUpLakebase, SkipLakebase, CreateProject, CreateBranch,
         CreatedUnresolved, Goes, Stops
<1> QED
  BY <1>1, <1>2, <1>3, <1>4, <1>5, SetupSteps

LEMMA UserFollowsPreserved ==
    ASSUME SetupShape, UserFollows, [SetupNext]_setupVars
    PROVE  UserFollows'
<1> SUFFICES ASSUME ~history'.broken
             PROVE  User' \/ (NoLakebase' /\ (config' = Empty \/ stage' = "branch"))
  BY DEF UserFollows
<1>1. CASE BindApp
  <2>1. config = Empty /\ stage # "branch"
    BY <1>1 DEF BindApp, Reached, SetupShape
  <2>2. StageStep
    BY <1>1 DEF StageStep
  <2>3. pending = << >> /\ env' = env /\ pending' \in Seq(AnyWrite)
    BY <2>2, StageWrites
  <2>4. ASSUME ToSet(pending') = {SetYml([app |-> TRUE])}, config' = Empty, ~history.broken
        PROVE  User' \/ NoLakebase'
    <3>1. Keys(ToSet(pending')) = {}
      BY <2>4 DEF Keys, SetYml
    <3>2. User \/ NoLakebase
      BY <2>4 DEF UserFollows
    <3> QED
      BY <2>3, <3>1, <3>2, Kept DEF User, NoLakebase
  <2>5. CASE ToSet(pending') = {SetYml([app |-> TRUE])} /\ UNCHANGED <<config, appExperiment, history>>
    BY <2>1, <2>4, <2>5
  <2>6. ASSUME NEW r \in AppResources, NEW found \in BOOLEAN, NEW host \in BOOLEAN,
               Adopted(r, found, host)
        PROVE  User' \/ (NoLakebase' /\ config' = Empty)
    <3>1. ~history.broken
      BY <2>6 DEF Adopted, SetupShape
    <3>2. CASE r.lakebase = Empty
      <4>1. ToSet(pending') = {SetYml([app |-> TRUE])} /\ config' = Empty
        BY <2>6, <3>2 DEF Adopted
      <4> QED
        BY <2>4, <3>1, <4>1
    <3>3. CASE r.lakebase # Empty
      <4> DEFINE lake == r.lakebase
      <4>1. /\ lake \in Resource /\ (found => lake.target # Empty)
            /\ ToSet(AdoptLakebase(lake, found, host)) \subseteq ToSet(pending')
        BY <2>6, <3>3, QuickstartAssumption DEF Adopted
      <4> HIDE DEF lake
      <4>2. /\ SetEnv("pguser", TRUE) \in ToSet(AdoptLakebase(lake, found, host))
            /\ SetEnv("pgdatabase", TRUE) \in ToSet(AdoptLakebase(lake, found, host))
        BY <4>1, AdoptWrites
      <4> QED
        BY <2>3, <4>1, <4>2, UserIsWritten
    <3> QED
      BY <3>2, <3>3
  <2> QED
    BY <1>1, <2>5, <2>6, BindAppWrites
<1>2. CASE SetUpLakebase \/ CreateBranch
  <2> DEFINE c == config'
  <2>1. /\ c \in Config /\ c.target # Empty
        /\ \E host \in BOOLEAN : pending' = SaveLakebase(c, host)
    BY <1>2, SaveStepWrites
  <2> HIDE DEF c
  <2>2. PICK host \in BOOLEAN : pending' = SaveLakebase(c, host)
    BY <2>1
  <2>3. /\ pending' \in Seq(AnyWrite)
        /\ SetEnv("pguser", TRUE) \in ToSet(pending')
        /\ SetEnv("pgdatabase", TRUE) \in ToSet(pending')
    BY <2>1, <2>2, SaveWrites
  <2> QED
    BY <2>3, UserIsWritten
<1>3. ASSUME pending = << >>, pending' = << >>, env' = env, User \/ NoLakebase
      PROVE  (User => User') /\ (NoLakebase => NoLakebase')
  BY <1>3, QuietlyKept DEF User, NoLakebase
<1>4. CASE ReuseLakebase
  <2>1. /\ pending = << >> /\ pending' = << >> /\ env' = env /\ ~history.broken /\ Existing # Empty
    BY <1>4 DEF ReuseLakebase, Reached, Goes, files
  <2>2. ~NoLakebase
    BY <2>1, AtRest DEF NoLakebase, Existing
  <2> QED
    BY <1>3, <2>1, <2>2 DEF UserFollows
<1>5. CASE CreatedUnresolved \/ \E e \in PgEndpoints : CreateProject(e)
  <2>1. /\ pending = << >> /\ pending' = << >> /\ env' = env /\ ~history.broken
        /\ config' = Empty \/ stage' = "branch"
    BY <1>5 DEF CreatedUnresolved, CreateProject, Reached, Stops, Goes, files
  <2> QED
    BY <1>3, <2>1 DEF UserFollows
<1>6. CASE StageStep /\ ~BindApp /\ ~ReuseLakebase /\ ~SetUpLakebase /\ ~CreateBranch
           /\ ~CreatedUnresolved /\ ~\E e \in PgEndpoints : CreateProject(e)
  <2>1. /\ config' = config /\ history' = history /\ stage # "branch"
        /\ \A k \in LakebaseKeys : \A v : WillBe(k, v) => WillBe(k, v)'
    BY <1>6, OtherStages
  <2>2. (User => User') /\ (NoLakebase => NoLakebase')
    BY <2>1 DEF User, NoLakebase, LakebaseKeys
  <2> QED
    BY <2>1, <2>2 DEF UserFollows
<1>7. CASE Write /\ UNCHANGED <<stage, config, history>>
  <2>1. {"pguser", "pgdatabase", "endpoint", "instance"} \subseteq DOMAIN env
    BY DEF SetupShape, Env
  <2>2. (User => User') /\ (NoLakebase => NoLakebase')
    BY <1>7, <2>1, WriteSettles DEF User, NoLakebase
  <2> QED
    BY <1>7, <2>2 DEF UserFollows
<1>8. CASE UNCHANGED <<env, stage, config, pending, history>>
  BY <1>8 DEF UserFollows, User, NoLakebase, WillBe, EnvWrites
<1>9. ASSUME pending' = << >>, env' = env, ~history.broken, pending = << >>,
             config' = Empty, stage # "branch" \/ User \/ NoLakebase
      PROVE  User' \/ (NoLakebase' /\ config' = Empty)
  BY <1>3, <1>9 DEF UserFollows
<1>10. CASE stage = "idle" /\ pending' = << >> /\ env' = env /\ config' = config
            /\ history' = [history EXCEPT !.foreign = FALSE]
  <2>1. pending = << >> /\ config = Empty /\ ~history.broken
    BY <1>10 DEF SetupShape
  <2> QED
    BY <1>9, <1>10, <2>1
<1>11. CASE /\ pending' = << >> /\ env' = env /\ config' = Empty
            /\ history' = [history EXCEPT !.broken = @ \/ pending # << >>] \/ (pending = << >> /\ history' = history)
  <2>1. pending = << >> /\ ~history.broken
    BY <1>11 DEF SetupShape
  <2>2. User \/ NoLakebase
    BY <2>1 DEF UserFollows
  <2> QED
    BY <1>9, <1>11, <2>1, <2>2
<1> QED
  BY <1>1, <1>2, <1>4, <1>5, <1>6, <1>7, <1>8, <1>10, <1>11, SetupSteps

LEMMA SetupInvInductive == SetupSpec => []SetupInv
<1>1. SetupInit => SetupInv
  <2> SUFFICES ASSUME SetupInit PROVE SetupInv
    OBVIOUS
  <2>1. SetupShape
    <3>1. << >> \in Seq(AnyWrite) /\ 0 \in Experiments
      BY EmptyIsNothing
    <3>2. VariableHasItsResource
      BY TemplatesAssumption DEF SetupInit, VariableHasItsResource
    <3>3. env \in Env /\ yml \in Yml
      BY QuickstartAssumption DEF SetupInit, Env
    <3> QED
      BY <3>1, <3>2, <3>3 DEF SetupInit, SetupShape, Stages
  <2>2. UserFollows
    BY AtRest DEF SetupInit, UserFollows, NoLakebase
  <2> QED
    BY <2>1, <2>2 DEF SetupInit, SetupInv, ProfileFollows, ExperimentFollows, LakebaseFollows, ResourceFollows
<1>2. SetupInv /\ [SetupNext]_setupVars => SetupInv'
  BY SetupShapePreserved, ProfileFollowsPreserved, ExperimentFollowsPreserved, LakebaseFollowsPreserved,
     ResourceFollowsPreserved, UserFollowsPreserved DEF SetupInv
<1> QED
  BY <1>1, <1>2, PTL DEF SetupSpec

\* For every template, app, argument and interruption, the two files of a
\* completed run name one experiment and one profile, and the variable of
\* databricks.yml never refers to a resource it does not bind.
THEOREM SetupFilesAgree == SetupSpec => []FilesAgree
<1>1. SetupInv => FilesAgree
  <2> SUFFICES ASSUME SetupInv PROVE FilesAgree
    OBVIOUS
  <2>1. VariableHasItsResource
    BY DEF SetupInv, SetupShape
  <2>2. ASSUME Completed
        PROVE  /\ env.experiment # Empty /\ yml.experiment \in {Absent, env.experiment}
               /\ env.tracking = env.profile
    <3>1. stage = "done" /\ pending = << >>
      BY <2>2 DEF Completed, Reached
    <3>2. PICK p \in Profiles : WillBe("profile", p) /\ WillBe("tracking", p)
      BY <3>1 DEF SetupInv, ProfileFollows
    <3>3. PICK x \in Experiments :
            WillBe("experiment", x) /\ \E y \in {x, Absent} : YmlWillBe("experiment", y)
      BY <3>1 DEF SetupInv, ExperimentFollows
    <3>4. PICK y \in {x, Absent} : YmlWillBe("experiment", y)
      BY <3>3
    <3>5. /\ env["profile"] = p /\ env["tracking"] = p /\ env["experiment"] = x
          /\ yml["experiment"] = y
      BY <3>1, <3>2, <3>3, <3>4, AtRest
    <3> QED
      BY <3>5, EmptyIsNothing
  <2> QED
    BY <2>1, <2>2 DEF FilesAgree
<1> QED
  BY <1>1, SetupInvInductive, PTL

\* The Lakebase that .env names after a completed run is the one that
\* databricks.yml binds, unless the app's own endpoint could not be looked up.
THEOREM LocalFollowsDeployed == SetupSpec => []LocalMatchesDeployed
<1>1. SetupInv => LocalMatchesDeployed
  <2> SUFFICES ASSUME SetupInv, Completed, config # Empty, ~history.foreign,
                      yml.resource # Absent, yml.resource.target # Empty
               PROVE  Existing.target = yml.resource.target
    BY DEF LocalMatchesDeployed
  <2>1. stage = "done" /\ pending = << >>
    BY DEF Completed, Reached
  <2>2. PICK r \in Resource \cup {Absent} :
          /\ YmlWillBe("resource", r)
          /\ r # Absent /\ r.target # Empty => config.named /\ r.target = config.target
    BY <2>1 DEF SetupInv, ResourceFollows
  <2>3. yml["resource"] = r
    BY <2>1, <2>2, AtRest
  <2>4. config.named /\ yml.resource.target = config.target
    BY <2>2, <2>3
  <2>5. LocalIs(config)
    BY <2>1, <2>4 DEF SetupInv, LakebaseFollows
  <2>6. IF config.kind = "autoscaling" THEN env["endpoint"] = config.target
        ELSE env["instance"] = config.target /\ env["endpoint"] = Empty
    BY <2>1, <2>5, AtRest DEF LocalIs
  <2> QED
    BY <2>4, <2>6 DEF Existing
<1> QED
  BY <1>1, SetupInvInductive, PTL

\* While no run is interrupted in its writes, a completed one with a Lakebase
\* leaves a user and a database to connect with, whatever it reused.
THEOREM ConnectionsAreComplete == SetupSpec => []ConnectionIsComplete
<1>1. SetupInv => ConnectionIsComplete
  <2> SUFFICES ASSUME SetupInv, Completed, config # Empty, ~history.broken
               PROVE  env.pguser /\ env.pgdatabase
    BY DEF ConnectionIsComplete
  <2>1. stage = "done" /\ pending = << >>
    BY DEF Completed, Reached
  <2>2. User
    BY <2>1 DEF SetupInv, UserFollows
  <2>3. env["pguser"] = TRUE /\ env["pgdatabase"] = TRUE
    BY <2>1, <2>2, AtRest DEF User
  <2> QED
    BY <2>3
<1> QED
  BY <1>1, SetupInvInductive, PTL
=============================================================================
