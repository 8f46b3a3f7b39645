----------------------- MODULE RequestHandlers_proofs -----------------------
(***************************************************************************)
(* What is remembered was sent, and the audit trail agrees with it, for    *)
(* any number of requests, conversations and responses, any budget and     *)
(* number of retries, and whatever interrupts the handlers.                *)
(***************************************************************************)
EXTENDS RequestHandlers, SequenceTheorems, SequenceLemmas, TLAPS

\* A handler that is over only closes its servers and explains itself.
Over == {"closing", "telling"} \cup Ends

Shape ==
    /\ failOpen \in BOOLEAN
    /\ phase \in [Requests -> Phase]
    /\ persona \in [Requests -> Personas \cup {None}]
    /\ response \in [Requests -> Responses \cup {None}]
    /\ verdict \in [Requests -> {None, "passed", "blocked"}]
    /\ released \in [Requests -> Nat]
    /\ notice \in [Requests -> Notices \cup {None}]
    /\ outcome \in [Requests -> Outcome]
    /\ audit \in [Requests -> Seq(AuditEvent)]

MemoryShape ==
    /\ turns \in [Conversations -> Seq(Turn)]
    /\ preference \in [Conversations -> Personas \cup {None}]

\* An answer on its way was passed, and one that is withheld is explained.
VerdictHolds(r) ==
    /\ phase[r] = "releasing" => verdict[r] = "passed"
    /\ phase[r] = "blocked" => notice[r] # None

\* Nothing is recorded of a stream before it is over, and a success only then.
AuditComesLast(r) ==
    /\ phase[r] \notin Over => audit[r] = << >>
    /\ Recorded(r, "succeeded") => phase[r] \in Over /\ ReleasedAll(r)

\* What AuditAgreesWithClient says of an end holds on the way to it.
EndIsExplained(r) ==
    /\ phase[r] = "closing" /\ Recorded(r, "failed") => notice[r] # None
    /\ phase[r] = "ended" \/ (phase[r] = "closing" /\ outcome[r] = "returned") =>
          /\ audit[r] # << >>
          /\ Recorded(r, "failed") => notice[r] # None
          /\ notice[r] = None => Recorded(r, "succeeded")
    /\ phase[r] = "telling" => notice[r] # None
    /\ phase[r] \in {"telling", "raised"} => audit[r] # << >>

Sound(r) ==
    /\ VerdictHolds(r)
    /\ r \in Streams => AuditComesLast(r) /\ EndIsExplained(r)

StatedIn(c, p) == \E r \in Requests : ConversationOf[r] = c /\ Given[r] = p

\* A persona, remembered or used, was stated in its conversation.
PersonaWasStated ==
    /\ \A c \in Conversations : preference[c] # None => StatedIn(c, preference[c])
    /\ \A r \in Requests :
          Remembers(r) /\ persona[r] # None => StatedIn(ConversationOf[r], persona[r])

Delivered(r) ==
    phase[r] \in Over /\ verdict[r] = "passed" /\ (r \in Streams => ReleasedAll(r))

AnswersWereDelivered ==
    \A c \in Conversations : \A i \in 1..Len(turns[c]) : \A r \in Requests :
        turns[c][i] = <<"assistant", r>> => Delivered(r)

QuestionsComeFirst ==
    ~failOpen => \A c \in Conversations : \A i \in 1..Len(turns[c]) : \A r \in Asking :
        turns[c][i] = <<"assistant", r>> => i > 1 /\ turns[c][i - 1] = <<"user", r>>

HandlersInv ==
    /\ Shape
    /\ MemoryShape
    /\ \A r \in Requests : Sound(r)
    /\ PersonaWasStated
    /\ AnswersWereDelivered
    /\ QuestionsComeFirst

----------------------------------------------------------------------------
(* Records and turns *)

LEMMA RecordingAdds ==
    ASSUME NEW s \in Seq(AuditEvent), NEW x \in AuditEvent, NEW e
    PROVE  /\ Append(s, x) \in Seq(AuditEvent)
           /\ Append(s, x) # << >>
           /\ Contains(Append(s, x), e) <=> Contains(s, e) \/ x = e
<1>1. /\ Append(s, x) \in Seq(AuditEvent) /\ Len(Append(s, x)) = Len(s) + 1
      /\ \A i \in 1..Len(s) : Append(s, x)[i] = s[i]
      /\ Append(s, x)[Len(s) + 1] = x
      /\ Len(s) \in Nat
  OBVIOUS
<1>2. Append(s, x) # << >>
  BY <1>1
<1>3. ASSUME Contains(Append(s, x), e) PROVE Contains(s, e) \/ x = e
  <2>1. PICK i \in 1..(Len(s) + 1) : Append(s, x)[i] = e
    BY <1>1, <1>3 DEF Contains
  <2> QED
    BY <1>1, <2>1 DEF Contains
<1>4. ASSUME Contains(s, e) \/ x = e PROVE Contains(Append(s, x), e)
  <2>1. CASE x = e
    BY <1>1, <2>1 DEF Contains
  <2>2. CASE Contains(s, e)
    <3>1. PICK i \in 1..Len(s) : s[i] = e
      BY <2>2 DEF Contains
    <3>2. i \in 1..Len(Append(s, x)) /\ Append(s, x)[i] = e
      BY <1>1, <3>1
    <3> QED
      BY <3>2 DEF Contains
  <2> QED
    BY <1>4, <2>1, <2>2
<1> QED
  BY <1>1, <1>2, <1>3, <1>4

LEMMA NothingRecorded == ASSUME NEW e PROVE ~Contains(<< >>, e)
  BY DEF Contains

----------------------------------------------------------------------------
(* A step of a request only concerns that request *)

\* What the step of r leaves as it is.
OthersKeep(r) ==
    /\ failOpen' = failOpen
    /\ \A q \in Requests \ {r} :
          /\ phase'[q] = phase[q] /\ persona'[q] = persona[q]
          /\ response'[q] = response[q] /\ verdict'[q] = verdict[q]
          /\ released'[q] = released[q] /\ notice'[q] = notice[q]
          /\ outcome'[q] = outcome[q] /\ audit'[q] = audit[q]

LEMMA OthersStaySound ==
    ASSUME Shape, NEW r \in Requests, OthersKeep(r), NEW q \in Requests \ {r}
    PROVE  /\ Sound(q) => Sound(q)'
           /\ Delivered(q) => Delivered(q)'
<1>1. ReleasedAll(q)' <=> ReleasedAll(q)
  BY DEF OthersKeep, ReleasedAll
<1> QED
  BY <1>1 DEF OthersKeep, Sound, VerdictHolds, AuditComesLast, EndIsExplained, Recorded, Delivered

\* What every step of r does to the handlers.
GoodStep(r) ==
    /\ Shape'
    /\ OthersKeep(r)
    /\ Sound(r)'
    /\ Delivered(r) => Delivered(r)'

----------------------------------------------------------------------------
(* How a handler is left *)

LEMMA HandlesWell ==
    ASSUME Shape, NEW r \in Requests, NEW o, Handles(r, o)
    PROVE  /\ phase' \in [Requests -> Phase]
           /\ notice' \in [Requests -> Notices \cup {None}]
           /\ audit' \in [Requests -> Seq(AuditEvent)]
           /\ \A q \in Requests \ {r} : /\ phase'[q] = phase[q] /\ notice'[q] = notice[q]
                                        /\ audit'[q] = audit[q]
           /\ phase'[r] \in {"telling"} \cup Ends
           /\ Contains(audit'[r], "succeeded") <=> Contains(audit[r], "succeeded")
           /\ phase'[r] = "ended" =>
                  o = "returned" /\ audit'[r] = audit[r] /\ notice'[r] = notice[r]
           /\ r \in Streams => /\ phase'[r] = "telling" => notice'[r] # None
                               /\ phase'[r] \in {"telling", "raised"} => audit'[r] # << >>
<1>1. audit[r] \in Seq(AuditEvent)
  BY DEF Shape
<1>2. /\ \A x \in AuditEvent : /\ Append(audit[r], x) \in Seq(AuditEvent)
                               /\ Append(audit[r], x) # << >>
      /\ \A x \in {"failed", "client_disconnected"} :
            Contains(Append(audit[r], x), "succeeded") <=> Contains(audit[r], "succeeded")
  BY <1>1, RecordingAdds DEF AuditEvent
<1>3. "failed" \in AuditEvent /\ "client_disconnected" \in AuditEvent
  BY DEF AuditEvent
<1>4. /\ {"telling"} \cup Ends \subseteq Phase
      /\ {"ended", "raised", "abandoned"} = Ends
  BY DEF Phase, Ends, Yields
<1>5. {"timeout", "error"} \subseteq Notices /\ None \notin Notices
  BY HandlerAssumption DEF Notices
<1>6. CASE o = "returned" /\ GoTo(r, "ended") /\ UNCHANGED <<audit, notice>>
  BY <1>4, <1>6 DEF Shape, GoTo
<1>7. CASE o = "timeout" /\ Records(r, "failed") /\ Tells(r, "timeout") /\ GoTo(r, "telling")
  BY <1>2, <1>3, <1>4, <1>5, <1>7 DEF Shape, GoTo, Records, Tells, Ends
<1>8. CASE /\ o = "cancelled" /\ GoTo(r, "raised") /\ UNCHANGED notice
           /\ IF r \in Streams THEN Records(r, "client_disconnected") ELSE UNCHANGED audit
  BY <1>2, <1>3, <1>4, <1>8 DEF Shape, GoTo, Records, Ends
<1>9. CASE /\ o = "user_error" /\ Records(r, "failed") /\ GoTo(r, "raised")
           /\ UNCHANGED notice
  BY <1>2, <1>3, <1>4, <1>9 DEF Shape, GoTo, Records, Ends
<1>10. CASE /\ o = "error" /\ Records(r, "failed")
            /\ IF r \in Streams
                 THEN Tells(r, "error") /\ GoTo(r, "telling")
                 ELSE GoTo(r, "raised") /\ UNCHANGED notice
  <2>1. CASE r \in Streams
    <3>1. Records(r, "failed") /\ Tells(r, "error") /\ GoTo(r, "telling")
      BY <1>10, <2>1
    <3> QED
      BY <1>2, <1>3, <1>4, <1>5, <3>1 DEF Shape, GoTo, Records, Tells, Ends
  <2>2. CASE r \notin Streams
    <3>1. Records(r, "failed") /\ GoTo(r, "raised") /\ UNCHANGED notice
      BY <1>10, <2>2
    <3> QED
      BY <1>2, <1>3, <1>4, <2>2, <3>1 DEF Shape, GoTo, Records, Ends
  <2> QED
    BY <2>1, <2>2
<1>11. CASE o = "closed" /\ GoTo(r, "abandoned") /\ UNCHANGED <<audit, notice>>
  BY <1>4, <1>11 DEF Shape, GoTo, Ends
<1> QED
  BY <1>6, <1>7, <1>8, <1>9, <1>10, <1>11 DEF Handles

LEMMA LeavesWell ==
    ASSUME Shape, NEW r \in Requests, NEW o \in Outcome, Leaves(r, o)
    PROVE  /\ phase' \in [Requests -> Phase]
           /\ outcome' \in [Requests -> Outcome]
           /\ \A q \in Requests \ {r} : phase'[q] = phase[q] /\ outcome'[q] = outcome[q]
           /\ phase'[r] = "closing" /\ outcome'[r] = o
  BY DEF Leaves, GoTo, Shape, Phase, Awaits

\* Steps that neither record nor explain, up to the end of the try block.
LEMMA QuietStep ==
    ASSUME Shape, NEW r \in Requests, Sound(r), Shape', OthersKeep(r),
           phase[r] \notin Over, audit'[r] = audit[r], notice'[r] = notice[r],
           phase'[r] \notin Over \/ (phase'[r] = "closing" /\ outcome'[r] # "returned"),
           phase'[r] = "releasing" => verdict'[r] = "passed",
           phase'[r] = "blocked" => notice'[r] # None
    PROVE  GoodStep(r)
<1>1. VerdictHolds(r)'
  BY DEF VerdictHolds
<1>2. r \in Streams => audit'[r] = << >>
  BY DEF Sound, AuditComesLast
<1>3. r \in Streams => ~Recorded(r, "succeeded")' /\ ~Recorded(r, "failed")'
  BY <1>2, NothingRecorded DEF Recorded
<1>4. r \in Streams => AuditComesLast(r)'
  BY <1>2, <1>3 DEF AuditComesLast
<1>5. phase'[r] \notin {"ended", "telling", "raised"}
  BY DEF Over, Ends
<1>6. r \in Streams => EndIsExplained(r)'
  BY <1>3, <1>5 DEF EndIsExplained, Over
<1> QED
  BY <1>1, <1>4, <1>6 DEF GoodStep, Sound, Delivered

----------------------------------------------------------------------------
(* One lemma for each step, or for steps of one kind *)

\* What a step within the try block, and one that leaves it, has in common.
LEMMA SuspendedStep ==
    ASSUME Shape, NEW r \in Requests, Sound(r),
           Accept(r) \/ Connect(r) \/ Execute(r) \/ AgentRetries(r)
    PROVE  GoodStep(r) /\ UNCHANGED <<memoryVars, persona>>
<1>1. /\ \E p \in {"accepted", "connecting", "running"} : phase' = [phase EXCEPT ![r] = p]
      /\ phase[r] \in {"new", "prepared", "executing", "running"}
      /\ UNCHANGED <<failOpen, persona, response, verdict, clientVars, outcome, audit, memoryVars>>
  <2>1. CASE Accept(r) \/ Connect(r) \/ Execute(r)
    BY <2>1 DEF Accept, Connect, Execute, GoTo, runVars
  <2>2. CASE AgentRetries(r)
    <3>1. phase = [phase EXCEPT ![r] = "running"]
      BY <2>2 DEF AgentRetries, Shape
    <3> QED
      BY <2>2, <3>1 DEF AgentRetries
  <2> QED
    BY <2>1, <2>2
<1>2. Shape' /\ OthersKeep(r)
  BY <1>1 DEF Shape, OthersKeep, clientVars, Phase, Yields, Awaits
<1>3. /\ phase[r] \notin Over /\ phase'[r] \in {"accepted", "connecting", "running"}
      /\ audit'[r] = audit[r] /\ notice'[r] = notice[r]
  BY <1>1 DEF Shape, Over, Ends, clientVars
<1>4. phase'[r] \notin Over
  BY <1>3 DEF Over, Ends
<1>5. GoodStep(r)
  BY <1>2, <1>3, <1>4, QuietStep
<1> QED
  BY <1>1, <1>5

LEMMA AgentReturnsStep ==
    ASSUME Shape, NEW r \in Requests, Sound(r), AgentReturns(r)
    PROVE  GoodStep(r) /\ UNCHANGED <<memoryVars, persona>>
<1>1. Shape' /\ OthersKeep(r)
  BY DEF AgentReturns, GoTo, Shape, OthersKeep, clientVars, Phase, Yields
<1>2. /\ phase[r] \notin Over /\ phase'[r] = "finalizing" /\ phase'[r] \notin Over
      /\ audit'[r] = audit[r] /\ notice'[r] = notice[r]
  BY DEF AgentReturns, GoTo, Shape, Over, Ends, clientVars
<1>3. GoodStep(r)
  BY <1>1, <1>2, QuietStep
<1> QED
  BY <1>3 DEF AgentReturns

LEMMA ReleaseStep ==
    ASSUME Shape, NEW r \in Requests, Sound(r), Release(r)
    PROVE  GoodStep(r) /\ UNCHANGED <<memoryVars, persona>>
<1>1. Shape' /\ OthersKeep(r)
  BY DEF Release, Shape, OthersKeep, runVars
<1>2. /\ phase[r] \notin Over /\ phase'[r] = "releasing" /\ phase'[r] \notin Over
      /\ audit'[r] = audit[r] /\ notice'[r] = notice[r] /\ verdict'[r] = verdict[r]
  BY DEF Release, Over, Ends, runVars
<1>3. verdict[r] = "passed"
  BY DEF Release, Sound, VerdictHolds
<1>4. GoodStep(r)
  BY <1>1, <1>2, <1>3, QuietStep
<1> QED
  BY <1>4 DEF Release, runVars

LEMMA ConnectedStep ==
    ASSUME Shape, NEW r \in Requests, Sound(r), Connected(r) \/ AgentFails(r)
    PROVE  GoodStep(r) /\ UNCHANGED <<memoryVars, persona>>
<1>1. /\ UNCHANGED <<failOpen, persona, response, verdict, clientVars, audit, memoryVars>>
      /\ phase[r] \in {"connecting", "running"}
      /\ \/ /\ \E p \in {"executing", "running"} : phase' = [phase EXCEPT ![r] = p]
            /\ UNCHANGED outcome
         \/ \E o \in {"user_error", "error"} : Leaves(r, o)
  BY DEF Connected, AgentFails, GoTo, runVars
<1>2. phase[r] \notin Over /\ audit'[r] = audit[r] /\ notice'[r] = notice[r]
  BY <1>1 DEF Over, Ends, clientVars
<1>3. CASE \E p \in {"executing", "running"} :
             phase' = [phase EXCEPT ![r] = p] /\ UNCHANGED outcome
  <2>1. Shape' /\ OthersKeep(r)
    BY <1>1, <1>3 DEF Shape, OthersKeep, clientVars, Phase, Yields, Awaits
  <2>2. phase'[r] \in {"executing", "running"} /\ phase'[r] \notin Over
    BY <1>3 DEF Shape, Over, Ends
  <2> QED
    BY <1>1, <1>2, <2>1, <2>2, QuietStep
<1>4. CASE \E o \in {"user_error", "error"} : Leaves(r, o)
  <2>1. PICK o \in {"user_error", "error"} : Leaves(r, o)
    BY <1>4
  <2>2. /\ o \in Outcome /\ phase' \in [Requests -> Phase]
        /\ outcome' \in [Requests -> Outcome]
        /\ \A q \in Requests \ {r} : phase'[q] = phase[q] /\ outcome'[q] = outcome[q]
        /\ phase'[r] = "closing" /\ outcome'[r] # "returned"
    BY <2>1, LeavesWell DEF Outcome
  <2>3. Shape' /\ OthersKeep(r)
    BY <1>1, <2>2 DEF Shape, OthersKeep, clientVars
  <2> QED
    BY <1>1, <1>2, <2>2, <2>3, QuietStep
<1> QED
  BY <1>1, <1>3, <1>4

LEMMA BlocksStep ==
    ASSUME Shape, NEW r \in Requests, Sound(r), Blocks(r)
    PROVE  GoodStep(r) /\ UNCHANGED <<memoryVars, persona>>
<1>1. /\ UNCHANGED <<failOpen, persona, response, released, audit, memoryVars>>
      /\ phase[r] = "finalizing" /\ phase[r] \notin Over
      /\ verdict' = [verdict EXCEPT ![r] = "blocked"]
  BY DEF Blocks, Over, Ends
<1>2. CASE r \in Streams
  <2>1. "blocked" \in Notices /\ None \notin Notices
    BY HandlerAssumption DEF Notices
  <2>a. phase' = [phase EXCEPT ![r] = "blocked"] /\ outcome' = outcome
    BY <1>2 DEF Blocks, GoTo
  <2>b. notice' = [notice EXCEPT ![r] = "blocked"]
    BY <1>2 DEF Blocks, Tells
  <2>c. "blocked" \in Phase
    BY DEF Phase, Yields
  <2>2. Shape' /\ OthersKeep(r) /\ phase'[r] = "blocked" /\ notice'[r] # None
    BY <1>1, <2>1, <2>a, <2>b, <2>c DEF Shape, OthersKeep
  <2>3. VerdictHolds(r)'
    BY <2>2 DEF VerdictHolds
  <2>4. audit'[r] = << >> /\ phase'[r] \notin Over
    BY <1>1, <1>2, <2>2 DEF Sound, AuditComesLast, Over, Ends
  <2>5. ~Recorded(r, "succeeded")'
    BY <2>4, NothingRecorded DEF Recorded
  <2>6. AuditComesLast(r)' /\ EndIsExplained(r)'
    BY <2>2, <2>4, <2>5 DEF AuditComesLast, EndIsExplained
  <2>7. ~Delivered(r)
    BY <1>1 DEF Delivered
  <2> QED
    BY <1>1, <2>2, <2>3, <2>6, <2>7 DEF GoodStep, Sound
<1>3. CASE r \notin Streams
  <2>1. Leaves(r, "user_error") /\ notice' = notice
    BY <1>3 DEF Blocks
  <2>2. /\ phase' \in [Requests -> Phase]
        /\ outcome' \in [Requests -> Outcome]
        /\ \A q \in Requests \ {r} : phase'[q] = phase[q] /\ outcome'[q] = outcome[q]
        /\ phase'[r] = "closing" /\ outcome'[r] # "returned"
    BY <2>1, LeavesWell DEF Outcome
  <2>3. Shape' /\ OthersKeep(r)
    BY <1>1, <2>1, <2>2 DEF Shape, OthersKeep
  <2> QED
    BY <1>1, <2>1, <2>2, <2>3, QuietStep
<1> QED
  BY <1>2, <1>3

LEMMA PrepareFailsWell ==
    ASSUME Shape, NEW r \in Requests, Sound(r), phase[r] \notin Over,
           NEW o \in {"user_error", "error"}, PrepareFails(r, o),
           UNCHANGED <<failOpen, response, verdict, released, outcome>>,
           persona' \in [Requests -> Personas \cup {None}],
           \A q \in Requests \ {r} : persona'[q] = persona[q]
    PROVE  GoodStep(r)
<1>1. ~Delivered(r)
  BY DEF Delivered
<1>2. CASE r \in Streams
  <2>1. Handles(r, o) /\ o # "returned"
    BY <1>2 DEF PrepareFails
  <2>2. Shape' /\ OthersKeep(r)
    BY <2>1, HandlesWell DEF Shape, OthersKeep
  <2>3. ~Recorded(r, "succeeded")'
    <3>1. audit[r] = << >>
      BY <1>2 DEF Sound, AuditComesLast
    <3> QED
      BY <2>1, <3>1, HandlesWell, NothingRecorded DEF Recorded
  <2>4. /\ phase'[r] \in {"telling", "raised", "abandoned"}
        /\ phase'[r] = "telling" => notice'[r] # None
        /\ phase'[r] \in {"telling", "raised"} => audit'[r] # << >>
    BY <1>2, <2>1, HandlesWell DEF Ends
  <2>5. VerdictHolds(r)' /\ AuditComesLast(r)' /\ EndIsExplained(r)'
    BY <2>3, <2>4 DEF VerdictHolds, AuditComesLast, EndIsExplained, Over, Ends
  <2> QED
    BY <1>1, <2>2, <2>5 DEF GoodStep, Sound
<1>3. CASE r \notin Streams
  <2>1. phase' = [phase EXCEPT ![r] = "raised"] /\ UNCHANGED <<audit, notice>>
    BY <1>3 DEF PrepareFails, GoTo
  <2>2. Shape' /\ OthersKeep(r) /\ phase'[r] = "raised"
    BY <2>1 DEF Shape, OthersKeep, Phase, Ends
  <2> QED
    BY <1>1, <1>3, <2>2 DEF GoodStep, Sound, VerdictHolds
<1> QED
  BY <1>2, <1>3

LEMMA PrepareStep ==
    ASSUME Shape, MemoryShape, NEW r \in Requests, Sound(r), Prepare(r)
    PROVE  /\ GoodStep(r) /\ UNCHANGED memoryVars
           /\ persona'[r] = persona[r] \/ persona'[r] \in PersonaReads(r)
<1>1. /\ UNCHANGED <<failOpen, response, verdict, released, outcome, memoryVars>>
      /\ phase[r] \notin Over
  BY DEF Prepare, Over, Ends
<1>2. PersonaReads(r) \subseteq Personas \cup {None}
  BY HandlerAssumption DEF PersonaReads, MemoryShape, Remembers
<1>3. CASE PrepareFails(r, "error") /\ UNCHANGED persona
  BY <1>1, <1>3, PrepareFailsWell DEF Shape
<1>4. CASE \E p \in PersonaReads(r) :
             /\ persona' = [persona EXCEPT ![r] = p]
             /\ \/ \E o \in {"user_error", "error"} : PrepareFails(r, o)
                \/ /\ GoTo(r, IF r \in Streams THEN "prepared" ELSE "connecting")
                   /\ UNCHANGED <<audit, notice>>
  <2>1. PICK p \in PersonaReads(r) :
             /\ persona' = [persona EXCEPT ![r] = p]
             /\ \/ \E o \in {"user_error", "error"} : PrepareFails(r, o)
                \/ /\ GoTo(r, IF r \in Streams THEN "prepared" ELSE "connecting")
                   /\ UNCHANGED <<audit, notice>>
    BY <1>4
  <2>2. /\ persona' \in [Requests -> Personas \cup {None}] /\ persona'[r] = p
        /\ \A q \in Requests \ {r} : persona'[q] = persona[q]
    BY <1>2, <2>1 DEF Shape
  <2>3. CASE \E o \in {"user_error", "error"} : PrepareFails(r, o)
    BY <1>1, <2>2, <2>3, PrepareFailsWell
  <2>4. CASE /\ GoTo(r, IF r \in Streams THEN "prepared" ELSE "connecting")
             /\ UNCHANGED <<audit, notice>>
    <3>1. Shape' /\ OthersKeep(r) /\ phase'[r] \in {"prepared", "connecting"}
      BY <1>1, <2>2, <2>4 DEF Shape, OthersKeep, GoTo, Phase, Yields, Awaits
    <3>2. phase'[r] \notin Over
      BY <3>1 DEF Over, Ends
    <3> QED
      BY <1>1, <2>2, <2>4, <3>1, <3>2, QuietStep
  <2> QED
    BY <1>1, <2>1, <2>2, <2>3, <2>4
<1> QED
  BY <1>1, <1>3, <1>4 DEF Prepare

\* A step of a handler that is over, and stays so.
LEMMA OverStays ==
    ASSUME Shape, NEW r \in Requests, Sound(r), Shape', OthersKeep(r),
           phase[r] \in Over, phase'[r] \in Over,
           response'[r] = response[r], verdict'[r] = verdict[r], released'[r] = released[r],
           r \in Streams => /\ Recorded(r, "succeeded")' <=> Recorded(r, "succeeded")
                            /\ EndIsExplained(r)'
    PROVE  GoodStep(r)
<1>1. ReleasedAll(r)' <=> ReleasedAll(r)
  BY DEF ReleasedAll
<1>2. VerdictHolds(r)'
  BY DEF VerdictHolds, Over, Ends
<1>3. r \in Streams => AuditComesLast(r)'
  BY <1>1 DEF Sound, AuditComesLast
<1>4. Delivered(r) => Delivered(r)'
  BY <1>1 DEF Delivered
<1> QED
  BY <1>2, <1>3, <1>4 DEF GoodStep, Sound

LEMMA CloseStep ==
    ASSUME Shape, NEW r \in Requests, Sound(r), Close(r)
    PROVE  GoodStep(r) /\ UNCHANGED <<memoryVars, persona>>
<1>1. /\ phase[r] = "closing" /\ Handles(r, outcome[r])
      /\ UNCHANGED <<failOpen, persona, response, verdict, released, outcome, memoryVars>>
  BY DEF Close, runVars
<1>2. Shape' /\ OthersKeep(r)
  BY <1>1, HandlesWell DEF Shape, OthersKeep
<1>3. phase[r] \in Over /\ phase'[r] \in {"telling"} \cup Ends /\ phase'[r] \in Over
  BY <1>1, HandlesWell DEF Over
<1>4. Recorded(r, "succeeded")' <=> Recorded(r, "succeeded")
  BY <1>1, HandlesWell DEF Recorded
<1>5. r \in Streams => EndIsExplained(r)'
  <2> SUFFICES ASSUME r \in Streams PROVE EndIsExplained(r)'
    OBVIOUS
  <2>1. phase'[r] = "ended" =>
           /\ audit'[r] # << >>
           /\ Recorded(r, "failed")' => notice'[r] # None
           /\ notice'[r] = None => Recorded(r, "succeeded")'
    BY <1>1, HandlesWell DEF Sound, EndIsExplained, Recorded
  <2>2. /\ phase'[r] = "telling" => notice'[r] # None
        /\ phase'[r] \in {"telling", "raised"} => audit'[r] # << >>
    BY <1>1, HandlesWell
  <2> QED
    BY <1>3, <2>1, <2>2 DEF EndIsExplained, Ends
<1>6. GoodStep(r)
  BY <1>1, <1>2, <1>3, <1>4, <1>5, OverStays
<1> QED
  BY <1>1, <1>6

LEMMA CloseRaisesStep ==
    ASSUME Shape, NEW r \in Requests, Sound(r), CloseRaises(r)
    PROVE  GoodStep(r) /\ UNCHANGED <<memoryVars, persona>>
<1>1. /\ phase[r] = "closing" /\ phase[r] \in Over
      /\ UNCHANGED <<failOpen, persona, response, verdict, released, outcome, memoryVars>>
  BY DEF CloseRaises, runVars, Over
<1>2. CASE Handles(r, "error")
  <2>1. Shape' /\ OthersKeep(r)
    BY <1>1, <1>2, HandlesWell DEF Shape, OthersKeep
  <2>2. /\ phase'[r] \in {"telling", "raised", "abandoned"}
        /\ r \in Streams => /\ phase'[r] = "telling" => notice'[r] # None
                            /\ phase'[r] \in {"telling", "raised"} => audit'[r] # << >>
        /\ Recorded(r, "succeeded")' <=> Recorded(r, "succeeded")
    BY <1>2, HandlesWell, "error" # "returned" DEF Ends, Recorded
  <2>3. r \in Streams => EndIsExplained(r)'
    BY <2>2 DEF EndIsExplained
  <2>4. phase'[r] \in Over
    BY <2>2 DEF Over, Ends
  <2> QED
    BY <1>1, <2>1, <2>2, <2>3, <2>4, OverStays
<1>3. CASE Records(r, "failed") /\ GoTo(r, "abandoned") /\ UNCHANGED notice
  <2>1. /\ Append(audit[r], "failed") \in Seq(AuditEvent)
        /\ Contains(Append(audit[r], "failed"), "succeeded") <=> Contains(audit[r], "succeeded")
    BY RecordingAdds DEF Shape, AuditEvent
  <2>2. Shape' /\ OthersKeep(r) /\ phase'[r] = "abandoned"
    BY <1>1, <1>3, <2>1 DEF Records, GoTo, Shape, OthersKeep, Phase, Ends
  <2>3. Recorded(r, "succeeded")' <=> Recorded(r, "succeeded")
    BY <1>3, <2>1 DEF Records, Recorded, Shape
  <2>4. EndIsExplained(r)' /\ phase'[r] \in Over
    BY <2>2 DEF EndIsExplained, Over, Ends
  <2> QED
    BY <1>1, <2>2, <2>3, <2>4, OverStays
<1> QED
  BY <1>1, <1>2, <1>3 DEF CloseRaises

\* A stream that is given up while it explains itself, and before it began.
LEMMA AbandonStep ==
    ASSUME Shape, NEW r \in Requests, Sound(r), GoTo(r, "abandoned"),
           UNCHANGED <<failOpen, persona, response, verdict, clientVars, outcome, audit>>
    PROVE  GoodStep(r)
<1>1. Shape' /\ OthersKeep(r) /\ phase'[r] = "abandoned"
  BY DEF GoTo, Shape, OthersKeep, clientVars, Phase, Ends
<1>2. phase'[r] \in Over /\ EndIsExplained(r)'
  BY <1>1 DEF EndIsExplained, Over, Ends
<1>3. Recorded(r, "succeeded")' <=> Recorded(r, "succeeded")
  BY DEF Recorded
<1>4. CASE phase[r] \in Over
  BY <1>1, <1>2, <1>3, <1>4, OverStays DEF clientVars
<1>5. CASE phase[r] \notin Over
  <2>1. r \in Streams => ~Recorded(r, "succeeded")'
    BY <1>3, <1>5, NothingRecorded DEF Sound, AuditComesLast, Recorded
  <2>2. VerdictHolds(r)' /\ (r \in Streams => AuditComesLast(r)')
    BY <1>1, <1>2, <2>1 DEF VerdictHolds, AuditComesLast
  <2> QED
    BY <1>1, <1>2, <1>5, <2>2 DEF GoodStep, Sound, Delivered
<1> QED
  BY <1>4, <1>5

LEMMA LeaveStep ==
    ASSUME Shape, NEW r \in Requests, Sound(r),
           phase[r] \in Over => phase[r] = "closing",
           NEW o \in Outcome \ {"returned"}, Leaves(r, o),
           UNCHANGED <<failOpen, persona, response, verdict, clientVars, audit>>
    PROVE  GoodStep(r)
<1>1. /\ Shape' /\ OthersKeep(r)
      /\ phase'[r] = "closing" /\ outcome'[r] # "returned"
  BY LeavesWell DEF Shape, OthersKeep, clientVars
<1>2. CASE phase[r] \notin Over
  BY <1>1, <1>2, QuietStep DEF clientVars
<1>3. CASE phase[r] = "closing"
  <2>1. \A e : Recorded(r, e)' <=> Recorded(r, e)
    BY DEF Recorded
  <2>2. r \in Streams => EndIsExplained(r)'
    BY <1>1, <1>3, <2>1 DEF Sound, EndIsExplained, clientVars
  <2>3. phase[r] \in Over /\ phase'[r] \in Over
    BY <1>1, <1>3 DEF Over
  <2> QED
    BY <1>1, <2>1, <2>2, <2>3, OverStays DEF clientVars
<1> QED
  BY <1>2, <1>3

LEMMA InterruptStep ==
    ASSUME Shape, NEW r \in Requests, Sound(r), Interrupt(r) \/ Told(r)
    PROVE  GoodStep(r) /\ UNCHANGED <<memoryVars, persona>>
<1>1. UNCHANGED <<failOpen, persona, response, verdict, clientVars, audit, memoryVars>>
  BY DEF Interrupt, Drop, Cancel, TimerFires, Told, runVars
<1>2. ASSUME GoTo(r, "abandoned"), UNCHANGED outcome PROVE GoodStep(r)
  BY <1>1, <1>2, AbandonStep
<1>3. ASSUME NEW o \in {"closed", "cancelled", "timeout"}, Leaves(r, o),
             phase[r] \notin {"telling"} \cup Ends
      PROVE  GoodStep(r)
  <2>1. o \in Outcome \ {"returned"} /\ (phase[r] \in Over => phase[r] = "closing")
    BY <1>3 DEF Outcome, Over
  <2> QED
    BY <1>1, <1>3, <2>1, LeaveStep
<1>4. ASSUME ClosesGenerator(r), phase[r] \in Yields PROVE GoodStep(r)
  BY <1>2, <1>3, <1>4 DEF ClosesGenerator, Yields, Ends
<1>5. CASE Drop(r)
  BY <1>1, <1>4, <1>5 DEF Drop
<1>6. CASE Cancel(r)
  BY <1>1, <1>3, <1>6 DEF Cancel, Awaits, Ends
<1>7. CASE TimerFires(r)
  BY <1>1, <1>3, <1>4, <1>7 DEF TimerFires, Ends
<1>8. CASE Told(r)
  <2>1. /\ phase[r] = "telling" /\ phase' = [phase EXCEPT ![r] = "ended"] /\ outcome' = outcome
    BY <1>8 DEF Told, GoTo
  <2>2. Shape' /\ OthersKeep(r) /\ phase'[r] = "ended"
    BY <1>1, <2>1 DEF Shape, OthersKeep, clientVars, Phase, Ends
  <2>3. \A e : Recorded(r, e)' <=> Recorded(r, e)
    BY <1>1 DEF Recorded
  <2>4. r \in Streams => EndIsExplained(r)'
    BY <1>1, <2>1, <2>2 DEF Sound, EndIsExplained, clientVars
  <2>5. phase[r] \in Over /\ phase'[r] \in Over
    BY <2>1, <2>2 DEF Over, Ends
  <2> QED
    BY <1>1, <2>2, <2>3, <2>4, <2>5, OverStays DEF clientVars
<1> QED
  BY <1>1, <1>5, <1>6, <1>7, <1>8 DEF Interrupt

LEMMA FinishBlockedStep ==
    ASSUME Shape, NEW r \in Requests, Sound(r), FinishBlocked(r)
    PROVE  GoodStep(r) /\ UNCHANGED <<memoryVars, persona>>
<1>1. /\ UNCHANGED <<failOpen, persona, response, verdict, released, notice, memoryVars>>
      /\ phase[r] = "blocked" /\ phase[r] \notin Over /\ notice[r] # None
      /\ audit' = [audit EXCEPT ![r] = Append(audit[r], "failed")]
      /\ Leaves(r, "returned") /\ "returned" \in Outcome
  BY DEF FinishBlocked, Records, Sound, VerdictHolds, runVars, clientVars, Over, Ends, Outcome
<1>2. /\ Append(audit[r], "failed") \in Seq(AuditEvent)
      /\ Append(audit[r], "failed") # << >>
      /\ Contains(Append(audit[r], "failed"), "succeeded") <=> Contains(audit[r], "succeeded")
  BY RecordingAdds DEF Shape, AuditEvent
<1>3. Shape' /\ OthersKeep(r) /\ phase'[r] = "closing"
  BY <1>1, <1>2, LeavesWell DEF Shape, OthersKeep
<1>4. audit'[r] = Append(audit[r], "failed")
  BY <1>1 DEF Shape
<1>5. r \in Streams => ~Recorded(r, "succeeded")'
  <2>1. r \in Streams => audit[r] = << >>
    BY <1>1 DEF Sound, AuditComesLast
  <2>2. ~Contains(<< >>, "succeeded")
    BY NothingRecorded
  <2> QED
    BY <1>2, <1>4, <2>1, <2>2 DEF Recorded
<1>6. r \in Streams => AuditComesLast(r)' /\ EndIsExplained(r)'
  BY <1>1, <1>2, <1>3, <1>4, <1>5 DEF AuditComesLast, EndIsExplained, Over
<1>7. VerdictHolds(r)' /\ ~Delivered(r)
  BY <1>1, <1>3 DEF VerdictHolds, Delivered
<1> QED
  BY <1>1, <1>3, <1>6, <1>7 DEF GoodStep, Sound

LEMMA PassesStreamStep ==
    ASSUME Shape, NEW r \in Requests, Sound(r), Passes(r), r \in Streams
    PROVE  GoodStep(r) /\ UNCHANGED <<memoryVars, persona>>
<1>1. /\ UNCHANGED <<failOpen, persona, response, notice, outcome, audit, memoryVars>>
      /\ phase[r] \notin Over
      /\ phase' = [phase EXCEPT ![r] = "releasing"]
      /\ verdict' = [verdict EXCEPT ![r] = "passed"]
      /\ released' = [released EXCEPT ![r] = 1]
  BY DEF Passes, GoTo, Over, Ends
<1>2. /\ Shape' /\ OthersKeep(r)
      /\ phase'[r] = "releasing" /\ verdict'[r] = "passed"
  BY <1>1 DEF Shape, OthersKeep, Phase, Yields
<1>3. phase'[r] \notin Over
  BY <1>2 DEF Over, Ends
<1> QED
  BY <1>1, <1>2, <1>3, QuietStep

\* w is s with the elements of t behind it.
Extends(w, s, t) ==
    /\ \A i \in 1..Len(s) : i \in 1..Len(w) /\ w[i] = s[i]
    /\ \A i \in 1..Len(w) : i \notin 1..Len(s) =>
          \E k \in 1..Len(t) : w[i] = t[k] /\ (k > 1 => i > 1 /\ w[i - 1] = t[k - 1])

LEMMA Extended ==
    ASSUME NEW S, NEW s \in Seq(S), NEW t \in Seq(S), NEW w, w = s \o t
    PROVE  Extends(w, s, t)
<1>1. /\ Len(s) \in Nat /\ Len(t) \in Nat /\ Len(w) = Len(s) + Len(t)
      /\ \A i \in 1..(Len(s) + Len(t)) : w[i] = IF i <= Len(s) THEN s[i] ELSE t[i - Len(s)]
  BY ConcatProperties, LenProperties
<1>2. \A i \in 1..Len(s) : i \in 1..Len(w) /\ w[i] = s[i]
  BY <1>1
<1>3. ASSUME NEW i \in 1..Len(w), i \notin 1..Len(s)
      PROVE  \E k \in 1..Len(t) : w[i] = t[k] /\ (k > 1 => i > 1 /\ w[i - 1] = t[k - 1])
  <2> DEFINE k == i - Len(s)
  <2>1. k \in 1..Len(t) /\ i \in 1..(Len(s) + Len(t)) /\ ~(i <= Len(s))
    BY <1>1, <1>3
  <2>2. w[i] = t[k]
    BY <1>1, <2>1
  <2>3. k > 1 => /\ i > 1 /\ i - 1 \in 1..(Len(s) + Len(t))
                 /\ ~(i - 1 <= Len(s)) /\ i - 1 - Len(s) = k - 1
    BY <1>1, <2>1
  <2>4. k > 1 => i > 1 /\ w[i - 1] = t[k - 1]
    BY <1>1, <2>3
  <2> HIDE DEF k
  <2> QED
    BY <2>1, <2>2, <2>4
<1> QED
  BY <1>2, <1>3 DEF Extends

\* What an exchange may add to the memory.
LEMMA SavedTurns ==
    ASSUME Shape, MemoryShape, NEW r \in Requests, Remembers(r), NEW kept, Persists(r, kept)
    PROVE  /\ MemoryShape'
           /\ \A c \in Conversations \ {ConversationOf[r]} :
                 turns'[c] = turns[c] /\ preference'[c] = preference[c]
           /\ preference'[ConversationOf[r]] \in {preference[ConversationOf[r]], persona[r]}
           /\ LET old == turns[ConversationOf[r]]
                  new == turns'[ConversationOf[r]]
              IN  /\ \A i \in 1..Len(old) : i \in 1..Len(new) /\ new[i] = old[i]
                  /\ \A i \in 1..Len(new) : i \notin 1..Len(old) =>
                       \/ new[i] = <<"user", r>>
                       \/ /\ "assistant" \in kept /\ new[i] = <<"assistant", r>>
                          /\ "user" \in kept => i > 1 /\ new[i - 1] = <<"user", r>>
<1> DEFINE c == ConversationOf[r]
           u == <<"user", r>>
           a == <<"assistant", r>>
<1>1. /\ c \in Conversations /\ turns[c] \in Seq(Turn) /\ persona[r] \in Personas \cup {None}
      /\ u \in Turn /\ a \in Turn
  BY HandlerAssumption DEF Remembers, MemoryShape, Shape, Turn
<1>2. /\ turns' = [turns EXCEPT ![c] = turns[c] \o (Saved("user", r, kept) \o Saved("assistant", r, kept))]
      /\ preference' = IF "persona" \in kept THEN [preference EXCEPT ![c] = persona[r]]
                                            ELSE preference
  BY DEF Persists
<1> HIDE DEF u, a, c
<1>3. /\ turns'[c] \in Seq(Turn)
      /\ turns'[c] = turns[c] \o (Saved("user", r, kept) \o Saved("assistant", r, kept))
      /\ turns' \in [Conversations -> Seq(Turn)]
      /\ preference' \in [Conversations -> Personas \cup {None}]
      /\ preference'[c] \in {preference[c], persona[r]}
      /\ \A d \in Conversations \ {c} :
            turns'[d] = turns[d] /\ preference'[d] = preference[d]
  <2>1. Saved("user", r, kept) \in Seq(Turn) /\ Saved("assistant", r, kept) \in Seq(Turn)
    BY <1>1 DEF Saved, u, a
  <2>2. turns[c] \o (Saved("user", r, kept) \o Saved("assistant", r, kept)) \in Seq(Turn)
    BY <1>1, <2>1
  <2> QED
    BY <1>1, <1>2, <2>2 DEF MemoryShape
<1>4. /\ \A i \in 1..Len(turns[c]) : i \in 1..Len(turns'[c]) /\ turns'[c][i] = turns[c][i]
      /\ \A i \in 1..Len(turns'[c]) : i \notin 1..Len(turns[c]) =>
            \/ turns'[c][i] = u
            \/ /\ "assistant" \in kept /\ turns'[c][i] = a
               /\ "user" \in kept => i > 1 /\ turns'[c][i - 1] = u
  <2> DEFINE new == Saved("user", r, kept) \o Saved("assistant", r, kept)
  <2>1. /\ new \in Seq(Turn) /\ Len(new) \in Nat /\ Len(new) <= 2
        /\ 2 \in 1..Len(new) => /\ new[1] = u /\ new[2] = a
                                /\ "assistant" \in kept /\ "user" \in kept
        /\ 2 \notin 1..Len(new) /\ 1 \in 1..Len(new) =>
              \/ new[1] = u
              \/ new[1] = a /\ "assistant" \in kept /\ "user" \notin kept
    <3>1. CASE "user" \in kept /\ "assistant" \in kept
      <4>1. new = <<u>> \o <<a>>
        BY <3>1 DEF Saved, u, a
      <4>2. <<u>> \o <<a>> \in Seq(Turn) /\ Len(<<u>> \o <<a>>) = 2
        BY <1>1
      <4>3. (<<u>> \o <<a>>)[1] = u /\ (<<u>> \o <<a>>)[2] = a
        BY <1>1
      <4> HIDE DEF new
      <4> QED
        BY <3>1, <4>1, <4>2, <4>3
    <3>2. CASE "user" \in kept /\ "assistant" \notin kept
      <4>1. new = <<u>>
        BY <1>1, <3>2 DEF Saved, u, a
      <4> HIDE DEF new
      <4> QED
        BY <1>1, <4>1
    <3>3. CASE "user" \notin kept /\ "assistant" \in kept
      <4>1. new = <<a>>
        BY <1>1, <3>3 DEF Saved, u, a
      <4> HIDE DEF new
      <4> QED
        BY <1>1, <3>3, <4>1
    <3>4. CASE "user" \notin kept /\ "assistant" \notin kept
      <4>1. new = << >>
        BY <3>4 DEF Saved
      <4> HIDE DEF new
      <4> QED
        BY <4>1
    <3> QED
      BY <3>1, <3>2, <3>3, <3>4
  <2>2. turns'[c] = turns[c] \o new
    BY <1>3
  <2> HIDE DEF new
  <2>3. Extends(turns'[c], turns[c], new)
    <3>1. turns[c] \in Seq(Turn) /\ new \in Seq(Turn)
      BY <1>1, <2>1
    <3> QED
      BY <2>2, <3>1, Extended
  <2>4. ASSUME NEW i \in 1..Len(turns'[c]), i \notin 1..Len(turns[c])
        PROVE  \/ turns'[c][i] = u
               \/ /\ "assistant" \in kept /\ turns'[c][i] = a
                  /\ "user" \in kept => i > 1 /\ turns'[c][i - 1] = u
    <3>1. PICK k \in 1..Len(new) :
             turns'[c][i] = new[k] /\ (k > 1 => i > 1 /\ turns'[c][i - 1] = new[k - 1])
      BY <2>3, <2>4 DEF Extends
    <3>2. Len(new) \in Nat /\ Len(new) <= 2
      BY <2>1
    <3>3. k = 1 \/ (k = 2 /\ k - 1 = 1)
      BY <3>2
    <3>4. CASE k = 1
      BY <2>1, <3>1, <3>4
    <3>5. CASE k = 2 /\ k - 1 = 1
      BY <2>1, <3>1, <3>5
    <3> QED
      BY <3>3, <3>4, <3>5
  <2> QED
    BY <2>3, <2>4 DEF Extends
<1> QED
  BY <1>3, <1>4 DEF MemoryShape, u, a, c

\* The end of a request whose answer was delivered.
LEMMA FinishStep ==
    ASSUME Shape, NEW r \in Requests, Sound(r), phase[r] \notin Over,
           PersistsAndSucceeds(r),
           UNCHANGED <<failOpen, persona, response, released, notice>>,
           verdict' \in [Requests -> {None, "passed", "blocked"}], verdict'[r] = "passed",
           \A q \in Requests \ {r} : verdict'[q] = verdict[q],
           r \in Streams => ReleasedAll(r)
    PROVE  /\ GoodStep(r)
           /\ Delivered(r)'
           /\ \/ UNCHANGED memoryVars
              \/ Remembers(r) /\ \E kept \in SUBSET PersistSteps(r) :
                                    MayPersist(r, kept) /\ Persists(r, kept)
<1>1. \/ Records(r, "succeeded") /\ Leaves(r, "returned")
      \/ audit' = audit /\ Leaves(r, "error")
  BY DEF PersistsAndSucceeds
<1>2. \/ UNCHANGED memoryVars
      \/ Remembers(r) /\ \E kept \in SUBSET PersistSteps(r) :
                            MayPersist(r, kept) /\ Persists(r, kept)
  BY DEF PersistsAndSucceeds
<1>3. "returned" \in Outcome /\ "error" \in Outcome
  BY DEF Outcome
<1>4. /\ Append(audit[r], "succeeded") \in Seq(AuditEvent)
      /\ Append(audit[r], "succeeded") # << >>
      /\ \A e : Contains(Append(audit[r], "succeeded"), e) <=>
                  Contains(audit[r], e) \/ "succeeded" = e
  BY RecordingAdds DEF Shape, AuditEvent
<1>5. /\ Shape' /\ OthersKeep(r) /\ phase'[r] = "closing"
      /\ \/ audit'[r] = Append(audit[r], "succeeded")
         \/ audit'[r] = audit[r] /\ outcome'[r] # "returned"
  <2>1. ASSUME NEW o \in Outcome, Leaves(r, o)
        PROVE  /\ phase' \in [Requests -> Phase] /\ outcome' \in [Requests -> Outcome]
               /\ \A q \in Requests \ {r} : phase'[q] = phase[q] /\ outcome'[q] = outcome[q]
               /\ phase'[r] = "closing" /\ outcome'[r] = o
    BY <2>1, LeavesWell
  <2>2. CASE Records(r, "succeeded") /\ Leaves(r, "returned")
    <3>1. /\ audit' \in [Requests -> Seq(AuditEvent)]
          /\ audit'[r] = Append(audit[r], "succeeded")
          /\ \A q \in Requests \ {r} : audit'[q] = audit[q]
      BY <1>4, <2>2 DEF Shape, Records
    <3> QED
      BY <1>3, <2>1, <2>2, <3>1 DEF Shape, OthersKeep
  <2>3. CASE audit' = audit /\ Leaves(r, "error")
    BY <1>3, <2>1, <2>3 DEF Shape, OthersKeep
  <2> QED
    BY <1>1, <2>2, <2>3
<1>6. phase'[r] \in Over
  BY <1>5 DEF Over
<1>7. r \in Streams => ReleasedAll(r)'
  BY DEF ReleasedAll
<1>8. Delivered(r)' /\ VerdictHolds(r)' /\ ~Delivered(r)
  BY <1>5, <1>6, <1>7 DEF Delivered, VerdictHolds
<1>9. r \in Streams => /\ ~Recorded(r, "failed")'
                       /\ outcome'[r] = "returned" =>
                            Recorded(r, "succeeded")' /\ audit'[r] # << >>
  <2>1. r \in Streams => ~Contains(audit[r], "failed")
    BY NothingRecorded DEF Sound, AuditComesLast
  <2> QED
    BY <1>4, <1>5, <2>1 DEF Recorded
<1>10. r \in Streams => AuditComesLast(r)' /\ EndIsExplained(r)'
  <2>1. r \in Streams => AuditComesLast(r)'
    BY <1>6, <1>7 DEF AuditComesLast
  <2>2. phase'[r] \notin {"ended", "telling", "raised"}
    BY <1>5
  <2>3. r \in Streams => EndIsExplained(r)'
    BY <1>9, <2>2 DEF EndIsExplained
  <2> QED
    BY <2>1, <2>3
<1> QED
  BY <1>2, <1>5, <1>8, <1>10 DEF GoodStep, Sound

----------------------------------------------------------------------------
(* The memory *)

LEMMA DeliveredStays ==
    ASSUME Shape, NEW r \in Requests, GoodStep(r), NEW q \in Requests, Delivered(q)
    PROVE  Delivered(q)'
<1>1. CASE q = r
  BY <1>1 DEF GoodStep
<1>2. CASE q # r
  BY <1>2, OthersStaySound DEF GoodStep
<1> QED
  BY <1>1, <1>2

LEMMA MemoryKept ==
    ASSUME HandlersInv, NEW r \in Requests, GoodStep(r), UNCHANGED memoryVars
    PROVE  MemoryShape' /\ AnswersWereDelivered' /\ QuestionsComeFirst'
<1>1. failOpen' = failOpen /\ turns' = turns /\ preference' = preference
  BY DEF GoodStep, OthersKeep, memoryVars
<1>2. MemoryShape' /\ QuestionsComeFirst'
  BY <1>1 DEF HandlersInv, MemoryShape, QuestionsComeFirst
<1>3. AnswersWereDelivered'
  BY <1>1, DeliveredStays DEF HandlersInv, AnswersWereDelivered
<1> QED
  BY <1>2, <1>3

LEMMA PersonaKept ==
    ASSUME PersonaWasStated, UNCHANGED <<persona, preference>>
    PROVE  PersonaWasStated'
  BY DEF PersonaWasStated, Remembers, StatedIn

LEMMA PersonaRead ==
    ASSUME HandlersInv, NEW r \in Requests, GoodStep(r), UNCHANGED preference,
           persona'[r] = persona[r] \/ persona'[r] \in PersonaReads(r)
    PROVE  PersonaWasStated'
<1>1. PersonaWasStated /\ MemoryShape
  BY DEF HandlersInv
<1>2. \A q \in Requests : Remembers(q) => ConversationOf[q] \in Conversations
  BY HandlerAssumption DEF Remembers
<1>3. ASSUME NEW q \in Requests, Remembers(q), persona'[q] # None
      PROVE  StatedIn(ConversationOf[q], persona'[q])
  <2>1. CASE persona'[q] = persona[q]
    BY <1>1, <1>3, <2>1 DEF PersonaWasStated
  <2>2. CASE q = r /\ persona'[r] \in PersonaReads(r)
    <3>1. \/ persona'[r] = Given[r]
          \/ persona'[r] = preference[ConversationOf[r]]
      BY <1>3, <2>2 DEF PersonaReads
    <3>2. CASE persona'[r] = Given[r]
      BY <2>2, <3>2 DEF StatedIn
    <3>3. CASE persona'[r] = preference[ConversationOf[r]]
      BY <1>1, <1>2, <1>3, <2>2, <3>3 DEF PersonaWasStated
    <3> QED
      BY <3>1, <3>2, <3>3
  <2> QED
    BY <2>1, <2>2 DEF GoodStep, OthersKeep
<1> QED
  BY <1>1, <1>3 DEF PersonaWasStated, Remembers, StatedIn

LEMMA ExchangeSaved ==
    ASSUME HandlersInv, NEW r \in Requests, GoodStep(r), Delivered(r)', persona' = persona,
           Remembers(r), NEW kept \in SUBSET PersistSteps(r), MayPersist(r, kept),
           Persists(r, kept)
    PROVE  MemoryShape' /\ PersonaWasStated' /\ AnswersWereDelivered' /\ QuestionsComeFirst'
<1> DEFINE c == ConversationOf[r]
<1>1. Shape /\ MemoryShape /\ failOpen' = failOpen /\ c \in Conversations
  BY HandlerAssumption DEF HandlersInv, GoodStep, OthersKeep, Remembers
<1>2. MemoryShape'
  BY <1>1, SavedTurns
<1>3. /\ \A d \in Conversations \ {c} : turns'[d] = turns[d] /\ preference'[d] = preference[d]
      /\ preference'[c] \in {preference[c], persona[r]}
      /\ \A i \in 1..Len(turns[c]) : i \in 1..Len(turns'[c]) /\ turns'[c][i] = turns[c][i]
      /\ \A i \in 1..Len(turns'[c]) : i \notin 1..Len(turns[c]) =>
            \/ turns'[c][i] = <<"user", r>>
            \/ /\ "assistant" \in kept /\ turns'[c][i] = <<"assistant", r>>
               /\ "user" \in kept => i > 1 /\ turns'[c][i - 1] = <<"user", r>>
  BY <1>1, SavedTurns
<1>4. PersonaWasStated'
  <2>1. PersonaWasStated
    BY DEF HandlersInv
  <2>2. ASSUME NEW d \in Conversations, preference'[d] # None
        PROVE  StatedIn(d, preference'[d])
    <3>1. CASE preference'[d] = preference[d]
      BY <2>1, <2>2, <3>1 DEF PersonaWasStated
    <3>2. CASE d = c /\ preference'[d] = persona[r]
      BY <2>1, <2>2, <3>2 DEF PersonaWasStated
    <3> QED
      BY <1>3, <3>1, <3>2
  <2> QED
    BY <2>1, <2>2 DEF PersonaWasStated, Remembers, StatedIn
<1>5. AnswersWereDelivered'
  <2> SUFFICES ASSUME NEW d \in Conversations, NEW i \in 1..Len(turns'[d]),
                      NEW q \in Requests, turns'[d][i] = <<"assistant", q>>
               PROVE  Delivered(q)'
    BY DEF AnswersWereDelivered
  <2>1. CASE i \in 1..Len(turns[d]) /\ turns'[d][i] = turns[d][i]
    BY <1>1, <2>1, DeliveredStays DEF HandlersInv, AnswersWereDelivered
  <2>2. CASE turns'[d][i] \in {<<"user", r>>, <<"assistant", r>>}
    BY <2>2
  <2> QED
    BY <1>3, <2>1, <2>2
<1>6. QuestionsComeFirst'
  <2> SUFFICES ASSUME ~failOpen, NEW d \in Conversations, NEW i \in 1..Len(turns'[d]),
                      NEW q \in Asking, turns'[d][i] = <<"assistant", q>>
               PROVE  i > 1 /\ turns'[d][i - 1] = <<"user", q>>
    BY <1>1 DEF QuestionsComeFirst
  <2>1. (r \in Asking /\ "assistant" \in kept) => "user" \in kept
    BY DEF MayPersist, PersistSteps
  <2>2. CASE i \in 1..Len(turns[d])
    <3>1. turns'[d][i] = turns[d][i]
      BY <1>3, <2>2
    <3>2. i > 1 /\ turns[d][i - 1] = <<"user", q>>
      BY <2>2, <3>1 DEF HandlersInv, QuestionsComeFirst
    <3>3. Len(turns[d]) \in Nat
      BY <1>1 DEF MemoryShape
    <3>4. i - 1 \in 1..Len(turns[d])
      BY <2>2, <3>2, <3>3
    <3>5. turns'[d][i - 1] = turns[d][i - 1]
      BY <1>3, <3>4
    <3> QED
      BY <3>2, <3>5
  <2>3. CASE i \notin 1..Len(turns[d])
    <3>1. d = c
      BY <1>3, <2>3
    <3>2. turns'[c][i] # <<"user", r>>
      BY <3>1
    <3>3. "assistant" \in kept /\ turns'[c][i] = <<"assistant", r>>
      BY <1>3, <2>3, <3>1, <3>2
    <3>4. q = r
      BY <3>1, <3>3
    <3>5. i > 1 /\ turns'[c][i - 1] = <<"user", r>>
      BY <1>3, <2>1, <2>3, <3>1, <3>2, <3>4
    <3> QED
      BY <3>1, <3>4, <3>5
  <2> QED
    BY <2>2, <2>3
<1> QED
  BY <1>2, <1>4, <1>5, <1>6

----------------------------------------------------------------------------
(* The invariant and what follows from it *)

LEMMA HandlersInitially == Init => HandlersInv
<1> SUFFICES ASSUME Init PROVE HandlersInv
  OBVIOUS
<1>1. Shape /\ MemoryShape
  BY DEF Init, Shape, MemoryShape, Phase, Outcome
<1>2. ASSUME NEW r \in Requests PROVE Sound(r)
  <2>1. phase[r] = "new" /\ phase[r] \notin Over /\ audit[r] = << >>
    BY DEF Init, Over, Ends
  <2>2. ~Recorded(r, "succeeded") /\ ~Recorded(r, "failed")
    BY <2>1, NothingRecorded DEF Recorded
  <2> QED
    BY <2>1, <2>2 DEF Sound, VerdictHolds, AuditComesLast, EndIsExplained
<1>3. PersonaWasStated /\ AnswersWereDelivered /\ QuestionsComeFirst
  BY DEF Init, PersonaWasStated, AnswersWereDelivered, QuestionsComeFirst
<1> QED
  BY <1>1, <1>2, <1>3 DEF HandlersInv

LEMMA GoodSteps ==
    ASSUME HandlersInv, NEW r \in Requests, GoodStep(r),
           MemoryShape', PersonaWasStated', AnswersWereDelivered', QuestionsComeFirst'
    PROVE  HandlersInv'
<1>1. \A q \in Requests : Sound(q)'
  BY OthersStaySound DEF HandlersInv, GoodStep
<1> QED
  BY <1>1 DEF HandlersInv, GoodStep

\* Most steps touch neither the memory nor a persona.
LEMMA ForgetfulSteps ==
    ASSUME HandlersInv, NEW r \in Requests, GoodStep(r), UNCHANGED <<memoryVars, persona>>
    PROVE  HandlersInv'
<1>1. MemoryShape' /\ AnswersWereDelivered' /\ QuestionsComeFirst'
  BY MemoryKept
<1>2. PersonaWasStated'
  BY PersonaKept DEF HandlersInv, memoryVars
<1> QED
  BY <1>1, <1>2, GoodSteps

LEMMA FinishesWell ==
    ASSUME Shape, NEW r \in Requests, Sound(r),
           FinishStream(r) \/ (Passes(r) /\ r \notin Streams)
    PROVE  /\ GoodStep(r) /\ Delivered(r)'
           /\ UNCHANGED <<failOpen, persona>>
           /\ \/ UNCHANGED memoryVars
              \/ Remembers(r) /\ \E kept \in SUBSET PersistSteps(r) :
                                    MayPersist(r, kept) /\ Persists(r, kept)
<1>1. /\ phase[r] \notin Over /\ PersistsAndSucceeds(r)
      /\ UNCHANGED <<failOpen, persona, response, released, notice>>
      /\ verdict' \in [Requests -> {None, "passed", "blocked"}] /\ verdict'[r] = "passed"
      /\ \A q \in Requests \ {r} : verdict'[q] = verdict[q]
      /\ r \in Streams => ReleasedAll(r)
  <2>1. CASE FinishStream(r)
    BY <2>1 DEF FinishStream, Over, Ends, runVars, clientVars, Shape, Sound, VerdictHolds
  <2>2. CASE Passes(r) /\ r \notin Streams
    BY <2>2 DEF Passes, Over, Ends, Shape
  <2> QED
    BY <2>1, <2>2
<1> QED
  BY <1>1, FinishStep

LEMMA FinishingSteps ==
    ASSUME HandlersInv, NEW r \in Requests, FinishStream(r) \/ (Passes(r) /\ r \notin Streams)
    PROVE  HandlersInv'
<1>1. Shape /\ Sound(r)
  BY DEF HandlersInv
<1>2. UNCHANGED <<failOpen, persona>>
  BY <1>1, FinishesWell
<1>3. /\ GoodStep(r)
      /\ Delivered(r)'
      /\ \/ UNCHANGED memoryVars
         \/ Remembers(r) /\ \E kept \in SUBSET PersistSteps(r) :
                               MayPersist(r, kept) /\ Persists(r, kept)
  BY <1>1, FinishesWell
<1>4. CASE UNCHANGED memoryVars
  BY <1>2, <1>3, <1>4, ForgetfulSteps
<1>5. CASE Remembers(r) /\ \E kept \in SUBSET PersistSteps(r) :
                             MayPersist(r, kept) /\ Persists(r, kept)
  <2>1. MemoryShape' /\ PersonaWasStated' /\ AnswersWereDelivered' /\ QuestionsComeFirst'
    BY <1>2, <1>3, <1>5, ExchangeSaved
  <2> QED
    BY <1>3, <2>1, GoodSteps
<1> QED
  BY <1>3, <1>4, <1>5

LEMMA HandlersStep == HandlersInv /\ [Next]_vars => HandlersInv'
<1> SUFFICES ASSUME HandlersInv, [Next]_vars PROVE HandlersInv'
  OBVIOUS
<1>1. Shape /\ MemoryShape /\ \A r \in Requests : Sound(r)
  BY DEF HandlersInv
<1>2. ASSUME NEW r \in Requests, Stage(r) PROVE HandlersInv'
  <2>1. CASE Accept(r) \/ Connect(r) \/ Execute(r)
    BY <1>1, <2>1, SuspendedStep, ForgetfulSteps
  <2>2. CASE Prepare(r)
    <3>1. /\ GoodStep(r) /\ UNCHANGED memoryVars
          /\ persona'[r] = persona[r] \/ persona'[r] \in PersonaReads(r)
      BY <1>1, <2>2, PrepareStep
    <3>2. PersonaWasStated'
      BY <3>1, PersonaRead DEF memoryVars
    <3> QED
      BY <3>1, <3>2, MemoryKept, GoodSteps
  <2>3. CASE Connected(r)
    BY <1>1, <2>3, ConnectedStep, ForgetfulSteps
  <2>4. CASE Blocks(r)
    BY <1>1, <2>4, BlocksStep, ForgetfulSteps
  <2>5. CASE Passes(r) /\ r \in Streams
    BY <1>1, <2>5, PassesStreamStep, ForgetfulSteps
  <2>6. CASE FinishStream(r) \/ (Passes(r) /\ r \notin Streams)
    BY <2>6, FinishingSteps
  <2>7. CASE Release(r)
    BY <1>1, <2>7, ReleaseStep, ForgetfulSteps
  <2>8. CASE FinishBlocked(r)
    BY <1>1, <2>8, FinishBlockedStep, ForgetfulSteps
  <2> QED
    BY <1>2, <2>1, <2>2, <2>3, <2>4, <2>5, <2>6, <2>7, <2>8 DEF Stage
<1>3. ASSUME NEW r \in Requests, Agent(r) PROVE HandlersInv'
  <2>1. GoodStep(r) /\ UNCHANGED <<memoryVars, persona>>
    BY <1>1, <1>3, AgentReturnsStep, SuspendedStep, ConnectedStep DEF Agent
  <2> QED
    BY <2>1, ForgetfulSteps
<1>4. ASSUME NEW r \in Requests, End(r) \/ Interrupt(r) PROVE HandlersInv'
  <2>1. GoodStep(r) /\ UNCHANGED <<memoryVars, persona>>
    BY <1>1, <1>4, CloseStep, CloseRaisesStep, InterruptStep DEF End
  <2> QED
    BY <2>1, ForgetfulSteps
<1>5. CASE UNCHANGED vars
  <2>1. Shape' /\ MemoryShape'
    BY <1>1, <1>5 DEF vars, runVars, clientVars, memoryVars, Shape, MemoryShape
  <2>2. ASSUME NEW r \in Requests
        PROVE  (Sound(r)' <=> Sound(r)) /\ (Delivered(r)' <=> Delivered(r))
    BY <1>5 DEF vars, runVars, clientVars, Sound, VerdictHolds, AuditComesLast, EndIsExplained,
                Recorded, ReleasedAll, Delivered
  <2>3. PersonaWasStated'
    BY <1>5, PersonaKept DEF vars, runVars, memoryVars, HandlersInv
  <2>4. AnswersWereDelivered' /\ QuestionsComeFirst'
    BY <1>5, <2>2 DEF vars, memoryVars, HandlersInv, AnswersWereDelivered, QuestionsComeFirst
  <2> QED
    BY <1>1, <2>1, <2>2, <2>3, <2>4 DEF HandlersInv
<1> QED
  BY <1>2, <1>3, <1>4, <1>5 DEF Next

LEMMA HandlersInvariant == Spec => []HandlersInv
  BY HandlersInitially, HandlersStep, PTL DEF Spec

LEMMA TurnsAreTurns ==
    ASSUME MemoryShape, NEW c \in Conversations, NEW i \in 1..Len(turns[c])
    PROVE  /\ turns[c][i][2] \in Requests
           /\ turns[c][i] = <<turns[c][i][1], turns[c][i][2]>>
<1>1. turns[c][i] \in Turn
  BY DEF MemoryShape
<1> QED
  BY <1>1 DEF Turn

\* RememberedWasReleased for every number of requests: an answer in the memory of a
\* conversation was passed by its guardrail and, when streamed, sent to the end.
THEOREM MemoryHoldsAnswersSent == Spec => []RememberedWasReleased
<1>1. HandlersInv => RememberedWasReleased
  <2> SUFFICES ASSUME HandlersInv, NEW c \in Conversations, NEW i \in 1..Len(turns[c]),
                      turns[c][i][1] = "assistant"
               PROVE  /\ verdict[turns[c][i][2]] = "passed"
                      /\ turns[c][i][2] \in Streams => ReleasedAll(turns[c][i][2])
    BY DEF RememberedWasReleased
  <2>1. turns[c][i][2] \in Requests /\ turns[c][i] = <<"assistant", turns[c][i][2]>>
    BY TurnsAreTurns DEF HandlersInv
  <2> QED
    BY <2>1 DEF HandlersInv, AnswersWereDelivered, Delivered
<1> QED
  BY <1>1, HandlersInvariant, PTL

\* MemoryIsCoherent for every number of requests: with fail_open off an answer
\* follows the question its request asked, and a remembered persona was stated in its conversation.
THEOREM MemoryStaysCoherent == Spec => []MemoryIsCoherent
<1>1. HandlersInv => MemoryIsCoherent
  <2> SUFFICES ASSUME HandlersInv PROVE MemoryIsCoherent
    OBVIOUS
  <2>1. ASSUME ~failOpen, NEW c \in Conversations, NEW i \in 1..Len(turns[c]),
               turns[c][i][1] = "assistant", turns[c][i][2] \in Asking
        PROVE  i > 1 /\ turns[c][i - 1] = <<"user", turns[c][i][2]>>
    <3>1. turns[c][i][2] \in Requests /\ turns[c][i] = <<"assistant", turns[c][i][2]>>
      BY <2>1, TurnsAreTurns DEF HandlersInv
    <3> QED
      BY <2>1, <3>1 DEF HandlersInv, QuestionsComeFirst
  <2>2. \A c \in Conversations : preference[c] # None =>
           \E r \in Requests : ConversationOf[r] = c /\ Given[r] = preference[c]
    BY DEF HandlersInv, PersonaWasStated, StatedIn
  <2> QED
    BY <2>1, <2>2 DEF MemoryIsCoherent
<1> QED
  BY <1>1, HandlersInvariant, PTL

\* AuditAgreesWithClient for every number of requests: what is recorded of a stream
\* is what its client was sent, whatever interrupted it.
THEOREM AuditTellsTheTruth == Spec => []AuditAgreesWithClient
<1>1. HandlersInv => AuditAgreesWithClient
  <2> SUFFICES ASSUME HandlersInv, NEW r \in Streams
               PROVE  /\ Recorded(r, "succeeded") => ReleasedAll(r)
                      /\ phase[r] = "ended" => /\ audit[r] # << >>
                                               /\ Recorded(r, "failed") => notice[r] # None
                                               /\ notice[r] = None => Recorded(r, "succeeded")
                      /\ phase[r] = "raised" => audit[r] # << >>
    BY DEF AuditAgreesWithClient
  <2>1. AuditComesLast(r) /\ EndIsExplained(r)
    BY HandlerAssumption DEF HandlersInv, Sound
  <2> QED
    BY <2>1 DEF AuditComesLast, EndIsExplained
<1> QED
  BY <1>1, HandlersInvariant, PTL

----------------------------------------------------------------------------
(* No answer without a verdict *)

\* A verdict belongs to the response the handler has, and is not taken back; what
\* leaves the handler has one.  Only a stream is told something else.
AnswerIsChecked(r) ==
    /\ phase[r] = "finalizing" => response[r] \in Responses
    /\ verdict[r] = "passed" =>
          /\ response[r] \in Responses /\ ~IsBlocked(r, response[r])
          /\ phase[r] \in {"releasing"} \cup Over
    /\ r \in Streams /\ released[r] > 0 => verdict[r] = "passed"
    /\ r \notin Streams =>
          /\ phase[r] \notin {"blocked", "releasing", "telling"} /\ outcome[r] # "timeout"
          /\ phase[r] = "ended" \/ (phase[r] = "closing" /\ outcome[r] = "returned") =>
                verdict[r] = "passed"

AnswersInv == HandlersInv /\ \A r \in Requests : AnswerIsChecked(r)

\* What r has of its answer stays as it is.
AnswerKept(r) ==
    response'[r] = response[r] /\ verdict'[r] = verdict[r] /\ released'[r] = released[r]

\* A request that is over stays over, and an invocation ends with an answer only
\* if that was passed.
LEMMA CheckKept ==
    ASSUME NEW r \in Requests, AnswerIsChecked(r), AnswerKept(r), phase'[r] # "finalizing",
           phase[r] \in {"releasing"} \cup Over => phase'[r] \in {"releasing"} \cup Over,
           r \notin Streams =>
              /\ phase'[r] \notin {"blocked", "releasing", "telling"}
              /\ outcome'[r] # "timeout"
              /\ phase'[r] = "ended" \/ (phase'[r] = "closing" /\ outcome'[r] = "returned") =>
                    verdict[r] = "passed"
    PROVE  AnswerIsChecked(r)'
  BY DEF AnswerIsChecked, AnswerKept

\* Leaving the try block for any reason but an answer.
LEMMA LeavingIsChecked ==
    ASSUME Shape, NEW r \in Requests, AnswerIsChecked(r), AnswerKept(r),
           NEW o \in Outcome \ {"returned"}, Leaves(r, o), o = "timeout" => r \in Streams
    PROVE  AnswerIsChecked(r)'
<1>1. phase'[r] = "closing" /\ outcome'[r] = o
  BY LeavesWell
<1>2. phase'[r] \in {"releasing"} \cup Over
  BY <1>1 DEF Over
<1> QED
  BY <1>1, <1>2, CheckKept

\* Going from one suspension to another, neither of which is the end.
LEMMA GoingOnIsChecked ==
    ASSUME Shape, NEW r \in Requests, AnswerIsChecked(r), AnswerKept(r),
           NEW ph \in {"accepted", "prepared", "connecting", "executing", "running", "raised",
                       "abandoned"},
           GoTo(r, ph), UNCHANGED outcome,
           phase[r] \in {"releasing"} \cup Over => ph \in Over
    PROVE  AnswerIsChecked(r)'
<1>1. phase'[r] = ph
  BY DEF GoTo, Shape
<1>2. r \notin Streams => outcome'[r] # "timeout"
  BY DEF AnswerIsChecked
<1> QED
  BY <1>1, <1>2, CheckKept

\* The except clauses: those of an invocation raise.
LEMMA HandlingIsChecked ==
    ASSUME Shape, NEW r \in Requests, AnswerIsChecked(r), AnswerKept(r), UNCHANGED outcome,
           NEW o, Handles(r, o), o = "timeout" => r \in Streams,
           o = "returned" /\ r \notin Streams => verdict[r] = "passed"
    PROVE  AnswerIsChecked(r)'
<1>1. /\ phase'[r] \in {"ended", "telling", "raised", "abandoned"}
      /\ phase'[r] = "ended" => o = "returned"
      /\ phase'[r] = "telling" => r \in Streams
  BY DEF Handles, GoTo, Shape
<1>2. r \notin Streams => outcome'[r] # "timeout"
  BY DEF AnswerIsChecked
<1>3. phase'[r] \in Over /\ phase'[r] # "finalizing"
  BY <1>1 DEF Over, Ends
<1> QED
  BY <1>1, <1>2, <1>3, CheckKept

LEMMA StagesAreChecked ==
    ASSUME Shape, NEW r \in Requests, AnswerIsChecked(r),
           Accept(r) \/ Prepare(r) \/ Connect(r) \/ Connected(r) \/ Execute(r)
    PROVE  AnswerIsChecked(r)'
<1>1. AnswerKept(r)
  BY DEF Accept, Prepare, Connect, Connected, Execute, AnswerKept, runVars, clientVars
<1>2. phase[r] \notin {"releasing"} \cup Over
  BY DEF Accept, Prepare, Connect, Connected, Execute, Over, Ends
<1>3. CASE Accept(r) \/ Connect(r) \/ Execute(r)
  BY <1>1, <1>2, <1>3, GoingOnIsChecked DEF Accept, Connect, Execute
<1>4. CASE Connected(r)
  <2>1. \/ \E ph \in {"executing", "running"} : GoTo(r, ph) /\ UNCHANGED outcome
        \/ Leaves(r, "error")
    BY <1>4 DEF Connected
  <2>2. CASE Leaves(r, "error")
    BY <1>1, <2>2, LeavingIsChecked DEF Outcome
  <2> QED
    BY <1>1, <1>2, <2>1, <2>2, GoingOnIsChecked
<1>5. CASE Prepare(r)
  <2>1. /\ UNCHANGED outcome
        /\ \/ \E o \in {"user_error", "error"} : PrepareFails(r, o)
           \/ \E ph \in {"prepared", "connecting"} : GoTo(r, ph)
    BY <1>5 DEF Prepare
  <2>2. ASSUME NEW o \in {"user_error", "error"}, PrepareFails(r, o) PROVE AnswerIsChecked(r)'
    <3>1. CASE r \in Streams
      <4>1. Handles(r, o)
        BY <2>2, <3>1 DEF PrepareFails
      <4> QED
        BY <1>1, <2>1, <4>1, HandlingIsChecked
    <3>2. CASE r \notin Streams
      BY <1>1, <1>2, <2>1, <2>2, <3>2, GoingOnIsChecked DEF PrepareFails
    <3> QED
      BY <3>1, <3>2
  <2> QED
    BY <1>1, <1>2, <2>1, <2>2, GoingOnIsChecked
<1> QED
  BY <1>3, <1>4, <1>5

LEMMA AgentIsChecked ==
    ASSUME Shape, NEW r \in Requests, AnswerIsChecked(r), Agent(r)
    PROVE  AnswerIsChecked(r)'
<1>1. CASE AgentReturns(r)
  <2>1. /\ phase[r] = "running" /\ phase'[r] = "finalizing" /\ response'[r] \in Responses
        /\ verdict'[r] = verdict[r] /\ released'[r] = released[r] /\ outcome'[r] = outcome[r]
    BY <1>1 DEF AgentReturns, GoTo, Shape, clientVars
  <2>2. verdict[r] # "passed"
    BY <2>1 DEF AnswerIsChecked, Over, Ends
  <2> QED
    BY <2>1, <2>2 DEF AnswerIsChecked
<1>2. CASE AgentRetries(r)
  BY <1>2, CheckKept DEF AgentRetries, AnswerIsChecked, AnswerKept, clientVars
<1>3. CASE AgentFails(r)
  <2>1. AnswerKept(r) /\ \E o \in {"user_error", "error"} : Leaves(r, o)
    BY <1>3 DEF AgentFails, AnswerKept, runVars, clientVars
  <2> QED
    BY <2>1, LeavingIsChecked DEF Outcome
<1> QED
  BY <1>1, <1>2, <1>3 DEF Agent

LEMMA BlocksIsChecked ==
    ASSUME Shape, NEW r \in Requests, AnswerIsChecked(r), Blocks(r)
    PROVE  AnswerIsChecked(r)'
<1>1. /\ phase[r] = "finalizing" /\ verdict'[r] = "blocked"
      /\ released'[r] = released[r] /\ response'[r] = response[r]
      /\ \/ r \in Streams /\ phase'[r] = "blocked"
         \/ r \notin Streams /\ Leaves(r, "user_error")
  BY DEF Blocks, GoTo, Shape
<1>2. verdict[r] # "passed"
  BY <1>1 DEF AnswerIsChecked, Over, Ends
<1>3. ~(r \in Streams /\ released[r] > 0)
  BY <1>2 DEF AnswerIsChecked
<1>4. r \notin Streams => phase'[r] = "closing" /\ outcome'[r] = "user_error"
  BY <1>1, LeavesWell DEF Outcome
<1> QED
  BY <1>1, <1>3, <1>4 DEF AnswerIsChecked

LEMMA PassesIsChecked ==
    ASSUME Shape, NEW r \in Requests, AnswerIsChecked(r), Passes(r)
    PROVE  AnswerIsChecked(r)'
<1>1. /\ phase[r] = "finalizing" /\ verdict'[r] = "passed" /\ response'[r] = response[r]
      /\ ~IsBlocked(r, response[r])
      /\ \/ r \in Streams /\ phase'[r] = "releasing"
         \/ r \notin Streams /\ PersistsAndSucceeds(r)
  BY DEF Passes, GoTo, Shape
<1>2. response[r] \in Responses
  BY <1>1 DEF AnswerIsChecked
<1>3. r \notin Streams => phase'[r] = "closing" /\ outcome'[r] # "timeout"
  <2>1. ASSUME r \notin Streams PROVE \E o \in {"returned", "error"} : Leaves(r, o)
    BY <1>1, <2>1 DEF PersistsAndSucceeds
  <2> QED
    BY <2>1, LeavesWell DEF Outcome
<1> QED
  BY <1>1, <1>2, <1>3 DEF AnswerIsChecked, Over

LEMMA StreamIsChecked ==
    ASSUME Shape, NEW r \in Requests, Sound(r), AnswerIsChecked(r),
           Release(r) \/ FinishStream(r) \/ FinishBlocked(r)
    PROVE  AnswerIsChecked(r)'
<1>1. r \in Streams
  BY DEF Release, FinishStream, FinishBlocked, AnswerIsChecked
<1>2. response'[r] = response[r] /\ verdict'[r] = verdict[r]
  BY DEF Release, FinishStream, FinishBlocked, runVars
<1>3. CASE Release(r)
  <2>1. verdict[r] = "passed" /\ phase'[r] = "releasing"
    BY <1>3 DEF Release, Sound, VerdictHolds
  <2> QED
    BY <1>1, <1>2, <2>1 DEF AnswerIsChecked
<1>4. CASE FinishStream(r) \/ FinishBlocked(r)
  <2>1. released'[r] = released[r] /\ \E o \in {"returned", "error"} : Leaves(r, o)
    BY <1>4 DEF FinishStream, FinishBlocked, PersistsAndSucceeds, clientVars
  <2>2. phase'[r] = "closing"
    BY <2>1, LeavesWell DEF Outcome
  <2> QED
    BY <1>1, <1>2, <2>1, <2>2 DEF AnswerIsChecked, Over
<1> QED
  BY <1>3, <1>4

LEMMA EndIsChecked ==
    ASSUME Shape, NEW r \in Requests, AnswerIsChecked(r), End(r)
    PROVE  AnswerIsChecked(r)'
<1>1. AnswerKept(r) /\ UNCHANGED outcome
  BY DEF End, Close, CloseRaises, Told, AnswerKept, runVars, clientVars
<1>2. CASE Close(r)
  <2>1. Handles(r, outcome[r]) /\ phase[r] = "closing"
    BY <1>2 DEF Close
  <2>2. r \notin Streams => outcome[r] # "timeout" /\ (outcome[r] = "returned" => verdict[r] = "passed")
    BY <2>1 DEF AnswerIsChecked
  <2> QED
    BY <1>1, <2>1, <2>2, HandlingIsChecked
<1>3. CASE CloseRaises(r)
  <2>1. Handles(r, "error") \/ (phase[r] = "closing" /\ GoTo(r, "abandoned"))
    BY <1>3 DEF CloseRaises
  <2>2. CASE Handles(r, "error")
    BY <1>1, <2>2, HandlingIsChecked
  <2>3. CASE phase[r] = "closing" /\ GoTo(r, "abandoned")
    BY <1>1, <2>3, GoingOnIsChecked DEF Over, Ends
  <2> QED
    BY <2>1, <2>2, <2>3
<1>4. CASE Told(r)
  <2>1. phase[r] = "telling" /\ phase'[r] = "ended"
    BY <1>4 DEF Told, GoTo, Shape
  <2>2. r \in Streams
    BY <2>1 DEF AnswerIsChecked
  <2> QED
    BY <1>1, <2>1, <2>2, CheckKept DEF Over, Ends
<1> QED
  BY <1>2, <1>3, <1>4 DEF End

LEMMA InterruptIsChecked ==
    ASSUME Shape, NEW r \in Requests, AnswerIsChecked(r), Interrupt(r)
    PROVE  AnswerIsChecked(r)'
<1>1. AnswerKept(r)
  BY DEF Interrupt, Drop, Cancel, TimerFires, AnswerKept, runVars, clientVars
<1>2. \/ \E o \in {"closed", "cancelled"} : Leaves(r, o)
      \/ r \in Streams /\ Leaves(r, "timeout")
      \/ GoTo(r, "abandoned") /\ UNCHANGED outcome
  BY DEF Interrupt, Drop, Cancel, TimerFires, ClosesGenerator
<1>3. CASE \E o \in {"closed", "cancelled"} : Leaves(r, o)
  BY <1>1, <1>3, LeavingIsChecked DEF Outcome
<1>4. CASE r \in Streams /\ Leaves(r, "timeout")
  BY <1>1, <1>4, LeavingIsChecked DEF Outcome
<1>5. CASE GoTo(r, "abandoned") /\ UNCHANGED outcome
  BY <1>1, <1>5, GoingOnIsChecked DEF Over, Ends
<1> QED
  BY <1>2, <1>3, <1>4, <1>5

LEMMA StepsAreGood ==
    ASSUME Shape, MemoryShape, NEW r \in Requests, Sound(r),
           Stage(r) \/ Agent(r) \/ End(r) \/ Interrupt(r)
    PROVE  GoodStep(r)
<1>1. CASE Stage(r)
  <2>1. CASE Prepare(r)
    BY <2>1, PrepareStep
  <2>2. CASE FinishStream(r) \/ (Passes(r) /\ r \notin Streams)
    BY <2>2, FinishesWell
  <2>3. CASE Passes(r) /\ r \in Streams
    BY <2>3, PassesStreamStep
  <2> QED
    BY <1>1, <2>1, <2>2, <2>3, SuspendedStep, ConnectedStep, BlocksStep, ReleaseStep,
       FinishBlockedStep DEF Stage
<1>2. CASE Agent(r)
  BY <1>2, AgentReturnsStep, SuspendedStep, ConnectedStep DEF Agent
<1>3. CASE End(r) \/ Interrupt(r)
  BY <1>3, CloseStep, CloseRaisesStep, InterruptStep DEF End
<1> QED
  BY <1>1, <1>2, <1>3

\* The answers of the others are not touched.
LEMMA OthersStayChecked ==
    ASSUME HandlersInv, NEW r \in Requests,
           Stage(r) \/ Agent(r) \/ End(r) \/ Interrupt(r), NEW q \in Requests \ {r}
    PROVE  AnswerIsChecked(q) => AnswerIsChecked(q)'
<1>1. Shape /\ MemoryShape /\ \A p \in Requests : Sound(p)
  BY DEF HandlersInv
<1>2. OthersKeep(r)
  BY <1>1, StepsAreGood DEF GoodStep
<1> QED
  BY <1>2 DEF OthersKeep, AnswerIsChecked

LEMMA AnswersInitially == Init => AnswersInv
<1>1. ASSUME Init, NEW r \in Requests PROVE AnswerIsChecked(r)
  BY <1>1, HandlerAssumption DEF Init, AnswerIsChecked, Notices
<1> QED
  BY <1>1, HandlersInitially DEF AnswersInv

LEMMA AnswersStep == AnswersInv /\ [Next]_vars => AnswersInv'
<1> SUFFICES ASSUME AnswersInv, [Next]_vars PROVE AnswersInv'
  OBVIOUS
<1>1. HandlersInv /\ HandlersInv' /\ Shape /\ \A q \in Requests : Sound(q) /\ AnswerIsChecked(q)
  BY HandlersStep DEF AnswersInv, HandlersInv
<1>2. ASSUME NEW r \in Requests, Stage(r) \/ Agent(r) \/ End(r) \/ Interrupt(r)
      PROVE  AnswersInv'
  <2>1. AnswerIsChecked(r)'
    <3>1. CASE Stage(r)
      BY <1>1, <3>1, StagesAreChecked, BlocksIsChecked, PassesIsChecked, StreamIsChecked DEF Stage
    <3> QED
      BY <1>1, <1>2, <3>1, AgentIsChecked, EndIsChecked, InterruptIsChecked
  <2>2. \A q \in Requests \ {r} : AnswerIsChecked(q)'
    BY <1>1, <1>2, OthersStayChecked
  <2> QED
    BY <1>1, <2>1, <2>2 DEF AnswersInv
<1>3. CASE UNCHANGED vars
  <2>1. \A q \in Requests : AnswerIsChecked(q)'
    BY <1>1, <1>3 DEF vars, runVars, clientVars, AnswerIsChecked
  <2> QED
    BY <1>1, <2>1 DEF AnswersInv
<1> QED
  BY <1>2, <1>3 DEF Next

----------------------------------------------------------------------------
(* What the guardrail sees of an answer that fits the budget *)

Text == Chunk \cup {"source", "approval", "governance"}

LEMMA JoinedContains ==
    ASSUME NEW S, NEW s \in Seq(S), NEW t \in Seq(S), NEW x, Contains(s, x)
    PROVE  Contains(s \o t, x)
<1>1. PICK i \in 1..Len(s) : s[i] = x
  BY DEF Contains
<1>2. i \in 1..Len(s \o t) /\ (s \o t)[i] = x
  BY <1>1
<1> QED
  BY <1>2 DEF Contains

\* The events of one message.
EventsOf(m) == [j \in 1..Len(m) |-> <<m[j]>>] \o <<m>>

LEMMA EventsOfMessage ==
    ASSUME NEW m \in Seq(Chunk)
    PROVE  /\ EventsOf(m) \in Seq(Seq(Text))
           /\ Contains(EventsOf(m), m)
<1>1. m \in Seq(Text)
  BY DEF Text
<1> DEFINE deltas == [j \in 1..Len(m) |-> <<m[j]>>]
<1>2. deltas \in Seq(Seq(Text)) /\ Len(deltas) = Len(m) /\ Len(m) \in Nat
  <2>1. \A j \in 1..Len(m) : <<m[j]>> \in Seq(Text)
    BY <1>1
  <2> QED
    BY <2>1
<1> HIDE DEF deltas
<1>3. <<m>> \in Seq(Seq(Text))
  BY <1>1
<1>4. deltas \o <<m>> \in Seq(Seq(Text))
  BY <1>2, <1>3
<1>5. Len(m) + 1 \in 1..Len(deltas \o <<m>>) /\ (deltas \o <<m>>)[Len(m) + 1] = m
  BY <1>1, <1>2, <1>3
<1> QED
  BY <1>4, <1>5 DEF EventsOf, deltas, Contains

LEMMA FlaggedIsSeen ==
    ASSUME NEW r \in Requests, NEW resp \in Responses, Fits(FullText(r, resp)), IsFlagged(resp)
    PROVE  IsBlocked(r, resp)
<1> DEFINE ms == resp.messages
           body == IF r \in Streams THEN StreamEvents(resp) ELSE ms
<1>1. ms \in Seq(Seq(Chunk)) /\ resp \in Response
  BY HandlerAssumption DEF Response
<1> HIDE DEF ms
<1>2. PICK i \in 1..Len(ms) : Contains(ms[i], "flagged")
  BY <1>1, FlattenContains DEF IsFlagged, ms
<1>3. body \in Seq(Seq(Text)) /\ \E k \in 1..Len(body) : Contains(body[k], "flagged")
  <2>1. CASE r \notin Streams
    BY <1>1, <1>2, <2>1 DEF Text
  <2>2. CASE r \in Streams
    <3> DEFINE es == [n \in 1..Len(ms) |-> EventsOf(ms[n])]
    <3>1. \A n \in 1..Len(ms) : ms[n] \in Seq(Chunk)
      BY <1>1
    <3>2. es \in Seq(Seq(Seq(Text))) /\ Len(es) = Len(ms)
      <4>1. \A n \in 1..Len(ms) : EventsOf(ms[n]) \in Seq(Seq(Text))
        BY <3>1, EventsOfMessage
      <4>2. Len(ms) \in Nat
        BY <1>1
      <4> QED
        BY <4>1, <4>2
    <3>3. es[i] = EventsOf(ms[i])
      OBVIOUS
    <3>4. StreamEvents(resp) = FlattenSeq(es)
      BY DEF StreamEvents, EventsOf, ms
    <3> HIDE DEF es
    <3>5. Contains(es[i], ms[i])
      BY <3>1, <3>3, EventsOfMessage
    <3>6. Contains(FlattenSeq(es), ms[i]) /\ FlattenSeq(es) \in Seq(Seq(Text))
      BY <1>2, <3>2, <3>5, FlattenContains, FlattenPlaces
    <3>7. PICK k \in 1..Len(FlattenSeq(es)) : FlattenSeq(es)[k] = ms[i]
      BY <3>6 DEF Contains
    <3> QED
      BY <1>2, <2>2, <3>4, <3>6, <3>7
  <2> QED
    BY <2>1, <2>2
<1> HIDE DEF body
<1>4. Contains(FlattenSeq(body), "flagged") /\ FlattenSeq(body) \in Seq(Text)
  BY <1>3, FlattenContains, FlattenPlaces
<1>s. <<"source">> \in Seq(Text) /\ <<"approval">> \in Seq(Text) /\ << >> \in Seq(Text)
  BY DEF Text
<1>5. Footers(resp) \in Seq(Text)
  BY <1>s DEF Footers
<1>6. FullText(r, resp) = FlattenSeq(body) \o Footers(resp)
  BY DEF FullText, body, ms
<1>7. Contains(FullText(r, resp), "flagged") /\ FullText(r, resp) \in Seq(Text)
  BY <1>4, <1>5, <1>6, JoinedContains
<1>8. \/ CheckedText(r, resp) = FullText(r, resp)
      \/ CheckedText(r, resp) = FullText(r, resp) \o <<"source">>
  BY <1>7 DEF CheckedText, Truncated
<1> QED
  BY <1>7, <1>8, <1>s, JoinedContains DEF IsBlocked

\* GuardedRelease for every number of requests: no text of an answer leaves the
\* backend before its guardrail has passed it, and nothing flagged does if the
\* guardrail saw the whole answer.
THEOREM AnswersAreGuarded == Spec => []GuardedRelease
<1>1. AnswersInv => GuardedRelease
  <2> SUFFICES ASSUME AnswersInv, NEW r \in Requests, HasAnswer(r)
               PROVE  /\ verdict[r] = "passed"
                      /\ Fits(FullText(r, response[r])) => ~IsFlagged(response[r])
    BY DEF GuardedRelease
  <2>1. AnswerIsChecked(r)
    BY DEF AnswersInv
  <2>2. verdict[r] = "passed"
    BY <2>1 DEF AnswerIsChecked, HasAnswer
  <2>3. response[r] \in Responses /\ ~IsBlocked(r, response[r])
    BY <2>1, <2>2 DEF AnswerIsChecked
  <2> QED
    BY <2>2, <2>3, FlaggedIsSeen
<1>2. Spec => []AnswersInv
  BY AnswersInitially, AnswersStep, PTL DEF Spec
<1> QED
  BY <1>1, <1>2, PTL
=============================================================================
