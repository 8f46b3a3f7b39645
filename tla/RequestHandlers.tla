-------------------------- MODULE RequestHandlers --------------------------
(***************************************************************************)
(* invoke_handler and stream_handler (api/invocations.py) over the         *)
(* conversation memory (infrastructure/persistence/memory.py): the stages  *)
(* of a request, what its client receives and when, what is remembered,    *)
(* and which lifecycle events are published.  A phase is an await or a     *)
(* yield at which a handler is suspended; an action is the code from one   *)
(* to the next.  Text is a sequence of chunks; the bus of the lifecycle    *)
(* events is fail-open, so publish() does not raise.                       *)
(***************************************************************************)
EXTENDS Integers, Sequences, SequencesExt

CONSTANTS Requests,        \* requests of one application process
          Streams,         \* those that stream_handler serves
          Conversations,   \* conversation ids
          ConversationOf,  \* the conversation of each request, or None
          Personas,        \* persona names
          Given,           \* the persona each request states, or None
          Asking,          \* the requests whose latest user message is not empty
          Responses,       \* what a run of the agent may produce
          Budget,          \* max_response_chars, in chunks
          Retries,         \* _TRANSIENT_RETRIES
          None             \* Python's None

\* "flagged" stands for text that an unsafe or low-confidence pattern matches.
Chunk == {"plain", "flagged"}

\* The assistant messages of a run (there may be none, and they may be empty),
\* whether governed subagents took part (the answer needs a source), and whether one
\* of them requires a manager's approval.
Response == [messages : Seq(Seq(Chunk)),
             governed : BOOLEAN, pending : BOOLEAN]

\* What a stream tells its client instead of an answer.
Notices == {"blocked", "timeout", "error"}

ASSUME HandlerAssumption ==
    /\ Streams \subseteq Requests
    /\ ConversationOf \in [Requests -> Conversations \cup {None}]
    /\ Asking \subseteq Requests
    /\ Given \in [Requests -> Personas \cup {None}]
    /\ Responses \subseteq Response
    /\ Budget \in Nat \ {0}
    /\ Retries \in Nat
    /\ None \notin Conversations \cup Personas \cup Responses
    /\ None \notin Notices \cup {"passed"}

VARIABLES failOpen,    \* memory_fail_open
          phase,       \* where each handler is suspended, or how it ended
          persona,     \* the persona each request runs with
          runs,        \* how often the agent was run for each request
          response,    \* the response of its last run, or None
          verdict,     \* what the output guardrail said of it
          released,    \* how many events of the answer the client was sent
          notice,      \* the explanation the client was sent instead, or after
          outcome,     \* why the handler leaves its try block
          audit,       \* request.*.succeeded, failed and client_disconnected
          expired,     \* history: the requests whose timer has fired
          turns,       \* agent_conversations
          preference   \* agent_preferences

runVars == <<persona, runs, response, verdict>>
clientVars == <<released, notice>>
memoryVars == <<turns, preference>>
vars == <<failOpen, phase, runVars, clientVars, outcome, audit, expired, memoryVars>>

\* The yields and the awaits of the handlers, and how they end.
Yields == {"accepted", "prepared", "executing", "finalizing", "releasing", "blocked", "telling"}
Awaits == {"connecting", "running", "closing"}
Ends == {"ended", "raised", "abandoned"}
Phase == {"new"} \cup Yields \cup Awaits \cup Ends

Outcome == {None, "returned", "timeout", "cancelled", "user_error", "error", "closed"}

Turn == {"user", "assistant"} \X Requests
AuditEvent == {"succeeded", "failed", "client_disconnected"}

TypeOK ==
    /\ failOpen \in BOOLEAN
    /\ phase \in [Requests -> Phase]
    /\ \A r \in Requests \ Streams : phase[r] \notin Yields \ {"finalizing"}
    /\ persona \in [Requests -> Personas \cup {None}]
    /\ runs \in [Requests -> 0..(Retries + 1)]
    /\ response \in [Requests -> Responses \cup {None}]
    /\ verdict \in [Requests -> {None, "passed", "blocked"}]
    /\ released \in [Requests -> Nat]
    /\ notice \in [Requests -> Notices \cup {None}]
    /\ outcome \in [Requests -> Outcome]
    /\ audit \in [Requests -> Seq(AuditEvent)]
    /\ expired \subseteq Streams
    /\ turns \in [Conversations -> Seq(Turn)]
    /\ preference \in [Conversations -> Personas \cup {None}]

Init ==
    /\ failOpen \in BOOLEAN
    /\ phase = [r \in Requests |-> "new"]
    /\ persona = [r \in Requests |-> None]
    /\ runs = [r \in Requests |-> 0]
    /\ response = [r \in Requests |-> None]
    /\ verdict = [r \in Requests |-> None]
    /\ released = [r \in Requests |-> 0]
    /\ notice = [r \in Requests |-> None]
    /\ outcome = [r \in Requests |-> None]
    /\ audit = [r \in Requests |-> << >>]
    /\ expired = {}
    /\ turns = [c \in Conversations |-> << >>]
    /\ preference = [c \in Conversations |-> None]

----------------------------------------------------------------------------
(* The text of a response *)

\* The buffered events of a streamed run: the deltas of each message, and the
\* finished item, which repeats its text.
StreamEvents(resp) ==
    FlattenSeq([i \in 1..Len(resp.messages) |->
        LET m == resp.messages[i] IN [j \in 1..Len(m) |-> <<m[j]>>] \o <<m>>])

\* What a stream yields once its guardrail has passed: every buffered event, the
\* governance envelope and the source, but not the approval message.
StreamAnswer(resp) ==
    StreamEvents(resp) \o << <<"governance">> >>
        \o (IF resp.governed THEN << <<"source">> >> ELSE << >>)

Footers(resp) == (IF resp.governed THEN <<"source">> ELSE << >>)
                      \o (IF resp.pending THEN <<"approval">> ELSE << >>)

\* The text a guardrail would have to look at in full.
FullText(r, resp) ==
    FlattenSeq(IF r \in Streams THEN StreamEvents(resp) ELSE resp.messages) \o Footers(resp)

Fits(text) == Len(text) <= Budget

Truncated(text) == IF Fits(text) THEN text ELSE SubSeq(text, 1, Budget - 1) \o <<"marker">>

\* The text the guardrail looks at.  If the budget cut its source off it gets one
\* more suffix, and a stream then joins its parts again, which were not cut.
CheckedText(r, resp) ==
    LET text == Truncated(FullText(r, resp)) IN
    IF resp.governed /\ ~Contains(text, "source")
      THEN Append(IF r \in Streams THEN FullText(r, resp) ELSE text, "source")
      ELSE text

\* A mutant of IsBlocked: the guardrail only looks at the first chunk.
IsBlockedAtStart(r, resp) ==
    LET text == CheckedText(r, resp) IN text # << >> /\ Head(text) = "flagged"

IsBlocked(r, resp) == Contains(CheckedText(r, resp), "flagged")

\* The items of an invocation before they are cut: the suffixes are appended to the
\* last message; without any, only the approval message becomes an item.
InvokeItems(resp) ==
    IF resp.messages = << >>
      THEN IF resp.pending THEN << <<"approval">> >> ELSE << >>
      ELSE Append(Front(resp.messages), Last(resp.messages) \o Footers(resp))

\* What invoke returns: only the last item is cut, or given its source again.
InvokeAnswer(r, resp) ==
    LET items == InvokeItems(resp)
        cut == IF Fits(FullText(r, resp)) THEN Last(items) ELSE Truncated(Last(items))
        lacksSource == resp.governed /\ ~Contains(Truncated(FullText(r, resp)), "source")
    IN  IF items = << >> THEN << >>
        ELSE FlattenSeq(Front(items)) \o cut \o (IF lacksSource THEN <<"source">> ELSE << >>)

\* The answer that is to be remembered is not "": all the text and the source of a
\* stream, the last item of an invocation.
HasText(r, resp) ==
    IF r \in Streams THEN resp.governed \/ FlattenSeq(StreamEvents(resp)) # << >>
                     ELSE InvokeItems(resp) # << >> /\ Last(InvokeItems(resp)) # << >>

----------------------------------------------------------------------------
(* Leaving a handler *)

GoTo(r, ph) == phase' = [phase EXCEPT ![r] = ph]
Records(r, event) == audit' = [audit EXCEPT ![r] = Append(@, event)]
Tells(r, text) == notice' = [notice EXCEPT ![r] = text]

\* The except clauses around the body, by the reason o it was left for.
Handles(r, o) ==
    \/ /\ o = "returned"
       /\ GoTo(r, "ended")
       /\ UNCHANGED <<audit, notice>>
    \/ /\ o = "timeout"
       /\ Records(r, "failed") /\ Tells(r, "timeout") /\ GoTo(r, "telling")
    \/ /\ o = "cancelled"
       /\ IF r \in Streams THEN Records(r, "client_disconnected") ELSE UNCHANGED audit
       /\ GoTo(r, "raised")
       /\ UNCHANGED notice
    \/ /\ o = "user_error"
       /\ Records(r, "failed")
       /\ GoTo(r, "raised")
       /\ UNCHANGED notice
    \/ /\ o = "error"
       /\ Records(r, "failed")
       /\ IF r \in Streams
            THEN Tells(r, "error") /\ GoTo(r, "telling")
            ELSE GoTo(r, "raised") /\ UNCHANGED notice
    \/ /\ o = "closed"
       /\ GoTo(r, "abandoned")
       /\ UNCHANGED <<audit, notice>>

\* Leaving the AsyncExitStack, which first closes the MCP servers.
Leaves(r, o) ==
    /\ outcome' = [outcome EXCEPT ![r] = o]
    /\ GoTo(r, "closing")

\* _execute_*_stage runs the agent once more.
RunsAgain(r) == runs' = [runs EXCEPT ![r] = @ + 1]

----------------------------------------------------------------------------
(* Memory: each call is a connection and a commit of its own *)

Remembers(r) == ConversationOf[r] # None

\* The steps of _persist_memory_turns that r takes, in this order: empty questions,
\* empty answers and no persona are left out, each by itself.
PersistSteps(r) ==
    (IF r \in Asking THEN {"user"} ELSE {})
        \cup (IF HasText(r, response[r]) THEN {"assistant"} ELSE {})
        \cup (IF persona[r] # None THEN {"persona"} ELSE {})

\* The steps that may take effect: fail_open goes on after a failed one.
MayPersist(r, kept) ==
    LET after(step, earlier) == step \in kept => (earlier \cap PersistSteps(r)) \subseteq kept IN
    /\ kept \subseteq PersistSteps(r)
    /\ failOpen \/ (after("assistant", {"user"}) /\ after("persona", {"user", "assistant"}))

\* What one save_turn adds to the conversation.
Saved(role, r, kept) == IF role \in kept THEN << <<role, r>> >> ELSE << >>

\* A mutant of Persists: the answer is saved before the question.
PersistsAnswerFirst(r, kept) ==
    LET c == ConversationOf[r] IN
    /\ turns' = [turns EXCEPT ![c] = @ \o (Saved("assistant", r, kept) \o Saved("user", r, kept))]
    /\ preference' = IF "persona" \in kept THEN [preference EXCEPT ![c] = persona[r]]
                                           ELSE preference

Persists(r, kept) ==
    LET c == ConversationOf[r] IN
    /\ turns' = [turns EXCEPT ![c] = @ \o (Saved("user", r, kept) \o Saved("assistant", r, kept))]
    /\ preference' = IF "persona" \in kept THEN [preference EXCEPT ![c] = persona[r]]
                                           ELSE preference

\* _persist_memory_turns, and "succeeded" unless memory raised.
PersistsAndSucceeds(r) ==
    \/ /\ ~Remembers(r)
       /\ Records(r, "succeeded") /\ Leaves(r, "returned")
       /\ UNCHANGED memoryVars
    \/ /\ Remembers(r)
       /\ \E kept \in SUBSET PersistSteps(r) :
             /\ MayPersist(r, kept)
             /\ Persists(r, kept)
             /\ IF failOpen \/ kept = PersistSteps(r)
                  THEN Records(r, "succeeded") /\ Leaves(r, "returned")
                  ELSE Leaves(r, "error") /\ UNCHANGED audit

\* What _apply_remembered_persona may find: with fail_open also nothing.
PersonaReads(r) ==
    IF Given[r] # None \/ ~Remembers(r) THEN {Given[r]}
    ELSE {preference[ConversationOf[r]]} \cup (IF failOpen THEN {None} ELSE {})

----------------------------------------------------------------------------
(* The stages *)

Accept(r) ==
    /\ r \in Streams
    /\ phase[r] = "new"
    /\ GoTo(r, "accepted")
    /\ UNCHANGED <<failOpen, runVars, clientVars, outcome, audit, expired, memoryVars>>

\* In invoke_handler this stage comes before the try block.
PrepareFails(r, o) ==
    IF r \in Streams THEN Handles(r, o)
                     ELSE GoTo(r, "raised") /\ UNCHANGED <<audit, notice>>

\* Persona and history are read from memory, which may raise; the input guardrail
\* and the authorization decide, and may raise.  What the history adds to the input
\* only matters to the guardrail and the agent, whose verdict and answer are free.
Prepare(r) ==
    /\ phase[r] = IF r \in Streams THEN "accepted" ELSE "new"
    /\ \/ /\ Remembers(r) /\ ~failOpen
          /\ PrepareFails(r, "error")
          /\ UNCHANGED persona
       \/ \E p \in PersonaReads(r) :
             /\ persona' = [persona EXCEPT ![r] = p]
             /\ \/ \E o \in {"user_error", "error"} : PrepareFails(r, o)
                \/ /\ GoTo(r, IF r \in Streams THEN "prepared" ELSE "connecting")
                   /\ UNCHANGED <<audit, notice>>
    /\ UNCHANGED <<failOpen, runs, response, verdict, released, outcome, expired, memoryVars>>

Connect(r) ==
    /\ phase[r] = "prepared"
    /\ GoTo(r, "connecting")
    /\ UNCHANGED <<failOpen, runVars, clientVars, outcome, audit, expired, memoryVars>>

\* The rest of _connect_request_stage: the route, the model (which may not be
\* resolved) and the agent.
Connected(r) ==
    /\ phase[r] = "connecting"
    /\ \/ /\ r \in Streams
          /\ GoTo(r, "executing")
          /\ UNCHANGED <<runs, outcome>>
       \/ /\ r \notin Streams
          /\ GoTo(r, "running") /\ RunsAgain(r)
          /\ UNCHANGED outcome
       \/ /\ Leaves(r, "error")
          /\ UNCHANGED runs
    /\ UNCHANGED <<failOpen, persona, response, verdict, clientVars, audit, expired, memoryVars>>

Execute(r) ==
    /\ phase[r] = "executing"
    /\ GoTo(r, "running") /\ RunsAgain(r)
    /\ UNCHANGED <<failOpen, persona, response, verdict, clientVars, outcome, audit, expired,
                   memoryVars>>

\* A transient error, the backoff, and another run with the tools it may call.
AgentRetries(r) ==
    /\ phase[r] = "running"
    /\ runs[r] <= Retries
    /\ RunsAgain(r)
    /\ UNCHANGED <<failOpen, phase, persona, response, verdict, clientVars, outcome, audit,
                   expired, memoryVars>>

AgentFails(r) ==
    /\ phase[r] = "running"
    /\ \E o \in {"user_error", "error"} : Leaves(r, o)
    /\ UNCHANGED <<failOpen, runVars, clientVars, audit, expired, memoryVars>>

AgentReturns(r) ==
    /\ phase[r] = "running"
    /\ \E resp \in Responses : response' = [response EXCEPT ![r] = resp]
    /\ GoTo(r, "finalizing")
    /\ UNCHANGED <<failOpen, persona, runs, verdict, clientVars, outcome, audit, expired,
                   memoryVars>>

\* The guardrail blocks: invoke raises a UserError, a stream explains.
Blocks(r) ==
    /\ phase[r] = "finalizing"
    /\ IsBlocked(r, response[r])
    /\ verdict' = [verdict EXCEPT ![r] = "blocked"]
    /\ IF r \in Streams
         THEN GoTo(r, "blocked") /\ Tells(r, "blocked") /\ UNCHANGED outcome
         ELSE Leaves(r, "user_error") /\ UNCHANGED notice
    /\ UNCHANGED <<failOpen, persona, runs, response, released, audit, expired, memoryVars>>

\* The guardrail passes: a stream yields its first event, invoke is done.
Passes(r) ==
    /\ phase[r] = "finalizing"
    /\ ~IsBlocked(r, response[r])
    /\ verdict' = [verdict EXCEPT ![r] = "passed"]
    /\ \/ /\ r \in Streams
          /\ GoTo(r, "releasing")
          /\ released' = [released EXCEPT ![r] = 1]
          /\ UNCHANGED <<outcome, audit, memoryVars>>
       \/ /\ r \notin Streams
          /\ PersistsAndSucceeds(r)
          /\ UNCHANGED released
    /\ UNCHANGED <<failOpen, persona, runs, response, notice, expired>>

ReleasedAll(r) == released[r] = Len(StreamAnswer(response[r]))

Release(r) ==
    /\ phase[r] = "releasing"
    /\ ~ReleasedAll(r)
    /\ released' = [released EXCEPT ![r] = @ + 1]
    /\ UNCHANGED <<failOpen, phase, runVars, notice, outcome, audit, expired, memoryVars>>

\* A mutant of FinishStream: the exchange is saved while it is being sent.
FinishStreamEarly(r) ==
    /\ phase[r] = "releasing"
    /\ PersistsAndSucceeds(r)
    /\ UNCHANGED <<failOpen, runVars, clientVars, expired>>

FinishStream(r) ==
    /\ phase[r] = "releasing"
    /\ ReleasedAll(r)
    /\ PersistsAndSucceeds(r)
    /\ UNCHANGED <<failOpen, runVars, clientVars, expired>>

FinishBlocked(r) ==
    /\ phase[r] = "blocked"
    /\ Records(r, "failed") /\ Leaves(r, "returned")
    /\ UNCHANGED <<failOpen, runVars, clientVars, expired, memoryVars>>

----------------------------------------------------------------------------
(* The end of a handler, and what may interrupt it *)

\* A mutant of Close: a timeout ends the stream without a word.
CloseSilently(r) ==
    /\ phase[r] = "closing"
    /\ IF outcome[r] = "timeout" THEN Records(r, "failed") /\ GoTo(r, "ended") /\ UNCHANGED notice
                                 ELSE Handles(r, outcome[r])
    /\ UNCHANGED <<failOpen, runVars, released, outcome, expired, memoryVars>>

Close(r) ==
    /\ phase[r] = "closing"
    /\ Handles(r, outcome[r])
    /\ UNCHANGED <<failOpen, runVars, released, outcome, expired, memoryVars>>

\* Closing an MCP server raises.  A closed generator cannot yield any more.
CloseRaises(r) ==
    /\ phase[r] = "closing"
    /\ \/ /\ outcome[r] # "closed"
          /\ Handles(r, "error")
       \/ /\ outcome[r] = "closed"
          /\ Records(r, "failed") /\ GoTo(r, "abandoned")
          /\ UNCHANGED notice
    /\ UNCHANGED <<failOpen, runVars, released, outcome, expired, memoryVars>>

Told(r) ==
    /\ phase[r] = "telling"
    /\ GoTo(r, "ended")
    /\ UNCHANGED <<failOpen, runVars, clientVars, outcome, audit, expired, memoryVars>>

\* Before and after the AsyncExitStack nothing is left to close.
ClosesGenerator(r) ==
    IF phase[r] \in {"accepted", "prepared", "telling"}
      THEN GoTo(r, "abandoned") /\ UNCHANGED outcome
      ELSE Leaves(r, "closed")

\* The client is gone while a stream is suspended at a yield: the generator is
\* closed by a GeneratorExit.
Drop(r) ==
    /\ r \in Streams
    /\ phase[r] \in Yields
    /\ ClosesGenerator(r)
    /\ UNCHANGED <<failOpen, runVars, clientVars, audit, expired, memoryVars>>

\* The task is cancelled while the handler awaits.
Cancel(r) ==
    /\ phase[r] \in Awaits
    /\ outcome[r] # "closed"
    /\ Leaves(r, "cancelled")
    /\ UNCHANGED <<failOpen, runVars, clientVars, audit, expired, memoryVars>>

\* A mutant of TimerFires: the timer covers the run of the agent only.
TimerFiresInRun(r) ==
    /\ r \in Streams \ expired
    /\ phase[r] = "running"
    /\ Leaves(r, "timeout")
    /\ expired' = expired \cup {r}
    /\ UNCHANGED <<failOpen, runVars, clientVars, audit, memoryVars>>

\* asyncio.timeout cancels the task that iterates over the stream.  If that task
\* is at an await of the handler, the body is left with a TimeoutError; if it is
\* at one of its own awaits, the cancellation ends it, and the generator is closed.
TimerFires(r) ==
    /\ r \in Streams \ expired
    /\ expired' = expired \cup {r}
    /\ \/ /\ \/ phase[r] \in {"connecting", "running"}
             \/ phase[r] = "closing" /\ outcome[r] \in {"returned", "user_error", "error"}
          /\ Leaves(r, "timeout")
       \/ /\ phase[r] \in Yields \ {"accepted", "telling"}
          /\ ClosesGenerator(r)
    /\ UNCHANGED <<failOpen, runVars, clientVars, audit, memoryVars>>

Stage(r) == \/ Accept(r) \/ Prepare(r) \/ Connect(r) \/ Connected(r) \/ Execute(r)
            \/ Blocks(r) \/ Passes(r) \/ Release(r) \/ FinishStream(r) \/ FinishBlocked(r)
Agent(r) == AgentReturns(r) \/ AgentRetries(r) \/ AgentFails(r)
End(r) == Close(r) \/ CloseRaises(r) \/ Told(r)
Interrupt(r) == Drop(r) \/ Cancel(r) \/ TimerFires(r)

Next == \E r \in Requests : Stage(r) \/ Agent(r) \/ End(r) \/ Interrupt(r)

Spec == Init /\ [][Next]_vars

\* Timers fire and MCP servers are closed; no agent, server or client is obliged
\* to do anything.
FairSpec == Spec /\ \A r \in Requests : /\ WF_vars(TimerFires(r))
                                        /\ WF_vars(Close(r) \/ CloseRaises(r))

----------------------------------------------------------------------------
(* What the handlers promise *)

HasAnswer(r) == IF r \in Streams THEN released[r] > 0 ELSE phase[r] = "ended"

IsFlagged(resp) == Contains(FlattenSeq(resp.messages), "flagged")

\* No text of an answer leaves the backend before the guardrail has passed it,
\* and nothing flagged does if the guardrail saw the whole answer, however many
\* runs it took and however the request ends.
GuardedRelease ==
    \A r \in Requests :
        HasAnswer(r) => /\ verdict[r] = "passed"
                        /\ Fits(FullText(r, response[r])) => ~IsFlagged(response[r])

\* An answer is only remembered if its guardrail passed and, when streamed, its
\* client was sent all of it: a client that disconnects, a timeout or a retry
\* leaves nothing behind that later requests would take for history.
RememberedWasReleased ==
    \A c \in Conversations : \A i \in 1..Len(turns[c]) :
        LET r == turns[c][i][2] IN
        turns[c][i][1] = "assistant" => /\ verdict[r] = "passed"
                                        /\ r \in Streams => ReleasedAll(r)

\* With fail_open off, each answer in the history directly follows the question it
\* answers, and stands alone only if its request asked nothing; and a remembered
\* persona was stated by a request of the conversation, whatever others inherited it
\* in between.
MemoryIsCoherent ==
    \A c \in Conversations :
        /\ ~failOpen => \A i \in 1..Len(turns[c]) :
              LET r == turns[c][i][2] IN
              (turns[c][i][1] = "assistant" /\ r \in Asking) =>
                  i > 1 /\ turns[c][i - 1] = <<"user", r>>
        /\ preference[c] # None =>
              \E r \in Requests : ConversationOf[r] = c /\ Given[r] = preference[c]

Recorded(r, event) == Contains(audit[r], event)

\* The audit trail and the client agree on a stream: a recorded success was sent
\* in full, a stream that ends by itself with a recorded failure has told its
\* client, and a stream that ends by itself is recorded at all.
AuditAgreesWithClient ==
    \A r \in Streams :
        /\ Recorded(r, "succeeded") => ReleasedAll(r)
        /\ phase[r] = "ended" => /\ audit[r] # << >>
                                 /\ Recorded(r, "failed") => notice[r] # None
                                 /\ notice[r] = None => Recorded(r, "succeeded")
        /\ phase[r] = "raised" => audit[r] # << >>

\* The deadline bounds every stream that has been prepared, although neither the
\* MCP servers, nor the agent, nor the client ever need to answer.
StreamIsBounded ==
    \A r \in Streams :
        (phase[r] = "prepared") ~> (phase[r] \in Ends \cup {"telling"})

----------------------------------------------------------------------------
(* What the documents say and the code does not do *)

ReleasedText(r) ==
    IF r \in Streams THEN FlattenSeq(SubSeq(StreamAnswer(response[r]), 1, released[r]))
                     ELSE InvokeAnswer(r, response[r])

\* docs/architecture/runtime-specification.md:88: "Guardrails run on response
\* output before final return": a guardrail has seen all text that is returned.
ReleasedWasChecked ==
    \A r \in Requests : HasAnswer(r) => ~Contains(ReleasedText(r), "flagged")
=============================================================================
