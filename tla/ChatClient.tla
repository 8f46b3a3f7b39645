----------------------------- MODULE ChatClient -----------------------------
(***************************************************************************)
(* The browser's chat session (aiweb: useChatSession.ts, chatReducer.ts,   *)
(* api.ts, stream.ts) against the event stream of the server.  Handlers    *)
(* and promise continuations of a page run one at a time; between two of   *)
(* them anything else may run.  abort() rejects the read it interrupts at  *)
(* once, so the catch and finally blocks of the aborted query run before   *)
(* any other event of the page, and belong to the step that aborts.        *)
(*                                                                         *)
(* A query is numbered; its question and its answer are messages with its  *)
(* number.  A text is the sequence of the deltas it was put together from, *)
(* each a token with its characters.                                       *)
(***************************************************************************)
EXTENDS Integers, Sequences, SequencesExt

CONSTANTS Surfaces,      \* VITE_API_PROXY: subset of {"chat", "invocations"}
          Answers,       \* what the agent runtime may stream for a query
          Tokens,        \* pieces of text
          Spelling,      \* the characters of each
          MaxQueries,    \* bound on the queries submitted
          MaxClears,     \* bound on the uses of "Clear conversation"
          MaxNotices,    \* bound on the /token commands
          MaxHistory,    \* MAX_HISTORY_MESSAGES
          None           \* no value

\* An event of the agent runtime.  seq is its sequence number, 0 if it has
\* none; an event that is sent again has the number it had.
Events == [kind : {"delta"}, what : Tokens, seq : Nat]
          \cup [kind : {"governance"}, what : {"plain", "pending"}, seq : {0}]
          \cup [kind : {"progress", "other", "error", "completed"}, what : {None}, seq : Nat]

Decisions == {"approved", "rejected", "more_info_requested"}

ASSUME ChatAssumption ==
    /\ Surfaces \subseteq {"chat", "invocations"}
    /\ Answers \subseteq Seq(Events)
    /\ DOMAIN Spelling = Tokens /\ << >> \notin Range(Spelling)
    /\ {MaxQueries, MaxClears, MaxNotices} \subseteq Nat /\ MaxHistory \in Nat \ {0}
    /\ None \notin Nat \cup Tokens \cup Decisions \cup {"plain", "pending", "streaming"}

VARIABLES surface,       \* the endpoint this build of the page calls
          messages,      \* the transcript: state of chatReducer
          sending,       \* isSending
          active,        \* activeRequestRef: the query whose controller it is
          conversation,  \* conversationIdRef
          queries,       \* the calls of sendChat, in order
          deciding,      \* approval decisions under way: query |-> decision
          notices        \* /token commands so far

vars == <<surface, messages, sending, active, conversation, queries, deciding, notices>>
session == <<surface, conversation, notices>>

Queries == 1 .. MaxQueries
Conversations == 0 .. MaxClears

Message(role, q, status) ==
    [role |-> role, of |-> q, conversation |-> conversation,
     text |-> << >>, status |-> status, approval |-> None]

\* One call of sendChat: fullText, seenEvents, latestMetadata and the timer
\* that aborts it.  left: events of the response not read yet; mixes:
\* conversations of the messages it sends; answer: what the runtime streams.
Query == [phase : {"waiting", "reading", "ended"}, conversation : Conversations,
          mixes : SUBSET Conversations, timer : BOOLEAN, answer : Answers \cup {None},
          left : Seq(Events), seen : SUBSET Events, full : Seq(Tokens),
          metadata : {None, "plain", "pending"}]

\* Every value stays within its type.
TypeOK ==
    /\ surface \in Surfaces /\ sending \in BOOLEAN
    /\ active \in Queries \cup {None} /\ conversation \in Conversations
    /\ messages \in Seq([role : {"user", "assistant", "notice"}, of : 0 .. MaxQueries,
                         conversation : Conversations, text : Seq(Tokens),
                         status : {None, "streaming", "idle", "blocked", "error"},
                         approval : Decisions \cup {"pending", None}])
    /\ queries \in Seq(Query) /\ Len(queries) <= MaxQueries
    /\ deciding \in [Queries -> Decisions \cup {None}]
    /\ notices \in 0 .. MaxNotices

Init ==
    /\ surface \in Surfaces
    /\ conversation = 0 /\ notices = 0
    /\ messages = <<Message("notice", 0, None)>>
    /\ sending = FALSE /\ active = None
    /\ queries = << >>
    /\ deciding = [q \in Queries |-> None]

-----------------------------------------------------------------------------
(* What the server makes of the runtime's events. *)

\* MlflowAgentRuntime.stream: a delta becomes text without its number, other
\* events become metadata.
Public(e) == CASE e.kind = "progress" -> << >>
               [] e.kind = "delta" -> <<[e EXCEPT !.seq = 0]>>
               [] OTHER -> <<e>>

Completed == [kind |-> "completed", what |-> None, seq |-> 0]

Fails(answer) == answer # << >> /\ Last(answer).kind = "error"

\* /invocations sends the runtime's events; /api/chat sends public ones and
\* ends with "completed", or with "error" if the runtime raises.
Heard(s, e) == IF s = "invocations" THEN <<e>> ELSE Public(e)

Wire(answer) ==
    FlattenSeq([i \in DOMAIN answer |-> Heard(surface, answer[i])])
    \o IF surface = "invocations" \/ Fails(answer) THEN << >> ELSE <<Completed>>

-----------------------------------------------------------------------------
(* The reducer. *)

\* A mutant: the reducer does not look at the message's id.
IsAnyAnswer(m, q) == m.role = "assistant"

IsAnswer(m, q) == m.role = "assistant" /\ m.of = q

\* A message with some of its fields set.
With(m, fields) == [f \in DOMAIN m |-> IF f \in DOMAIN fields THEN fields[f] ELSE m[f]]

\* A mutant: the reducer adds an answer that is not in the transcript.
ReducedOrAppended(q, delta, fields) ==
    IF \A i \in DOMAIN messages : ~IsAnswer(messages[i], q)
    THEN Append(messages, With([Message("assistant", q, "streaming")
                                  EXCEPT !.conversation = queries[q].conversation], fields))
    ELSE [i \in DOMAIN messages |->
            IF IsAnswer(messages[i], q)
              THEN With([messages[i] EXCEPT !.text = @ \o delta], fields) ELSE messages[i]]

\* The messages after a delta was appended to the answer of query q and fields
\* of it were set, if it is there.
Reduced(q, delta, fields) ==
    [i \in DOMAIN messages |->
        IF IsAnswer(messages[i], q)
          THEN With([messages[i] EXCEPT !.text = @ \o delta], fields) ELSE messages[i]]

Approval(metadata) == IF metadata = "pending" THEN "pending" ELSE None

-----------------------------------------------------------------------------
(* The user's handlers. *)

\* Conversations of the messages that requestHistory keeps.
History == {messages[i].conversation :
              i \in {j \in DOMAIN messages : j > Len(messages) - MaxHistory}}

\* submitMessage with text that is no command, up to the fetch.
Submit ==
    LET q == Len(queries) + 1 IN
    /\ ~sending /\ q <= MaxQueries
    /\ messages' = messages \o <<Message("user", q, None), Message("assistant", q, "streaming")>>
    /\ sending' = TRUE /\ active' = q
    /\ queries' = Append(queries,
           [phase |-> "waiting", conversation |-> conversation, mixes |-> History,
            timer |-> TRUE, answer |-> None, left |-> << >>, seen |-> {},
            full |-> << >>, metadata |-> None])
    /\ UNCHANGED <<session, deciding>>

\* submitMessage with /token or /clear-token.
Command ==
    /\ ~sending /\ notices < MaxNotices
    /\ notices' = notices + 1
    /\ messages' = Append(messages, Message("notice", 0, None))
    /\ UNCHANGED <<surface, sending, active, conversation, queries, deciding>>

\* The finally blocks of sendChat and of submitMessage.
Ended(q) == [queries EXCEPT ![q] = [@ EXCEPT !.phase = "ended", !.timer = FALSE,
                                             !.left = << >>]]

Finish(q) == /\ queries' = Ended(q)
             /\ active' = None /\ sending' = FALSE

\* The catch block: any failure, an abort among them, replaces the text.
Raise(q) ==
    /\ messages' = Reduced(q, << >>, [text |-> << >>, status |-> "error"])
    /\ Finish(q)
    /\ UNCHANGED <<session, deciding>>

\* cancelCurrentQuery, the button shown while a query is under way.
Cancel == sending /\ active # None /\ Raise(active)

\* The timer of sendChat.
TimesOut(q) == queries[q].timer /\ queries[q].phase # "ended" /\ Raise(q)

\* A mutant: the query under way is left alone.
ClearKeepsQuery ==
    /\ conversation < MaxClears
    /\ conversation' = conversation + 1
    /\ messages' = <<[Message("notice", 0, None) EXCEPT !.conversation = conversation + 1]>>
    /\ sending' = FALSE
    /\ UNCHANGED <<surface, notices, deciding, active, queries>>

\* clearConversation: the answer that the aborted query reports its error to
\* is in the transcript no more.
Clear ==
    /\ conversation < MaxClears
    /\ conversation' = conversation + 1
    /\ messages' = <<[Message("notice", 0, None) EXCEPT !.conversation = conversation + 1]>>
    /\ sending' = FALSE /\ active' = None
    /\ queries' = IF active = None THEN queries ELSE Ended(active)
    /\ UNCHANGED <<surface, notices, deciding>>

\* ApprovalActions.decide: the buttons are there while the approval is
\* pending and disabled while a decision of this message is under way.
Decide(q) ==
    /\ deciding[q] = None
    /\ \E i \in DOMAIN messages : IsAnswer(messages[i], q) /\ messages[i].approval = "pending"
    /\ \E d \in Decisions : deciding' = [deciding EXCEPT ![q] = d]
    /\ UNCHANGED <<session, messages, sending, active, queries>>

\* submitApprovalDecision returns, or raises and the buttons come back.
Recorded(q) ==
    /\ deciding[q] # None
    /\ messages' = Reduced(q, << >>, [approval |-> deciding[q]])
    /\ deciding' = [deciding EXCEPT ![q] = None]
    /\ UNCHANGED <<session, sending, active, queries>>

Refused(q) ==
    /\ deciding[q] # None
    /\ deciding' = [deciding EXCEPT ![q] = None]
    /\ UNCHANGED <<session, messages, sending, active, queries>>

-----------------------------------------------------------------------------
(* sendChat: one fetch and the loop that reads its stream. *)

\* The response is not ok, has no body, or the connection breaks.
Breaks(q) == queries[q].phase # "ended" /\ Raise(q)

\* A mutant: the timer only covers the time to the headers.
RespondsOnce(q) ==
    /\ queries[q].phase = "waiting"
    /\ \E a \in Answers :
         queries' = [queries EXCEPT
             ![q] = [@ EXCEPT !.phase = "reading", !.answer = a, !.timer = FALSE,
                              !.left = Wire(a)]]
    /\ UNCHANGED <<session, messages, sending, active, deciding>>

\* The headers arrive; the timer goes on.
Responds(q) ==
    /\ queries[q].phase = "waiting"
    /\ \E a \in Answers :
         queries' = [queries EXCEPT
             ![q] = [@ EXCEPT !.phase = "reading", !.answer = a, !.left = Wire(a)]]
    /\ UNCHANGED <<session, messages, sending, active, deciding>>

\* fullText.endsWith(delta): the characters, whatever deltas they came in.
Spelled(text) == FlattenSeq([k \in DOMAIN text |-> Spelling[text[k]]])
EndsWith(text, token) == IsSuffix(Spelling[token], Spelled(text))

\* Mutants: no set of seen events; nothing is read after the governance event.
RepeatsLast(call, e) == e.kind = "delta" /\ EndsWith(call.full, e.what)
UpToGovernance(call, e) ==
    e \in call.seen \/ RepeatsLast(call, e) \/ call.metadata # None

\* The two guards against replayed events.
Skipped(call, e) == e \in call.seen \/ RepeatsLast(call, e)

\* metadataFromEvent: every event starts again from the hints, so that only
\* the governance event itself has an approval state.
Metadata(e) == IF e.kind = "governance" THEN e.what ELSE None

Shown(e) == IF e.kind = "delta" THEN <<e.what>> ELSE << >>

\* The call after an event that it skips, and after one that it takes.
Past(call, e) == [call EXCEPT !.left = Tail(@), !.seen = @ \cup {e}]
Taken(call, e) == [Past(call, e) EXCEPT !.full = @ \o Shown(e), !.metadata = Metadata(e)]

\* One event of the stream.
Reads(q) ==
    LET call == queries[q]
        e == Head(call.left) IN
    /\ call.phase = "reading" /\ call.left # << >>
    /\ IF Skipped(call, e)
         THEN /\ queries' = [queries EXCEPT ![q] = Past(call, e)]
              /\ UNCHANGED messages
         ELSE /\ queries' = [queries EXCEPT ![q] = Taken(call, e)]
              /\ messages' = Reduced(q, Shown(e), [approval |-> Approval(Metadata(e))])
    /\ UNCHANGED <<session, sending, active, deciding>>

\* The stream ends: the final text, with or without a "complete" metadata.
Completes(q) ==
    LET call == queries[q] IN
    /\ call.phase = "reading" /\ call.left = << >>
    /\ messages' = Reduced(q, << >>,
         [text |-> call.full, approval |-> Approval(call.metadata),
          status |-> IF call.full = << >> /\ call.metadata = None THEN "blocked" ELSE "idle"])
    /\ Finish(q)
    /\ UNCHANGED <<session, deciding>>

Next ==
    \/ Submit \/ Command \/ Cancel \/ Clear
    \/ \E q \in DOMAIN queries :
         \/ Decide(q) \/ Recorded(q) \/ Refused(q)
         \/ Breaks(q) \/ Responds(q) \/ Reads(q) \/ Completes(q) \/ TimesOut(q)

\* The browser's timer fires at its time; nothing is assumed of the server.
Fairness == \A q \in Queries : WF_vars(q \in DOMAIN queries /\ TimesOut(q))

Spec == Init /\ [][Next]_vars /\ Fairness

-----------------------------------------------------------------------------
(* Properties. *)

\* An event that arrives as an earlier one did.
Repeated(s, answer, i) == \E j \in 1 .. i - 1 : Heard(s, answer[j]) = Heard(s, answer[i])

\* The text shows the deltas at these places of the answer, in their order.
ShowsDeltas(s, answer, text, at) ==
    /\ \A k \in DOMAIN text : /\ answer[at[k]].kind = "delta"
                             /\ text[k] = answer[at[k]].what
                             /\ ~Repeated(s, answer, at[k])
    /\ \A k, l \in DOMAIN text : k < l => at[k] < at[l]

\* A delta that is not among them is repeated, or the text before it ended with it.
LosesRepeats(s, answer, text, at) ==
    \A i \in DOMAIN answer : answer[i].kind = "delta" =>
        \/ \E k \in DOMAIN text : at[k] = i
        \/ Repeated(s, answer, i)
        \/ \E k \in 0 .. Len(text) :
              /\ \A l \in DOMAIN text : l <= k <=> at[l] < i
              /\ EndsWith(SubSeq(text, 1, k), answer[i].what)

Tells(s, answer, text, whole) ==
    \E at \in [DOMAIN text -> DOMAIN answer] :
        /\ ShowsDeltas(s, answer, text, at)
        /\ whole => LosesRepeats(s, answer, text, at)

IsWhole(m) == m.status \in {"idle", "blocked"}

\* At most one query is under way, the user sees that it is, and the cancel
\* button reaches it: onRequestController backs the button and the timeout.
OneQueryUnderWay ==
    \A q \in DOMAIN queries : queries[q].phase # "ended" =>
        /\ sending /\ active = q /\ queries[q].timer
        /\ \E i \in DOMAIN messages : IsAnswer(messages[i], q) /\ messages[i].status = "streaming"

\* A transcript shows the current conversation and nothing of a cleared one,
\* and what a query sends as history is of its own conversation: a late event
\* of an aborted query finds no message to change, and no query outlives its
\* conversation.
ConversationIsIsolated ==
    /\ OneQueryUnderWay
    /\ \A i \in DOMAIN messages : messages[i].conversation = conversation
    /\ \A q \in DOMAIN queries : queries[q].mixes \subseteq {queries[q].conversation}

\* An answer shows what the runtime said, in its order, and no event twice,
\* however often it is replayed and on whichever surface; and a complete answer
\* leaves nothing out but what arrives as an earlier event did and what the text
\* of that moment ended with.  The second guard does lose text that was never
\* sent before: "1", "00", "0" (api.ts: sendChat).
TextIsFaithful ==
    \A i \in DOMAIN messages : LET m == messages[i] IN
        m.role = "assistant" /\ (m.text # << >> \/ IsWhole(m)) =>
            Tells(surface, queries[m.of].answer, m.text, IsWhole(m))

\* An answer that is settled stays as it is, but for its approval, which
\* changes once, to a decision: no late event rewrites it.
Rest(m) == [m EXCEPT !.approval = None]
SettledStays ==
    [][\A i \in DOMAIN messages : messages[i].status # "streaming" =>
         \/ conversation' # conversation
         \/ /\ Rest(messages'[i]) = Rest(messages[i])
            /\ messages'[i].approval # messages[i].approval =>
                 messages[i].approval \notin Decisions /\ messages'[i].approval \in Decisions]_vars

\* Whatever the server does, a query ends and the user may send again.
QueriesEnd == \A q \in Queries :
    (q \in DOMAIN queries /\ queries[q].phase # "ended")
        ~> (q \in DOMAIN queries /\ queries[q].phase = "ended")

\* aiweb/tests/e2e/workspace.spec.ts: a response that asks for the manager's
\* approval shows the approval buttons once it is complete.  It holds on
\* /invocations, where nothing follows the governance event of such a
\* response, and not on /api/chat, where "completed" does.
ApprovalIsOffered ==
    \A i \in DOMAIN messages : LET m == messages[i] IN
        m.role = "assistant" /\ m.status = "idle"
            /\ (\E e \in ToSet(queries[m.of].answer) : e.what = "pending")
        => m.approval # None
=============================================================================
