------------------------- MODULE ChatClient_proofs -------------------------
(***************************************************************************)
(* What a transcript shows and what may still change in it: for any        *)
(* answers, surface, number of queries and uses of the user's handlers.    *)
(***************************************************************************)
EXTENDS ChatClient, SequenceLemmas, SequenceTheorems, TLAPS

----------------------------------------------------------------------------
(* Sequences whose elements need no type of their own *)

Listed(s) == s \in Seq({s[i] : i \in 1 .. Len(s)})

LEMMA SeqIsListed ==
    ASSUME NEW S, NEW s \in Seq(S) PROVE Listed(s)
  BY DEF Listed

LEMMA ListedDomain ==
    ASSUME NEW s, Listed(s) PROVE Len(s) \in Nat /\ DOMAIN s = 1 .. Len(s)
  BY DEF Listed

LEMMA ListedMap ==
    ASSUME NEW s, Listed(s), NEW t, t = [i \in DOMAIN s |-> t[i]]
    PROVE  Listed(t) /\ Len(t) = Len(s) /\ DOMAIN t = DOMAIN s
<1>1. Len(s) \in Nat /\ DOMAIN s = 1 .. Len(s)
  BY ListedDomain
<1>2. t \in Seq({t[i] : i \in 1 .. Len(s)}) /\ Len(t) = Len(s)
  BY <1>1
<1> QED
  BY <1>1, <1>2 DEF Listed

LEMMA ListedExcept ==
    ASSUME NEW s, Listed(s), NEW q \in DOMAIN s, NEW x
    PROVE  /\ Listed([s EXCEPT ![q] = x])
           /\ Len([s EXCEPT ![q] = x]) = Len(s)
           /\ DOMAIN [s EXCEPT ![q] = x] = DOMAIN s
           /\ [s EXCEPT ![q] = x][q] = x
           /\ \A p \in DOMAIN s : p # q => [s EXCEPT ![q] = x][p] = s[p]
<1> DEFINE t == [s EXCEPT ![q] = x]
<1>1. t = [i \in DOMAIN s |-> t[i]]
  OBVIOUS
<1>2. Listed(t) /\ Len(t) = Len(s) /\ DOMAIN t = DOMAIN s
  <2> HIDE DEF t
  <2> QED
    BY <1>1, ListedMap
<1> QED
  BY <1>2

LEMMA PrefixesAgree ==
    ASSUME NEW s, Listed(s), NEW t, Listed(t), NEW k \in 0 .. Len(s), k <= Len(t),
           \A i \in 1 .. k : s[i] = t[i]
    PROVE  SubSeq(s, 1, k) = SubSeq(t, 1, k)
<1> DEFINE S == {s[i] : i \in 1 .. Len(s)} \cup {t[i] : i \in 1 .. Len(t)}
<1>1. Len(s) \in Nat /\ Len(t) \in Nat /\ k \in Nat
  BY ListedDomain
<1>2. \A i \in 1 .. k : s[i] \in S /\ t[i] \in S
  BY <1>1
<1> HIDE DEF S
<1>3. /\ SubSeq(s, 1, k) \in Seq(S) /\ SubSeq(t, 1, k) \in Seq(S)
      /\ Len(SubSeq(s, 1, k)) = k /\ Len(SubSeq(t, 1, k)) = k
      /\ \A i \in 1 .. k : SubSeq(s, 1, k)[i] = s[i] /\ SubSeq(t, 1, k)[i] = t[i]
  BY <1>1, <1>2, SubSeqProperties
<1> QED
  BY <1>3, SeqEqual

LEMMA ListedConcat ==
    ASSUME NEW s, Listed(s), NEW t, Listed(t)
    PROVE  /\ Listed(s \o t) /\ Len(s \o t) = Len(s) + Len(t)
           /\ DOMAIN (s \o t) = 1 .. Len(s) + Len(t)
           /\ \A i \in DOMAIN s : (s \o t)[i] = s[i]
           /\ \A i \in 1 .. Len(t) : (s \o t)[Len(s) + i] = t[i]
           /\ Len(t) = 0 => s \o t = s
<1> DEFINE S == {s[i] : i \in 1 .. Len(s)} \cup {t[i] : i \in 1 .. Len(t)}
<1>1. s \in Seq(S) /\ t \in Seq(S)
  <2>1. s \in Seq({s[i] : i \in 1 .. Len(s)}) /\ t \in Seq({t[i] : i \in 1 .. Len(t)})
    BY DEF Listed
  <2> QED
    BY <2>1
<1> HIDE DEF S
<1>2. s \o t \in Seq(S) /\ Len(s \o t) = Len(s) + Len(t)
  BY <1>1
<1>3. Listed(s \o t)
  BY <1>2, SeqIsListed
<1>4. Len(t) = 0 => s \o t = s
  BY <1>1
<1> QED
  BY <1>1, <1>2, <1>3, <1>4

----------------------------------------------------------------------------
(* The invariant *)

\* What is in a text, an answer or a stream of events is of no concern here.
Shaped(m) ==
    /\ m \in [role : {"user", "assistant", "notice"}, of : 0 .. MaxQueries,
              conversation : Conversations, text : {m.text},
              status : {None, "streaming", "idle", "blocked", "error"},
              approval : Decisions \cup {"pending", None}]
    /\ Listed(m.text)
CallShaped(c) ==
    /\ c \in [phase : {"waiting", "reading", "ended"}, conversation : Conversations,
              mixes : SUBSET Conversations, timer : BOOLEAN, answer : {c.answer},
              left : {c.left}, seen : {c.seen}, full : {c.full}, metadata : {c.metadata}]
    /\ Listed(c.full)

Transcript(s) == Listed(s) /\ \A i \in DOMAIN s : Shaped(s[i])
Calls(s) == Listed(s) /\ Len(s) <= MaxQueries /\ \A q \in DOMAIN s : CallShaped(s[q])

Shape ==
    /\ Transcript(messages) /\ Calls(queries)
    /\ conversation \in Conversations /\ sending \in BOOLEAN
    /\ deciding \in [Queries -> Decisions \cup {None}]

UnderWay(q) == queries[q].phase # "ended"
ActiveIsUnderWay == active # None => active \in DOMAIN queries /\ UnderWay(active)

\* A query has one answer at most, and a transcript none of a query to come.
AnswersApart ==
    /\ \A i \in DOMAIN messages :
          messages[i].role = "assistant" => messages[i].of \in DOMAIN queries
    /\ \A i, j \in DOMAIN messages :
          /\ messages[i].role = "assistant" /\ messages[j].role = "assistant"
          /\ messages[i].of = messages[j].of
          => i = j

\* An answer is not settled while its query is under way, and has no decision
\* while one is sent.
StillStreams ==
    \A q \in DOMAIN queries, i \in DOMAIN messages :
        UnderWay(q) /\ IsAnswer(messages[i], q) => messages[i].status = "streaming"
Undecided ==
    \A q \in DOMAIN queries, i \in DOMAIN messages :
        deciding[q] # None /\ IsAnswer(messages[i], q) => messages[i].approval \notin Decisions

AllCurrent == \A i \in DOMAIN messages : messages[i].conversation = conversation
OwnHistory == \A q \in DOMAIN queries : queries[q].mixes \subseteq {queries[q].conversation}

ChatInv == /\ Shape /\ ActiveIsUnderWay /\ OneQueryUnderWay /\ AnswersApart /\ StillStreams
           /\ Undecided /\ AllCurrent /\ OwnHistory

LEMMA Bounds ==
    {MaxQueries, MaxClears, MaxNotices} \subseteq Nat /\ None \notin Nat \cup Decisions
  BY ChatAssumption

LEMMA NewMessage ==
    ASSUME conversation \in Conversations, NEW role \in {"user", "assistant", "notice"},
           NEW q \in 0 .. MaxQueries, NEW status \in {None, "streaming"}
    PROVE  /\ Shaped(Message(role, q, status))
           /\ Message(role, q, status).role = role /\ Message(role, q, status).of = q
           /\ Message(role, q, status).conversation = conversation
           /\ Message(role, q, status).status = status
           /\ Message(role, q, status).approval = None
<1>1. Listed(<< >>)
  BY DEF Listed
<1> QED
  BY <1>1 DEF Message, Shaped

----------------------------------------------------------------------------
(* What the reducer and a call's steps change *)

\* Fields of an answer that actions set, and what they may be set to.
ProperFields(fields) ==
    /\ DOMAIN fields \subseteq {"text", "status", "approval"}
    /\ "text" \in DOMAIN fields => Listed(fields["text"])
    /\ "status" \in DOMAIN fields => fields["status"] \in {"idle", "blocked", "error"}
    /\ "approval" \in DOMAIN fields => fields["approval"] \in Decisions \cup {"pending", None}

Rewritten(m, n, fields) ==
    /\ Shaped(n)
    /\ n.role = m.role /\ n.of = m.of /\ n.conversation = m.conversation
    /\ n.status = IF "status" \in DOMAIN fields THEN fields["status"] ELSE m.status
    /\ n.approval = IF "approval" \in DOMAIN fields THEN fields["approval"] ELSE m.approval

LEMMA WithFields ==
    ASSUME NEW m, Shaped(m), NEW delta, Listed(delta), NEW fields, ProperFields(fields),
           NEW n, n = With([m EXCEPT !.text = m.text \o delta], fields)
    PROVE  /\ Rewritten(m, n, fields)
           /\ "text" \notin DOMAIN fields /\ delta = << >> => n.text = m.text
<1> DEFINE l == [m EXCEPT !.text = m.text \o delta]
<1>1. Listed(m.text \o delta) /\ Listed(m.text) /\ (delta = << >> => m.text \o delta = m.text)
  BY ListedConcat DEF Shaped
<1>2. /\ DOMAIN l = {"role", "of", "conversation", "text", "status", "approval"}
      /\ l.role = m.role /\ l.of = m.of /\ l.conversation = m.conversation
      /\ l.status = m.status /\ l.approval = m.approval /\ l.text = m.text \o delta
  BY DEF Shaped
<1>n. n = With(l, fields)
  OBVIOUS
<1> HIDE DEF l
<1>3. n = [f \in {"role", "of", "conversation", "text", "status", "approval"} |->
             IF f \in DOMAIN fields THEN fields[f] ELSE l[f]]
  BY <1>2, <1>n DEF With
<1>4. /\ n["role"] = l["role"] /\ n["of"] = l["of"] /\ n["conversation"] = l["conversation"]
      /\ n["status"] = IF "status" \in DOMAIN fields THEN fields["status"] ELSE l["status"]
      /\ n["approval"] = IF "approval" \in DOMAIN fields THEN fields["approval"]
                         ELSE l["approval"]
      /\ n["text"] = IF "text" \in DOMAIN fields THEN fields["text"] ELSE l["text"]
  BY <1>3 DEF ProperFields
<1>5. n = [role |-> n.role, of |-> n.of, conversation |-> n.conversation,
           text |-> n.text, status |-> n.status, approval |-> n.approval]
  BY <1>3
<1>6. Listed(n.text)
  BY <1>1, <1>2, <1>4 DEF ProperFields
<1>7. Shaped(n)
  BY <1>2, <1>4, <1>5, <1>6 DEF Shaped, ProperFields
<1>8. Rewritten(m, n, fields)
  BY <1>2, <1>4, <1>7 DEF Rewritten
<1>9. "text" \notin DOMAIN fields /\ delta = << >> => n.text = m.text
  BY <1>1, <1>2, <1>4
<1> QED
  BY <1>8, <1>9

\* The reducer changes such fields of the answer of q, if it is there.
Rewrites(q, fields) ==
    /\ Transcript(messages') /\ DOMAIN messages' = DOMAIN messages
    /\ \A i \in DOMAIN messages :
          IF IsAnswer(messages[i], q) THEN Rewritten(messages[i], messages'[i], fields)
                                      ELSE messages'[i] = messages[i]

LEMMA ReducedRewrites ==
    ASSUME Transcript(messages), NEW q, NEW delta, Listed(delta), NEW fields,
           ProperFields(fields), messages' = Reduced(q, delta, fields)
    PROVE  /\ Rewrites(q, fields)
           /\ "text" \notin DOMAIN fields /\ delta = << >> =>
                \A i \in DOMAIN messages : messages'[i].text = messages[i].text
<1>1. messages' = [i \in DOMAIN messages |-> messages'[i]]
  BY DEF Reduced
<1>2. Listed(messages') /\ DOMAIN messages' = DOMAIN messages
  BY <1>1, ListedMap DEF Transcript
<1>3. ASSUME NEW i \in DOMAIN messages
      PROVE  /\ IF IsAnswer(messages[i], q) THEN Rewritten(messages[i], messages'[i], fields)
                                            ELSE messages'[i] = messages[i]
             /\ Shaped(messages'[i])
             /\ "text" \notin DOMAIN fields /\ delta = << >> =>
                  messages'[i].text = messages[i].text
  <2>1. Shaped(messages[i])
    BY DEF Transcript
  <2>2. CASE IsAnswer(messages[i], q)
    <3> DEFINE m == messages[i]
               n == messages'[i]
    <3>1. n = With([m EXCEPT !.text = m.text \o delta], fields) /\ Shaped(m)
      BY <2>1, <2>2 DEF Reduced
    <3> HIDE DEF m, n
    <3>2. /\ Rewritten(m, n, fields)
          /\ "text" \notin DOMAIN fields /\ delta = << >> => n.text = m.text
      BY <3>1, WithFields
    <3> USE DEF m, n
    <3> QED
      BY <2>2, <3>2 DEF Rewritten
  <2>3. CASE ~IsAnswer(messages[i], q)
    BY <2>1, <2>3 DEF Reduced
  <2> QED
    BY <2>2, <2>3
<1> QED
  BY <1>2, <1>3 DEF Rewrites, Transcript

\* A call goes on or ends; what it is about it keeps.
CallMoves(q, phase) ==
    /\ Calls(queries') /\ DOMAIN queries' = DOMAIN queries
    /\ \A p \in DOMAIN queries :
          /\ p # q => queries'[p] = queries[p]
          /\ queries'[p].conversation = queries[p].conversation
          /\ queries'[p].mixes = queries[p].mixes
    /\ queries'[q].phase = phase
    /\ phase # "ended" => queries'[q].timer = queries[q].timer

LEMMA MovingCall ==
    ASSUME Calls(queries), NEW q \in DOMAIN queries, NEW c, CallShaped(c),
           queries' = [queries EXCEPT ![q] = c],
           c.conversation = queries[q].conversation, c.mixes = queries[q].mixes,
           c.phase = "ended" \/ c.timer = queries[q].timer
    PROVE  CallMoves(q, c.phase)
<1>1. /\ Listed(queries') /\ Len(queries') = Len(queries)
      /\ DOMAIN queries' = DOMAIN queries /\ queries'[q] = c
      /\ \A p \in DOMAIN queries : p # q => queries'[p] = queries[p]
  BY ListedExcept DEF Calls
<1> QED
  BY <1>1 DEF Calls, CallMoves

LEMMA EndingCall ==
    ASSUME Calls(queries), NEW q \in DOMAIN queries, queries' = Ended(q)
    PROVE  CallMoves(q, "ended")
<1> DEFINE c == [queries[q] EXCEPT !.phase = "ended", !.timer = FALSE, !.left = << >>]
<1>1. CallShaped(queries[q])
  BY DEF Calls
<1>2. /\ CallShaped(c) /\ c.phase = "ended" /\ c.conversation = queries[q].conversation
      /\ c.mixes = queries[q].mixes
  BY <1>1 DEF CallShaped
<1>3. queries' = [queries EXCEPT ![q] = c]
  BY DEF Ended
<1> HIDE DEF c
<1> QED
  BY <1>2, <1>3, MovingCall

LEMMA RespondingCall ==
    ASSUME Calls(queries), NEW q \in DOMAIN queries, Responds(q)
    PROVE  CallMoves(q, "reading")
<1>1. PICK a \in Answers :
        queries' = [queries EXCEPT
            ![q] = [@ EXCEPT !.phase = "reading", !.answer = a, !.left = Wire(a)]]
  BY DEF Responds
<1> DEFINE c == [queries[q] EXCEPT !.phase = "reading", !.answer = a, !.left = Wire(a)]
<1>2. CallShaped(queries[q])
  BY DEF Calls
<1>3. /\ CallShaped(c) /\ c.phase = "reading" /\ c.conversation = queries[q].conversation
      /\ c.mixes = queries[q].mixes /\ c.timer = queries[q].timer
  BY <1>2 DEF CallShaped
<1>4. queries' = [queries EXCEPT ![q] = c]
  BY <1>1
<1> HIDE DEF c
<1> QED
  BY <1>3, <1>4, MovingCall

\* Whether or not it skips the event.
LEMMA ReadingCall ==
    ASSUME Calls(queries), NEW q \in DOMAIN queries, Reads(q)
    PROVE  CallMoves(q, "reading")
<1> DEFINE e == Head(queries[q].left)
<1>1. CallShaped(queries[q]) /\ queries[q].phase = "reading"
  BY DEF Calls, Reads
<1>2. \/ queries' = [queries EXCEPT ![q] = Past(queries[q], e)]
      \/ queries' = [queries EXCEPT ![q] = Taken(queries[q], e)]
  BY DEF Reads
<1> HIDE DEF e
<1>3. Listed(queries[q].full \o Shown(e))
  <2>1. Listed(<< >>) /\ Listed(<<e.what>>)
    BY DEF Listed
  <2>2. Listed(Shown(e))
    BY <2>1 DEF Shown
  <2> QED
    BY <1>1, <2>2, ListedConcat DEF CallShaped
<1> DEFINE past == Past(queries[q], e)
           taken == Taken(queries[q], e)
<1>4. /\ CallShaped(past) /\ past.phase = "reading" /\ past.mixes = queries[q].mixes
      /\ past.conversation = queries[q].conversation /\ past.timer = queries[q].timer
      /\ past.full = queries[q].full
  BY <1>1 DEF CallShaped, Past
<1>5. /\ CallShaped(taken) /\ taken.phase = "reading" /\ taken.mixes = queries[q].mixes
      /\ taken.conversation = queries[q].conversation /\ taken.timer = queries[q].timer
  <2>1. taken = [past EXCEPT !.full = past.full \o Shown(e), !.metadata = Metadata(e)]
    BY DEF Taken
  <2> HIDE DEF past, taken
  <2> QED
    BY <1>3, <1>4, <2>1 DEF CallShaped
<1> HIDE DEF past, taken
<1> QED
  BY <1>2, <1>4, <1>5, MovingCall DEF past, taken

----------------------------------------------------------------------------
(* What each kind of step keeps *)

SettledKept ==
    \A i \in DOMAIN messages : messages[i].status # "streaming" =>
        \/ conversation' # conversation
        \/ /\ Rest(messages'[i]) = Rest(messages[i])
           /\ messages'[i].approval # messages[i].approval =>
                messages[i].approval \notin Decisions /\ messages'[i].approval \in Decisions

LEMMA SameRest ==
    ASSUME NEW m, NEW n, Shaped(m), Shaped(n), n.role = m.role, n.of = m.of,
           n.conversation = m.conversation, n.text = m.text, n.status = m.status
    PROVE  Rest(n) = Rest(m)
<1>1. /\ m = [role |-> m.role, of |-> m.of, conversation |-> m.conversation,
              text |-> m.text, status |-> m.status, approval |-> m.approval]
      /\ n = [role |-> m.role, of |-> m.of, conversation |-> m.conversation,
              text |-> m.text, status |-> m.status, approval |-> n.approval]
  BY DEF Shaped
<1>2. /\ Rest(m) = [role |-> m.role, of |-> m.of, conversation |-> m.conversation,
                    text |-> m.text, status |-> m.status, approval |-> None]
      /\ Rest(n) = [role |-> m.role, of |-> m.of, conversation |-> m.conversation,
                    text |-> m.text, status |-> m.status, approval |-> None]
  BY <1>1 DEF Rest
<1> QED
  BY <1>2

\* A step that rewrites an answer leaves the answers whose they were.
LEMMA RewritingKeeps ==
    ASSUME ChatInv, NEW q \in DOMAIN queries, NEW fields, Rewrites(q, fields),
           DOMAIN queries' = DOMAIN queries, conversation' = conversation
    PROVE  /\ AnswersApart' /\ AllCurrent'
           /\ \A i \in DOMAIN messages :
                 /\ messages'[i].role = messages[i].role /\ messages'[i].of = messages[i].of
                 /\ messages'[i].conversation = messages[i].conversation
                 /\ ~IsAnswer(messages[i], q) => messages'[i] = messages[i]
                 /\ IsAnswer(messages[i], q) => Rewritten(messages[i], messages'[i], fields)
<1>1. DOMAIN messages' = DOMAIN messages
  BY DEF Rewrites
<1>2. \A i \in DOMAIN messages :
        /\ messages'[i].role = messages[i].role /\ messages'[i].of = messages[i].of
        /\ messages'[i].conversation = messages[i].conversation
        /\ ~IsAnswer(messages[i], q) => messages'[i] = messages[i]
        /\ IsAnswer(messages[i], q) => Rewritten(messages[i], messages'[i], fields)
  BY DEF Rewrites, Rewritten
<1>3. AnswersApart'
  BY <1>1, <1>2 DEF ChatInv, AnswersApart
<1>4. AllCurrent'
  BY <1>1, <1>2 DEF ChatInv, AllCurrent
<1> QED
  BY <1>2, <1>3, <1>4

\* The answer of a query under way is no settled one.
LEMMA OthersAreSettled ==
    ASSUME ChatInv, NEW q \in DOMAIN queries, UnderWay(q), NEW fields, Rewrites(q, fields)
    PROVE  SettledKept
<1>1. ASSUME NEW i \in DOMAIN messages, messages[i].status # "streaming"
      PROVE  messages'[i] = messages[i]
  <2>1. ~IsAnswer(messages[i], q)
    BY <1>1 DEF ChatInv, StillStreams
  <2> QED
    BY <2>1 DEF Rewrites
<1> QED
  BY <1>1 DEF SettledKept

LEMMA OnlyActive ==
    ASSUME ChatInv, NEW q \in DOMAIN queries, UnderWay(q)
    PROVE  active = q /\ sending /\ queries[q].timer
  BY DEF ChatInv, OneQueryUnderWay, UnderWay

\* The query under way ends, and no other is under way.
LEMMA SettlingStep ==
    ASSUME ChatInv, NEW q \in DOMAIN queries, UnderWay(q), NEW fields, Rewrites(q, fields),
           "approval" \in DOMAIN fields => fields["approval"] \notin Decisions,
           Finish(q), UNCHANGED <<session, deciding>>
    PROVE  ChatInv' /\ SettledKept
<1>1. /\ CallMoves(q, "ended") /\ active' = None /\ sending' = FALSE
      /\ conversation' = conversation /\ deciding' = deciding
  BY EndingCall DEF Finish, session, ChatInv, Shape
<1>2. \A p \in DOMAIN queries : ~UnderWay(p)'
  BY <1>1, OnlyActive DEF CallMoves, UnderWay
<1>3. Shape'
  BY <1>1 DEF ChatInv, Shape, CallMoves, Rewrites
<1>4. ActiveIsUnderWay' /\ OneQueryUnderWay' /\ StillStreams'
  BY <1>1, <1>2 DEF ActiveIsUnderWay, OneQueryUnderWay, StillStreams, UnderWay, CallMoves
<1>5. /\ AnswersApart' /\ AllCurrent'
      /\ \A i \in DOMAIN messages :
            /\ messages'[i].role = messages[i].role /\ messages'[i].of = messages[i].of
            /\ ~IsAnswer(messages[i], q) => messages'[i] = messages[i]
            /\ IsAnswer(messages[i], q) => Rewritten(messages[i], messages'[i], fields)
  BY <1>1, RewritingKeeps DEF CallMoves
<1>6. Undecided'
  <2>1. DOMAIN messages' = DOMAIN messages /\ DOMAIN queries' = DOMAIN queries
    BY <1>1 DEF Rewrites, CallMoves
  <2>2. \A i \in DOMAIN messages : messages'[i].approval \in Decisions =>
            messages'[i].approval = messages[i].approval
    BY <1>5 DEF Rewritten
  <2> QED
    BY <1>1, <1>5, <2>1, <2>2 DEF ChatInv, Undecided, IsAnswer
<1>7. OwnHistory'
  BY <1>1 DEF ChatInv, OwnHistory, CallMoves
<1> QED
  BY <1>3, <1>4, <1>5, <1>6, <1>7, OthersAreSettled DEF ChatInv

LEMMA RaisingStep ==
    ASSUME ChatInv, NEW q \in DOMAIN queries, UnderWay(q), Raise(q)
    PROVE  ChatInv' /\ SettledKept
<1> DEFINE fields == [text |-> << >>, status |-> "error"]
<1>1. Listed(<< >>)
  BY DEF Listed
<1>2. ProperFields(fields) /\ "approval" \notin DOMAIN fields
  BY <1>1 DEF ProperFields
<1>3. messages' = Reduced(q, << >>, fields) /\ Finish(q) /\ UNCHANGED <<session, deciding>>
  BY DEF Raise
<1> HIDE DEF fields
<1>4. Rewrites(q, fields)
  BY <1>1, <1>2, <1>3, ReducedRewrites DEF ChatInv, Shape
<1> QED
  BY <1>2, <1>3, <1>4, SettlingStep

LEMMA ApprovalsAreProper ==
    ASSUME NEW x PROVE Approval(x) \in {"pending", None} /\ Approval(x) \notin Decisions
  BY Bounds DEF Approval, Decisions

LEMMA CompletingStep ==
    ASSUME ChatInv, NEW q \in DOMAIN queries, Completes(q)
    PROVE  ChatInv' /\ SettledKept
<1> DEFINE call == queries[q]
           status == IF call.full = << >> /\ call.metadata = None THEN "blocked" ELSE "idle"
           fields == [text |-> call.full, approval |-> Approval(call.metadata),
                      status |-> status]
<1>1. Listed(call.full) /\ Listed(<< >>)
  <2>1. CallShaped(call)
    BY DEF ChatInv, Shape, Calls
  <2> QED
    BY <2>1 DEF CallShaped, Listed
<1>2. /\ messages' = Reduced(q, << >>, fields) /\ Finish(q) /\ UnderWay(q)
      /\ UNCHANGED <<session, deciding>>
  BY DEF Completes, UnderWay
<1>3. ProperFields(fields) /\ fields["approval"] \notin Decisions
  BY <1>1, ApprovalsAreProper DEF ProperFields
<1> HIDE DEF fields
<1>4. Rewrites(q, fields)
  BY <1>1, <1>2, <1>3, ReducedRewrites DEF ChatInv, Shape
<1> QED
  BY <1>2, <1>3, <1>4, SettlingStep

\* The call goes on: its answer streams on, and is not decided.
LEMMA GoingOnStep ==
    ASSUME ChatInv, NEW q \in DOMAIN queries, UnderWay(q), CallMoves(q, "reading"),
           UNCHANGED <<session, sending, active, deciding>>,
           Transcript(messages'), DOMAIN messages' = DOMAIN messages,
           AnswersApart', AllCurrent',
           \A i \in DOMAIN messages :
              /\ messages'[i].role = messages[i].role /\ messages'[i].of = messages[i].of
              /\ messages'[i].status = messages[i].status
              /\ messages'[i].approval \in Decisions =>
                    messages'[i].approval = messages[i].approval
    PROVE  ChatInv'
<1>1. conversation' = conversation /\ DOMAIN queries' = DOMAIN queries
  BY DEF session, CallMoves
<1>2. \A p \in DOMAIN queries : UnderWay(p)' <=> UnderWay(p)
  BY DEF CallMoves, UnderWay
<1>3. Shape'
  BY <1>1 DEF ChatInv, Shape, CallMoves
<1>4. ActiveIsUnderWay' /\ StillStreams'
  BY <1>1, <1>2 DEF ChatInv, ActiveIsUnderWay, StillStreams, IsAnswer
<1>5. OneQueryUnderWay'
  <2>1. ASSUME NEW p \in DOMAIN queries, UnderWay(p)
        PROVE  /\ sending' /\ active' = p /\ queries'[p].timer
               /\ \E i \in DOMAIN messages' :
                     IsAnswer(messages'[i], p) /\ messages'[i].status = "streaming"
    <3>1. p = q /\ active = q /\ sending /\ queries[q].timer
      BY <2>1, OnlyActive
    <3>2. PICK i \in DOMAIN messages :
              IsAnswer(messages[i], p) /\ messages[i].status = "streaming"
      BY <2>1 DEF ChatInv, OneQueryUnderWay, UnderWay
    <3>3. IsAnswer(messages'[i], p) /\ messages'[i].status = "streaming"
      BY <3>2 DEF IsAnswer
    <3> QED
      BY <3>1, <3>3 DEF CallMoves
  <2> QED
    BY <1>1, <1>2, <2>1 DEF OneQueryUnderWay, UnderWay
<1>6. Undecided'
  BY <1>1 DEF ChatInv, Undecided, IsAnswer
<1>7. OwnHistory'
  BY <1>1 DEF ChatInv, OwnHistory, CallMoves
<1> QED
  BY <1>3, <1>4, <1>5, <1>6, <1>7 DEF ChatInv

LEMMA RespondingStep ==
    ASSUME ChatInv, NEW q \in DOMAIN queries, Responds(q) PROVE ChatInv' /\ SettledKept
<1>1. /\ CallMoves(q, "reading") /\ UnderWay(q) /\ messages' = messages
      /\ UNCHANGED <<session, sending, active, deciding>>
  BY RespondingCall DEF Responds, UnderWay, ChatInv, Shape
<1>2. AnswersApart' /\ AllCurrent' /\ Transcript(messages')
  BY <1>1 DEF ChatInv, AnswersApart, AllCurrent, Shape, CallMoves, session
<1> QED
  BY <1>1, <1>2, GoingOnStep DEF SettledKept

LEMMA ReadingStep ==
    ASSUME ChatInv, NEW q \in DOMAIN queries, Reads(q) PROVE ChatInv' /\ SettledKept
<1> DEFINE e == Head(queries[q].left)
           fields == [approval |-> Approval(Metadata(e))]
<1>1. /\ CallMoves(q, "reading") /\ UnderWay(q)
      /\ UNCHANGED <<session, sending, active, deciding>>
  BY ReadingCall DEF Reads, UnderWay, ChatInv, Shape
<1>2. CASE messages' = messages
  <2>1. AnswersApart' /\ AllCurrent' /\ Transcript(messages')
    BY <1>1, <1>2 DEF ChatInv, AnswersApart, AllCurrent, Shape, CallMoves, session
  <2> QED
    BY <1>1, <1>2, <2>1, GoingOnStep DEF SettledKept
<1>3. CASE messages' = Reduced(q, Shown(e), fields)
  <2>1. Listed(Shown(e))
    <3>1. Listed(<< >>) /\ Listed(<<e.what>>)
      BY DEF Listed
    <3> QED
      BY <3>1 DEF Shown
  <2>2. /\ ProperFields(fields) /\ fields["approval"] \notin Decisions
        /\ DOMAIN fields = {"approval"}
    BY ApprovalsAreProper DEF ProperFields
  <2> HIDE DEF fields, e
  <2>3. Rewrites(q, fields)
    BY <1>3, <2>1, <2>2, ReducedRewrites DEF ChatInv, Shape
  <2>4. conversation' = conversation /\ DOMAIN queries' = DOMAIN queries
    BY <1>1 DEF session, CallMoves
  <2>5. /\ AnswersApart' /\ AllCurrent'
        /\ \A i \in DOMAIN messages :
              /\ messages'[i].role = messages[i].role /\ messages'[i].of = messages[i].of
              /\ ~IsAnswer(messages[i], q) => messages'[i] = messages[i]
              /\ IsAnswer(messages[i], q) => Rewritten(messages[i], messages'[i], fields)
    BY <2>3, <2>4, RewritingKeeps
  <2>6. \A i \in DOMAIN messages :
            /\ messages'[i].status = messages[i].status
            /\ messages'[i].approval \in Decisions =>
                  messages'[i].approval = messages[i].approval
    BY <2>2, <2>5 DEF Rewritten
  <2>7. Transcript(messages') /\ DOMAIN messages' = DOMAIN messages
    BY <2>3 DEF Rewrites
  <2>8. ChatInv'
    BY <1>1, <2>5, <2>6, <2>7, GoingOnStep
  <2> QED
    BY <1>1, <2>3, <2>8, OthersAreSettled
<1> QED
  BY <1>2, <1>3 DEF Reads

LEMMA NewQuery ==
    ASSUME ChatInv, Submit
    PROVE  LET q == Len(queries) + 1 IN
           /\ Calls(queries') /\ q \in 1 .. MaxQueries
           /\ DOMAIN queries = 1 .. Len(queries) /\ DOMAIN queries' = 1 .. q
           /\ \A p \in DOMAIN queries : queries'[p] = queries[p]
           /\ queries'[q].phase = "waiting" /\ queries'[q].timer
           /\ queries'[q].conversation = conversation
           /\ queries'[q].mixes \subseteq {conversation}
<1> DEFINE q == Len(queries) + 1
           c == [phase |-> "waiting", conversation |-> conversation, mixes |-> History,
                 timer |-> TRUE, answer |-> None, left |-> << >>, seen |-> {},
                 full |-> << >>, metadata |-> None]
<1>1. /\ queries' = Append(queries, c) /\ q <= MaxQueries
      /\ Listed(queries) /\ Len(queries) \in Nat /\ DOMAIN queries = 1 .. Len(queries)
  BY ListedDomain DEF Submit, ChatInv, Shape, Calls
<1>2. History \subseteq {conversation}
  BY DEF ChatInv, AllCurrent, History
<1>3. conversation \in Conversations
  BY DEF ChatInv, Shape
<1>4. /\ CallShaped(c) /\ c.phase = "waiting" /\ c.timer /\ c.conversation = conversation
      /\ c.mixes \subseteq {conversation}
  <2>1. Listed(<< >>)
    BY DEF Listed
  <2> QED
    BY <1>2, <1>3, <2>1 DEF CallShaped
<1> HIDE DEF c
<1>5. Listed(<<c>>) /\ Len(<<c>>) = 1 /\ <<c>>[1] = c
  BY DEF Listed
<1>6. queries' = queries \o <<c>>
  BY <1>1 DEF Listed
<1>7. /\ Listed(queries') /\ Len(queries') = q /\ DOMAIN queries' = 1 .. q
      /\ \A p \in DOMAIN queries : queries'[p] = queries[p]
      /\ queries'[q] = c
  BY <1>1, <1>5, <1>6, ListedConcat
<1>8. Calls(queries')
  <2>1. \A p \in 1 .. q : p \in DOMAIN queries \/ p = q
    BY <1>1
  <2> QED
    BY <1>1, <1>4, <1>7, <2>1 DEF ChatInv, Shape, Calls
<1> QED
  BY <1>1, <1>4, <1>7, <1>8, Bounds

\* Messages at the end of a transcript leave it a transcript.
LEMMA LongerTranscript ==
    ASSUME Transcript(messages), NEW t, Transcript(t), messages' = messages \o t
    PROVE  /\ Transcript(messages') /\ DOMAIN messages = 1 .. Len(messages)
           /\ Len(messages) \in Nat /\ Len(t) \in Nat
           /\ DOMAIN messages' = 1 .. Len(messages) + Len(t)
           /\ \A i \in DOMAIN messages : messages'[i] = messages[i]
           /\ \A i \in 1 .. Len(t) : messages'[Len(messages) + i] = t[i]
<1>1. /\ Listed(messages) /\ Listed(t) /\ Len(messages) \in Nat /\ Len(t) \in Nat
      /\ DOMAIN messages = 1 .. Len(messages) /\ DOMAIN t = 1 .. Len(t)
  BY ListedDomain DEF Transcript
<1>2. /\ Listed(messages') /\ DOMAIN messages' = 1 .. Len(messages) + Len(t)
      /\ \A i \in DOMAIN messages : messages'[i] = messages[i]
      /\ \A i \in 1 .. Len(t) : messages'[Len(messages) + i] = t[i]
  BY <1>1, ListedConcat
<1>3. ASSUME NEW i \in 1 .. Len(messages) + Len(t) PROVE Shaped(messages'[i])
  <2>1. CASE i \in 1 .. Len(messages)
    BY <1>1, <1>2, <2>1 DEF Transcript
  <2>2. CASE i \notin 1 .. Len(messages)
    <3> DEFINE j == i - Len(messages)
    <3>1. j \in 1 .. Len(t) /\ i = Len(messages) + j
      BY <1>1, <2>2
    <3> HIDE DEF j
    <3>2. messages'[i] = t[j] /\ j \in DOMAIN t
      BY <1>1, <1>2, <3>1
    <3> QED
      BY <3>2 DEF Transcript
  <2> QED
    BY <2>1, <2>2
<1>4. Transcript(messages')
  BY <1>1, <1>2, <1>3 DEF Transcript
<1> QED
  BY <1>1, <1>2, <1>4

LEMMA KeptAreSettled ==
    ASSUME \A i \in DOMAIN messages : messages'[i] = messages[i] PROVE SettledKept
  BY DEF SettledKept

LEMMA SubmitStep == ASSUME ChatInv, Submit PROVE ChatInv' /\ SettledKept
<1> DEFINE q == Len(queries) + 1
           n == Len(messages)
           asked == Message("user", q, None)
           reply == Message("assistant", q, "streaming")
<1>1. /\ Calls(queries') /\ q \in 1 .. MaxQueries
      /\ DOMAIN queries = 1 .. Len(queries) /\ DOMAIN queries' = 1 .. q
      /\ \A p \in DOMAIN queries : queries'[p] = queries[p]
      /\ queries'[q].phase = "waiting" /\ queries'[q].timer
      /\ queries'[q].conversation = conversation
      /\ queries'[q].mixes \subseteq {conversation}
  BY NewQuery
<1>2. /\ ~sending /\ sending' = TRUE /\ active' = q /\ deciding' = deciding
      /\ conversation' = conversation /\ messages' = messages \o <<asked, reply>>
  BY DEF Submit, session
<1>l. Len(queries) \in Nat /\ q \notin DOMAIN queries
  BY <1>1, ListedDomain DEF ChatInv, Shape, Calls
<1>3. /\ Shaped(asked) /\ Shaped(reply) /\ asked.role = "user" /\ reply.role = "assistant"
      /\ asked.conversation = conversation /\ reply.conversation = conversation
      /\ reply.of = q /\ reply.status = "streaming" /\ reply.approval = None
  BY <1>1, Bounds, NewMessage DEF ChatInv, Shape
<1> HIDE DEF asked, reply
<1> DEFINE t == <<asked, reply>>
<1>4. Transcript(t) /\ Len(t) = 2 /\ t[1] = asked /\ t[2] = reply
  BY <1>3 DEF Transcript, Listed
<1>5. /\ Transcript(messages') /\ DOMAIN messages = 1 .. n /\ n \in Nat
      /\ DOMAIN messages' = 1 .. n + 2
      /\ \A i \in DOMAIN messages : messages'[i] = messages[i]
      /\ messages'[n + 1] = asked /\ messages'[n + 2] = reply
  <2>1. Transcript(messages) /\ messages' = messages \o t
    BY <1>2 DEF ChatInv, Shape
  <2> HIDE DEF t
  <2>2. /\ Transcript(messages') /\ DOMAIN messages = 1 .. n /\ n \in Nat
        /\ DOMAIN messages' = 1 .. n + 2
        /\ \A i \in DOMAIN messages : messages'[i] = messages[i]
        /\ \A i \in 1 .. 2 : messages'[n + i] = t[i]
    BY <1>4, <2>1, LongerTranscript
  <2> QED
    BY <1>4, <2>2
<1>6. \A i \in DOMAIN messages' : i \in DOMAIN messages \/ i = n + 1 \/ i = n + 2
  BY <1>5
<1>7. \A p \in DOMAIN queries' : p \in DOMAIN queries \/ p = q
  BY <1>1, <1>l
<1>8. \A p \in DOMAIN queries : ~UnderWay(p)
  BY <1>2, OnlyActive
<1> HIDE DEF q, n
<1>9. Shape'
  BY <1>1, <1>2, <1>5 DEF ChatInv, Shape
<1>10. n + 2 \in DOMAIN messages' /\ q \in DOMAIN queries'
  BY <1>1, <1>5, <1>l DEF q
<1>11. ActiveIsUnderWay' /\ OneQueryUnderWay'
  <2>1. \A p \in DOMAIN queries' : UnderWay(p)' => p = q
    BY <1>1, <1>7, <1>8 DEF UnderWay
  <2>2. IsAnswer(messages'[n + 2], q) /\ messages'[n + 2].status = "streaming"
    BY <1>3, <1>5 DEF IsAnswer
  <2>3. OneQueryUnderWay'
    BY <1>1, <1>2, <1>10, <2>1, <2>2 DEF OneQueryUnderWay, UnderWay, IsAnswer
  <2>4. ActiveIsUnderWay'
    BY <1>1, <1>2, <1>10 DEF ActiveIsUnderWay, UnderWay
  <2> QED
    BY <2>3, <2>4
<1>12. \A i \in DOMAIN messages : messages[i].role = "assistant" =>
            messages[i].of \in DOMAIN queries /\ messages[i].of # q
  BY <1>l DEF ChatInv, AnswersApart
<1>13. AnswersApart'
  <2>1. \A i \in DOMAIN messages' :
          messages'[i].role = "assistant" => messages'[i].of \in DOMAIN queries'
    <3>1. \A i \in DOMAIN messages : messages[i].role = "assistant" =>
              messages'[i].of \in DOMAIN queries'
      BY <1>1, <1>5, <1>12, <1>l DEF q
    <3>2. asked.role # "assistant" /\ reply.of \in DOMAIN queries'
      BY <1>3, <1>10
    <3> QED
      BY <1>5, <1>6, <3>1, <3>2
  <2>2. ASSUME NEW i \in DOMAIN messages', NEW j \in DOMAIN messages',
               messages'[i].role = "assistant", messages'[j].role = "assistant",
               messages'[i].of = messages'[j].of
        PROVE  i = j
    <3>1. CASE i \in DOMAIN messages /\ j \in DOMAIN messages
      BY <1>5, <2>2, <3>1 DEF ChatInv, AnswersApart
    <3>2. CASE i \notin DOMAIN messages \/ j \notin DOMAIN messages
      BY <1>3, <1>5, <1>6, <1>12, <2>2, <3>2
    <3> QED
      BY <3>1, <3>2
  <2> QED
    BY <2>1, <2>2 DEF AnswersApart
<1>14. StillStreams'
  <2>1. ASSUME NEW i \in DOMAIN messages', IsAnswer(messages'[i], q)
        PROVE  messages'[i].status = "streaming"
    BY <1>3, <1>5, <1>6, <1>12, <2>1 DEF IsAnswer
  <2> QED
    BY <1>1, <1>7, <1>8, <2>1 DEF StillStreams, UnderWay, IsAnswer
<1>15. Undecided'
  <2> SUFFICES ASSUME NEW p \in DOMAIN queries', NEW i \in DOMAIN messages',
                      deciding[p] # None, IsAnswer(messages'[i], p)
               PROVE  messages'[i].approval \notin Decisions
    BY <1>2 DEF Undecided, IsAnswer
  <2>1. CASE i \in DOMAIN messages
    BY <1>5, <1>7, <1>12, <2>1 DEF ChatInv, Undecided, IsAnswer
  <2>2. CASE i \notin DOMAIN messages
    BY <1>3, <1>5, <1>6, <2>2, Bounds DEF IsAnswer
  <2> QED
    BY <2>1, <2>2
<1>16. AllCurrent'
  BY <1>2, <1>3, <1>5, <1>6 DEF ChatInv, AllCurrent
<1>17. OwnHistory'
  BY <1>1, <1>7 DEF ChatInv, OwnHistory
<1> QED
  BY <1>5, <1>9, <1>11, <1>13, <1>14, <1>15, <1>16, <1>17, KeptAreSettled DEF ChatInv

LEMMA CommandStep == ASSUME ChatInv, Command PROVE ChatInv' /\ SettledKept
<1> DEFINE n == Len(messages)
           notice == Message("notice", 0, None)
<1>1. /\ messages' = Append(messages, notice) /\ conversation' = conversation
      /\ UNCHANGED <<sending, active, queries, deciding>>
  BY DEF Command
<1>2. /\ Shaped(notice) /\ notice.role = "notice" /\ notice.conversation = conversation
  BY Bounds, NewMessage DEF ChatInv, Shape
<1> HIDE DEF notice
<1> DEFINE t == <<notice>>
<1>3. Transcript(t) /\ Len(t) = 1 /\ t[1] = notice
  BY <1>2 DEF Transcript, Listed
<1>4. messages' = messages \o t
  BY <1>1 DEF ChatInv, Shape, Transcript, Listed
<1>5. /\ Transcript(messages') /\ DOMAIN messages = 1 .. n /\ n \in Nat
      /\ DOMAIN messages' = 1 .. n + 1
      /\ \A i \in DOMAIN messages : messages'[i] = messages[i]
      /\ messages'[n + 1] = notice
  <2>1. Transcript(messages)
    BY DEF ChatInv, Shape
  <2> HIDE DEF t
  <2>2. /\ Transcript(messages') /\ DOMAIN messages = 1 .. n /\ n \in Nat
        /\ DOMAIN messages' = 1 .. n + 1
        /\ \A i \in DOMAIN messages : messages'[i] = messages[i]
        /\ \A i \in 1 .. 1 : messages'[n + i] = t[i]
    BY <1>3, <1>4, <2>1, LongerTranscript
  <2> QED
    BY <1>3, <2>2
<1>6. \A i \in DOMAIN messages' : i \in DOMAIN messages \/ i = n + 1
  BY <1>5
<1>7. \A i \in DOMAIN messages : i \in DOMAIN messages'
  BY <1>5
<1> HIDE DEF n
<1>8. \A i \in DOMAIN messages' : messages'[i].role = "assistant" =>
          i \in DOMAIN messages /\ messages'[i] = messages[i]
  BY <1>2, <1>5, <1>6
<1>9. Shape' /\ ActiveIsUnderWay'
  BY <1>1, <1>5 DEF ChatInv, Shape, ActiveIsUnderWay, UnderWay
<1>10. OneQueryUnderWay'
  BY <1>1, <1>5, <1>7 DEF ChatInv, OneQueryUnderWay, IsAnswer
<1>11. AnswersApart' /\ StillStreams' /\ Undecided'
  BY <1>1, <1>8 DEF ChatInv, AnswersApart, StillStreams, Undecided, IsAnswer, UnderWay
<1>12. AllCurrent' /\ OwnHistory'
  BY <1>1, <1>2, <1>5, <1>6 DEF ChatInv, AllCurrent, OwnHistory
<1> QED
  BY <1>5, <1>9, <1>10, <1>11, <1>12, KeptAreSettled DEF ChatInv

LEMMA ClearStep == ASSUME ChatInv, Clear PROVE ChatInv' /\ SettledKept
<1> DEFINE notice == [Message("notice", 0, None) EXCEPT !.conversation = conversation + 1]
<1>1. /\ conversation \in 0 .. MaxClears /\ conversation < MaxClears
      /\ conversation' = conversation + 1 /\ messages' = <<notice>>
      /\ sending' = FALSE /\ active' = None /\ deciding' = deciding
      /\ queries' = IF active = None THEN queries ELSE Ended(active)
  BY DEF Clear, ChatInv, Shape, Conversations
<1>2. Shaped(notice) /\ notice.role = "notice" /\ notice.conversation = conversation + 1
  <2>1. Shaped(Message("notice", 0, None)) /\ Message("notice", 0, None).role = "notice"
    BY Bounds, NewMessage DEF ChatInv, Shape
  <2>2. conversation + 1 \in Conversations
    BY <1>1, Bounds DEF Conversations
  <2> QED
    BY <2>1, <2>2 DEF Shaped
<1> HIDE DEF notice
<1>3. /\ Transcript(messages') /\ DOMAIN messages' = {1} /\ messages'[1] = notice
  BY <1>1, <1>2 DEF Transcript, Listed
<1>4. /\ Calls(queries') /\ DOMAIN queries' = DOMAIN queries
      /\ \A p \in DOMAIN queries : /\ queries'[p].conversation = queries[p].conversation
                                   /\ queries'[p].mixes = queries[p].mixes
                                   /\ ~UnderWay(p)'
  <2>1. CASE active = None
    <3>1. \A p \in DOMAIN queries : ~UnderWay(p)
      <4>1. DOMAIN queries \subseteq Nat
        BY ListedDomain DEF ChatInv, Shape, Calls
      <4> QED
        BY <2>1, <4>1, OnlyActive, Bounds
    <3> QED
      BY <1>1, <2>1, <3>1 DEF ChatInv, Shape, UnderWay
  <2>2. CASE active # None
    <3>1. active \in DOMAIN queries /\ UnderWay(active)
      BY <2>2 DEF ChatInv, ActiveIsUnderWay
    <3>2. CallMoves(active, "ended")
      BY <1>1, <2>2, <3>1, EndingCall DEF ChatInv, Shape
    <3> QED
      BY <3>2, OnlyActive DEF CallMoves, UnderWay
  <2> QED
    BY <2>1, <2>2
<1>5. Shape'
  <2>1. conversation' \in Conversations
    BY <1>1, Bounds DEF Conversations
  <2> QED
    BY <1>1, <1>3, <1>4, <2>1 DEF ChatInv, Shape
<1>6. ActiveIsUnderWay' /\ OneQueryUnderWay'
  BY <1>1, <1>4 DEF ActiveIsUnderWay, OneQueryUnderWay, UnderWay
<1>7. AnswersApart' /\ StillStreams' /\ Undecided'
  BY <1>2, <1>3 DEF AnswersApart, StillStreams, Undecided, IsAnswer
<1>8. AllCurrent' /\ OwnHistory'
  BY <1>1, <1>2, <1>3, <1>4 DEF ChatInv, AllCurrent, OwnHistory
<1>9. SettledKept
  BY <1>1 DEF SettledKept
<1> QED
  BY <1>5, <1>6, <1>7, <1>8, <1>9 DEF ChatInv

\* The buttons of an approval: a decision is sent while the answer has none.
LEMMA DecidingStep ==
    ASSUME ChatInv, NEW q \in DOMAIN queries, Decide(q) \/ Refused(q)
    PROVE  ChatInv' /\ SettledKept
<1>1. q \in Queries /\ deciding \in [Queries -> Decisions \cup {None}]
  BY ListedDomain, Bounds DEF ChatInv, Shape, Calls, Queries
<1>2. PICK d \in Decisions \cup {None} : deciding' = [deciding EXCEPT ![q] = d]
  BY DEF Decide, Refused
<1>3. /\ UNCHANGED <<messages, sending, active, queries>> /\ conversation' = conversation
  BY DEF Decide, Refused, session
<1>4. deciding'[q] # None =>
        \E i \in DOMAIN messages : IsAnswer(messages[i], q) /\ messages[i].approval = "pending"
  BY <1>1 DEF Decide, Refused
<1>5. \A p \in DOMAIN queries : p # q => deciding'[p] = deciding[p]
  BY <1>1, <1>2
<1>6. Undecided'
  <2>1. ASSUME NEW i \in DOMAIN messages, IsAnswer(messages[i], q), deciding'[q] # None
        PROVE  messages[i].approval \notin Decisions
    BY <1>4, <2>1 DEF ChatInv, AnswersApart, IsAnswer, Decisions
  <2> QED
    BY <1>3, <1>5, <2>1 DEF ChatInv, Undecided, IsAnswer
<1>7. Shape'
  BY <1>1, <1>2, <1>3 DEF ChatInv, Shape
<1>8. /\ ActiveIsUnderWay' /\ OneQueryUnderWay' /\ AnswersApart' /\ StillStreams'
      /\ AllCurrent' /\ OwnHistory'
  BY <1>3 DEF ChatInv, ActiveIsUnderWay, OneQueryUnderWay, AnswersApart, StillStreams,
              AllCurrent, OwnHistory, UnderWay, IsAnswer
<1> QED
  BY <1>3, <1>6, <1>7, <1>8, KeptAreSettled DEF ChatInv

\* A decision is shown where none was.
LEMMA RecordedStep ==
    ASSUME ChatInv, NEW q \in DOMAIN queries, Recorded(q)
    PROVE  ChatInv' /\ SettledKept
<1> DEFINE fields == [approval |-> deciding[q]]
<1>1. /\ q \in Queries /\ deciding \in [Queries -> Decisions \cup {None}]
      /\ deciding[q] \in Decisions
  BY ListedDomain, Bounds DEF ChatInv, Shape, Calls, Queries, Recorded
<1>2. /\ messages' = Reduced(q, << >>, fields) /\ deciding' = [deciding EXCEPT ![q] = None]
      /\ UNCHANGED <<sending, active, queries>> /\ conversation' = conversation
  BY DEF Recorded, session
<1>3. /\ Listed(<< >>) /\ ProperFields(fields) /\ DOMAIN fields = {"approval"}
      /\ fields["approval"] = deciding[q] /\ "text" \notin DOMAIN fields
  BY <1>1 DEF ProperFields, Listed
<1> HIDE DEF fields
<1>4. /\ Rewrites(q, fields)
      /\ \A i \in DOMAIN messages : messages'[i].text = messages[i].text
  <2>1. Transcript(messages)
    BY DEF ChatInv, Shape
  <2> DEFINE delta == << >>
  <2>2. delta = << >> /\ messages' = Reduced(q, delta, fields) /\ Listed(delta)
    BY <1>2, <1>3
  <2> HIDE DEF delta
  <2> QED
    BY <1>3, <2>1, <2>2, ReducedRewrites
<1>5. Transcript(messages') /\ DOMAIN messages' = DOMAIN messages
  BY <1>4 DEF Rewrites
<1>6. /\ AnswersApart' /\ AllCurrent'
      /\ \A i \in DOMAIN messages :
            /\ messages'[i].role = messages[i].role /\ messages'[i].of = messages[i].of
            /\ messages'[i].conversation = messages[i].conversation
            /\ ~IsAnswer(messages[i], q) => messages'[i] = messages[i]
            /\ IsAnswer(messages[i], q) => Rewritten(messages[i], messages'[i], fields)
  BY <1>2, <1>4, RewritingKeeps
<1>7. \A i \in DOMAIN messages : /\ messages'[i].status = messages[i].status
                                 /\ IsAnswer(messages'[i], q) <=> IsAnswer(messages[i], q)
  BY <1>3, <1>6 DEF Rewritten, IsAnswer
<1>8. Shape' /\ ActiveIsUnderWay' /\ OwnHistory'
  BY <1>1, <1>2, <1>5 DEF ChatInv, Shape, ActiveIsUnderWay, OwnHistory, UnderWay
<1>9. OneQueryUnderWay' /\ StillStreams'
  BY <1>2, <1>5, <1>6, <1>7 DEF ChatInv, OneQueryUnderWay, StillStreams, UnderWay, IsAnswer
<1>10. Undecided'
  <2>1. /\ deciding'[q] = None
        /\ \A p \in DOMAIN queries : p # q => deciding'[p] = deciding[p]
    BY <1>1, <1>2
  <2>2. \A p \in DOMAIN queries, i \in DOMAIN messages :
            p # q /\ IsAnswer(messages'[i], p) =>
                messages'[i] = messages[i] /\ IsAnswer(messages[i], p)
    BY <1>6 DEF IsAnswer
  <2> QED
    BY <1>2, <1>5, <2>1, <2>2 DEF ChatInv, Undecided
<1>11. SettledKept
  <2>1. ASSUME NEW i \in DOMAIN messages
        PROVE  /\ Rest(messages'[i]) = Rest(messages[i])
               /\ messages'[i].approval # messages[i].approval =>
                    messages[i].approval \notin Decisions /\ messages'[i].approval \in Decisions
    <3>1. CASE ~IsAnswer(messages[i], q)
      BY <1>6, <3>1
    <3>2. CASE IsAnswer(messages[i], q)
      <4>1. Shaped(messages[i]) /\ Shaped(messages'[i])
        BY <1>5 DEF ChatInv, Shape, Transcript
      <4>2. Rest(messages'[i]) = Rest(messages[i])
        BY <1>4, <1>6, <1>7, <4>1, SameRest
      <4>3. messages'[i].approval = deciding[q]
        BY <1>3, <1>6, <3>2 DEF Rewritten
      <4>4. messages[i].approval \notin Decisions
        BY <3>2 DEF ChatInv, Undecided, Recorded
      <4> QED
        BY <1>1, <4>2, <4>3, <4>4
    <3> QED
      BY <3>1, <3>2
  <2> QED
    BY <2>1 DEF SettledKept
<1> QED
  BY <1>6, <1>8, <1>9, <1>10, <1>11 DEF ChatInv

----------------------------------------------------------------------------
(* The theorems *)

LEMMA ChatInvInitially == Init => ChatInv
<1> SUFFICES ASSUME Init PROVE ChatInv
  OBVIOUS
<1> DEFINE notice == Message("notice", 0, None)
<1>1. /\ conversation = 0 /\ messages = <<notice>> /\ queries = << >>
      /\ sending = FALSE /\ active = None /\ deciding = [q \in Queries |-> None]
  BY DEF Init
<1>2. conversation \in Conversations
  BY <1>1, Bounds DEF Conversations
<1>3. Shaped(notice) /\ notice.role = "notice" /\ notice.conversation = conversation
  BY <1>2, Bounds, NewMessage
<1> HIDE DEF notice
<1>4. Transcript(messages) /\ DOMAIN messages = {1} /\ messages[1] = notice
  BY <1>1, <1>3 DEF Transcript, Listed
<1>5. Calls(queries) /\ DOMAIN queries = {}
  BY <1>1, Bounds DEF Calls, Listed
<1> QED
  BY <1>1, <1>2, <1>3, <1>4, <1>5
     DEF ChatInv, Shape, ActiveIsUnderWay, OneQueryUnderWay, AnswersApart, StillStreams,
         Undecided, AllCurrent, OwnHistory, IsAnswer

LEMMA ChatStep == ChatInv /\ [Next]_vars => ChatInv' /\ (SettledKept \/ UNCHANGED vars)
<1> SUFFICES ASSUME ChatInv, [Next]_vars PROVE ChatInv' /\ (SettledKept \/ UNCHANGED vars)
  OBVIOUS
<1>1. CASE Submit
  BY <1>1, SubmitStep
<1>2. CASE Command
  BY <1>2, CommandStep
<1>3. CASE Cancel
  <2>1. active \in DOMAIN queries /\ UnderWay(active) /\ Raise(active)
    BY <1>3 DEF Cancel, ChatInv, ActiveIsUnderWay
  <2> QED
    BY <2>1, RaisingStep
<1>4. CASE Clear
  BY <1>4, ClearStep
<1>5. ASSUME NEW q \in DOMAIN queries, Decide(q) \/ Refused(q)
      PROVE  ChatInv' /\ SettledKept
  BY <1>5, DecidingStep
<1>6. ASSUME NEW q \in DOMAIN queries, Recorded(q) PROVE ChatInv' /\ SettledKept
  BY <1>6, RecordedStep
<1>7. ASSUME NEW q \in DOMAIN queries, Breaks(q) \/ TimesOut(q) PROVE ChatInv' /\ SettledKept
  <2>1. UnderWay(q) /\ Raise(q)
    BY <1>7 DEF Breaks, TimesOut, UnderWay
  <2> QED
    BY <2>1, RaisingStep
<1>8. ASSUME NEW q \in DOMAIN queries, Responds(q) PROVE ChatInv' /\ SettledKept
  BY <1>8, RespondingStep
<1>9. ASSUME NEW q \in DOMAIN queries, Reads(q) PROVE ChatInv' /\ SettledKept
  BY <1>9, ReadingStep
<1>10. ASSUME NEW q \in DOMAIN queries, Completes(q) PROVE ChatInv' /\ SettledKept
  BY <1>10, CompletingStep
<1>11. CASE UNCHANGED vars
  <2>1. UNCHANGED <<messages, sending, active, conversation, queries, deciding>>
    BY <1>11 DEF vars
  <2> QED
    BY <1>11, <2>1
       DEF ChatInv, Shape, ActiveIsUnderWay, OneQueryUnderWay, AnswersApart, StillStreams,
           Undecided, AllCurrent, OwnHistory, IsAnswer, UnderWay
<1> QED
  BY <1>1, <1>2, <1>3, <1>4, <1>5, <1>6, <1>7, <1>8, <1>9, <1>10, <1>11 DEF Next

LEMMA ChatInvHolds == Spec => []ChatInv
<1>1. ChatInv /\ [Next]_vars => ChatInv'
  BY ChatStep
<1> QED
  BY <1>1, ChatInvInitially, PTL DEF Spec

\* The transcript shows its own conversation, at most one query is under way and
\* the user can cancel it, and no query mixes conversations into its history,
\* however the cleared, aborted and late ones interleave (useChatSession.ts:
\* submitMessage, clearConversation; chatReducer.ts).
THEOREM ConversationsAreIsolated == Spec => []ConversationIsIsolated
<1>1. ChatInv => ConversationIsIsolated
  BY DEF ChatInv, ConversationIsIsolated, AllCurrent, OwnHistory
<1> QED
  BY <1>1, ChatInvHolds, PTL

\* No late event rewrites an answer that is settled: only its approval changes,
\* once, to a decision (chatReducer.ts; ApprovalActions.tsx: decide).
THEOREM AnswersStaySettled == Spec => SettledStays
<1>1. ChatInv /\ [Next]_vars =>
        [\A i \in DOMAIN messages : messages[i].status # "streaming" =>
             \/ conversation' # conversation
             \/ /\ Rest(messages'[i]) = Rest(messages[i])
                /\ messages'[i].approval # messages[i].approval =>
                     messages[i].approval \notin Decisions /\ messages'[i].approval \in Decisions]_vars
  BY ChatStep DEF SettledKept
<1> QED
  BY <1>1, ChatInvHolds, PTL DEF Spec, SettledStays

----------------------------------------------------------------------------
(* What the wire carries of an answer, and what a call has shown of it *)

\* On the surface s, position p of the stream w stems from the event from[p] of the
\* answer a, if it is a delta; and the wire has every delta of the answer.
Carries(s, w, from, a) ==
    /\ Listed(w)
    /\ \A p \in 1 .. Len(w) : w[p].kind = "delta" =>
          /\ from[p] \in DOMAIN a /\ a[from[p]].kind = "delta" /\ a[from[p]].what = w[p].what
          /\ Heard(s, a[from[p]]) = <<w[p]>>
    /\ \A p, q \in 1 .. Len(w) :
          p < q /\ w[p].kind = "delta" /\ w[q].kind = "delta" => from[p] < from[q]
    /\ \A i \in DOMAIN a : a[i].kind = "delta" =>
          \E p \in 1 .. Len(w) : w[p].kind = "delta" /\ from[p] = i

\* The call c has read the first n events of w.
HasRead(c, w, n) ==
    /\ n \in 0 .. Len(w) /\ Listed(c.left) /\ Len(c.left) = Len(w) - n
    /\ \A i \in 1 .. Len(c.left) : c.left[i] = w[n + i]
    /\ c.seen = {w[p] : p \in 1 .. n}

\* Delta p of the stream w is not shown: it came before, or the text that the deltas
\* before it have made ends with it.
Dropped(full, at, w, p) ==
    \/ \E q \in 1 .. p - 1 : w[q] = w[p]
    \/ \E k \in 0 .. Len(full) :
          /\ \A l \in 1 .. Len(full) : l <= k <=> at[l] < p
          /\ EndsWith(SubSeq(full, 1, k), w[p].what)

\* Token k of the text full is that of event at[k] of w, which is the first of its
\* kind; and a delta among the first n is shown or dropped.
Shows(full, at, w, n) ==
    /\ Listed(full)
    /\ \A k \in 1 .. Len(full) :
          /\ at[k] \in 1 .. n /\ w[at[k]].kind = "delta" /\ full[k] = w[at[k]].what
          /\ \A p \in 1 .. at[k] - 1 : w[p] # w[at[k]]
    /\ \A k, l \in 1 .. Len(full) : k < l => at[k] < at[l]
    /\ \A p \in 1 .. n : w[p].kind = "delta" =>
          (\E k \in 1 .. Len(full) : at[k] = p) \/ Dropped(full, at, w, p)

IsReading(s, c) ==
    \E w, from, n, at :
       Carries(s, w, from, c.answer) /\ HasRead(c, w, n) /\ Shows(c.full, at, w, n)

\* What a client hears of an event is one event at most, and a delta of a delta.
LEMMA HeardEvents ==
    ASSUME NEW e \in Events, NEW s
    PROVE  /\ Heard(s, e) \in Seq(Events)
           /\ Len(Heard(s, e)) \in 0 .. 1
           /\ e.kind = "delta" => Len(Heard(s, e)) = 1
           /\ Len(Heard(s, e)) = 1 /\ Heard(s, e)[1].kind = "delta" =>
                 e.kind = "delta" /\ Heard(s, e)[1].what = e.what
           /\ Len(Heard(s, e)) = 1 /\ e.kind = "delta" =>
                 Heard(s, e)[1].kind = "delta" /\ Heard(s, e)[1].what = e.what
<1>1. CASE s # "invocations" /\ e.kind = "progress"
  BY <1>1 DEF Heard, Public
<1>2. CASE s # "invocations" /\ e.kind = "delta"
  <2> DEFINE p == [e EXCEPT !.seq = 0]
  <2>1. p \in Events /\ p.kind = e.kind /\ p.what = e.what
    BY <1>2 DEF Events
  <2>2. Heard(s, e) = <<p>>
    BY <1>2 DEF Heard, Public
  <2> HIDE DEF p
  <2> QED
    BY <2>1, <2>2
<1>3. CASE s = "invocations" \/ e.kind \notin {"progress", "delta"}
  <2>1. Heard(s, e) = <<e>>
    BY <1>3 DEF Heard, Public
  <2> QED
    BY <2>1
<1>4. \/ s # "invocations" /\ e.kind = "progress"
      \/ s # "invocations" /\ e.kind = "delta"
      \/ s = "invocations" \/ e.kind \notin {"progress", "delta"}
  OBVIOUS
<1> QED
  BY <1>1, <1>2, <1>3, <1>4, Zenon

LEMMA HeardIsCarried ==
    ASSUME NEW a \in Seq(Events), NEW on
    PROVE  LET w == FlattenSeq([i \in DOMAIN a |-> Heard(on, a[i])])
           IN  w \in Seq(Events) /\ \E from : Carries(on, w, from, a)
<1> DEFINE s == [i \in DOMAIN a |-> Heard(on, a[i])]
           w == FlattenSeq(s)
<1>1. Len(a) \in Nat /\ DOMAIN a = 1 .. Len(a) /\ \A i \in 1 .. Len(a) : a[i] \in Events
  OBVIOUS
<1>2. s \in Seq(Seq(Events)) /\ Len(s) = Len(a)
  <2>1. \A i \in 1 .. Len(a) : Heard(on, a[i]) \in Seq(Events)
    BY <1>1, HeardEvents
  <2>2. s = [i \in 1 .. Len(a) |-> Heard(on, a[i])]
    BY <1>1
  <2> HIDE DEF s
  <2> QED
    BY <1>1, <2>1, <2>2
<1>3. \A i \in 1 .. Len(a) : s[i] = Heard(on, a[i])
  BY <1>1
<1> HIDE DEF s
<1>4. w \in Seq(Events) /\ \E from, at : Places(w, s, Len(s), from, at)
  BY <1>2, FlattenPlaces
<1>5. PICK from, at : Places(w, s, Len(a), from, at)
  BY <1>2, <1>4
<1> HIDE DEF w
<1>6. Len(w) \in Nat /\ Listed(w)
  BY <1>4, SeqIsListed
<1>7. /\ \A p \in 1 .. Len(w) : /\ from[p] \in 1 .. Len(a) /\ at[p] \in 1 .. Len(s[from[p]])
                                /\ w[p] = s[from[p]][at[p]]
      /\ \A p, q \in 1 .. Len(w) :
            p < q => from[p] < from[q] \/ (from[p] = from[q] /\ at[p] < at[q])
      /\ \A i \in 1 .. Len(a) : \A j \in 1 .. Len(s[i]) :
            \E p \in 1 .. Len(w) : from[p] = i /\ at[p] = j
  BY <1>5 DEF Places
<1>8. \A p \in 1 .. Len(w) :
        /\ from[p] \in 1 .. Len(a) /\ at[p] = 1 /\ Len(Heard(on, a[from[p]])) = 1
        /\ w[p] = Heard(on, a[from[p]])[1]
  <2> SUFFICES ASSUME NEW p \in 1 .. Len(w)
               PROVE  /\ from[p] \in 1 .. Len(a) /\ at[p] = 1 /\ Len(Heard(on, a[from[p]])) = 1
                      /\ w[p] = Heard(on, a[from[p]])[1]
    OBVIOUS
  <2>1. /\ from[p] \in 1 .. Len(a) /\ s[from[p]] = Heard(on, a[from[p]])
        /\ at[p] \in 1 .. Len(Heard(on, a[from[p]])) /\ w[p] = Heard(on, a[from[p]])[at[p]]
    BY <1>3, <1>7
  <2>2. Len(Heard(on, a[from[p]])) \in 0 .. 1
    BY <1>1, <2>1, HeardEvents
  <2>3. at[p] = 1 /\ Len(Heard(on, a[from[p]])) = 1
    BY <2>1, <2>2
  <2> QED
    BY <2>1, <2>3
<1>9. ASSUME NEW p \in 1 .. Len(w), NEW q \in 1 .. Len(w), p < q PROVE from[p] < from[q]
  <2>1. at[p] = 1 /\ at[q] = 1
    BY <1>8
  <2> QED
    BY <1>7, <1>9, <2>1
<1>10. ASSUME NEW p \in 1 .. Len(w), w[p].kind = "delta"
       PROVE  /\ from[p] \in DOMAIN a /\ a[from[p]].kind = "delta" /\ a[from[p]].what = w[p].what
              /\ Heard(on, a[from[p]]) = <<w[p]>>
  <2>1. /\ from[p] \in 1 .. Len(a) /\ a[from[p]] \in Events
        /\ Len(Heard(on, a[from[p]])) = 1 /\ w[p] = Heard(on, a[from[p]])[1]
    BY <1>1, <1>8
  <2>2. a[from[p]].kind = "delta" /\ a[from[p]].what = w[p].what
    BY <1>10, <2>1, HeardEvents
  <2>3. Heard(on, a[from[p]]) \in Seq(Events)
    BY <2>1, HeardEvents
  <2>4. Heard(on, a[from[p]]) = <<w[p]>>
    BY <2>1, <2>3
  <2> QED
    BY <1>1, <2>1, <2>2, <2>4
<1>11. ASSUME NEW i \in DOMAIN a, a[i].kind = "delta"
       PROVE  \E p \in 1 .. Len(w) : w[p].kind = "delta" /\ from[p] = i
  <2>1. i \in 1 .. Len(a) /\ a[i] \in Events /\ s[i] = Heard(on, a[i])
    BY <1>1, <1>3
  <2>2. Len(Heard(on, a[i])) = 1
    BY <1>11, <2>1, HeardEvents
  <2>3. 1 \in 1 .. Len(s[i])
    BY <2>1, <2>2
  <2>4. PICK p \in 1 .. Len(w) : from[p] = i
    BY <1>7, <2>1, <2>3
  <2>5. w[p] = Heard(on, a[i])[1]
    BY <1>8, <2>4
  <2>6. w[p].kind = "delta"
    BY <1>11, <2>1, <2>2, <2>5, HeardEvents
  <2> QED
    BY <2>4, <2>6
<1>12. Carries(on, w, from, a)
  BY <1>6, <1>9, <1>10, <1>11 DEF Carries
<1> QED
  BY <1>4, <1>12 DEF w, s

\* What follows the stream and is no delta changes nothing.
LEMMA MoreIsCarried ==
    ASSUME NEW s, NEW w, NEW from, NEW a, Carries(s, w, from, a), NEW e, e.kind # "delta"
    PROVE  Carries(s, w \o <<e>>, from, a)
<1> DEFINE v == w \o <<e>>
<1>1. /\ Listed(v) /\ Len(w) \in Nat /\ Len(v) = Len(w) + 1
      /\ \A p \in 1 .. Len(w) : v[p] = w[p]
      /\ v[Len(w) + 1] = e
  <2>1. Listed(w) /\ Listed(<<e>>) /\ Len(<<e>>) = 1 /\ <<e>>[1] = e
    BY DEF Carries, Listed
  <2>2. Len(w) \in Nat /\ DOMAIN w = 1 .. Len(w)
    BY <2>1, ListedDomain
  <2>3. /\ Listed(v) /\ Len(v) = Len(w) + 1
        /\ \A p \in DOMAIN w : v[p] = w[p]
        /\ \A p \in 1 .. 1 : v[Len(w) + p] = <<e>>[p]
    BY <2>1, ListedConcat
  <2> QED
    BY <2>1, <2>2, <2>3
<1> HIDE DEF v
<1>2. \A p \in 1 .. Len(v) : v[p].kind = "delta" => p \in 1 .. Len(w) /\ v[p] = w[p]
  <2>1. \A p \in 1 .. Len(v) : p \in 1 .. Len(w) \/ p = Len(w) + 1
    BY <1>1
  <2> QED
    BY <1>1, <2>1
<1>3. \A p \in 1 .. Len(w) : p \in 1 .. Len(v)
  BY <1>1
<1>4. \A p \in 1 .. Len(v) : v[p].kind = "delta" =>
         /\ from[p] \in DOMAIN a /\ a[from[p]].kind = "delta" /\ a[from[p]].what = v[p].what
         /\ Heard(s, a[from[p]]) = <<v[p]>>
  BY <1>2 DEF Carries
<1>5. \A p, q \in 1 .. Len(v) :
         p < q /\ v[p].kind = "delta" /\ v[q].kind = "delta" => from[p] < from[q]
  BY <1>2 DEF Carries
<1>6. \A i \in DOMAIN a : a[i].kind = "delta" =>
         \E p \in 1 .. Len(v) : v[p].kind = "delta" /\ from[p] = i
  BY <1>1, <1>3 DEF Carries
<1>7. Carries(s, v, from, a)
  BY <1>1, <1>4, <1>5, <1>6 DEF Carries
<1> QED
  BY <1>7 DEF v

LEMMA WireCarries ==
    ASSUME NEW a \in Seq(Events)
    PROVE  \E from : Carries(surface, Wire(a), from, a)
<1> DEFINE w == FlattenSeq([i \in DOMAIN a |-> Heard(surface, a[i])])
<1>1. w \in Seq(Events) /\ \E from : Carries(surface, w, from, a)
  BY HeardIsCarried
<1>2. Wire(a) = w \o IF surface = "invocations" \/ Fails(a) THEN << >> ELSE <<Completed>>
  BY DEF Wire
<1> HIDE DEF w
<1>3. CASE surface = "invocations" \/ Fails(a)
  <2>1. Wire(a) = w \o << >>
    BY <1>2, <1>3
  <2>2. w \o << >> = w
    BY <1>1
  <2> QED
    BY <1>1, <2>1, <2>2
<1>4. CASE ~(surface = "invocations" \/ Fails(a))
  BY <1>1, <1>2, <1>4, MoreIsCarried DEF Completed
<1> QED
  BY <1>3, <1>4

LEMMA ReadingBegins ==
    ASSUME NEW s, NEW c, NEW w, NEW from, Carries(s, w, from, c.answer), c.left = w,
           c.seen = {}, c.full = << >>
    PROVE  IsReading(s, c)
<1>1. Listed(w) /\ Len(w) \in Nat
  BY ListedDomain DEF Carries
<1>2. HasRead(c, w, 0)
  BY <1>1 DEF HasRead
<1>3. Shows(c.full, << >>, w, 0)
  BY DEF Shows, Listed
<1> QED
  BY <1>2, <1>3 DEF IsReading

\* An event is read, whether or not it is shown.
LEMMA ReadsNext ==
    ASSUME NEW c, NEW w, NEW n, HasRead(c, w, n), c.left # << >>, Len(w) \in Nat,
           NEW d, d.left = Tail(c.left), d.seen = c.seen \cup {Head(c.left)}
    PROVE  /\ n + 1 \in 1 .. Len(w) /\ n \in Nat /\ Head(c.left) = w[n + 1]
           /\ HasRead(d, w, n + 1)
<1>1. /\ n \in 0 .. Len(w) /\ Listed(c.left) /\ Len(c.left) = Len(w) - n
      /\ \A i \in 1 .. Len(c.left) : c.left[i] = w[n + i]
      /\ c.seen = {w[p] : p \in 1 .. n}
  BY DEF HasRead
<1> DEFINE S == {c.left[i] : i \in 1 .. Len(c.left)}
<1>2. c.left \in Seq(S)
  BY <1>1 DEF Listed
<1> HIDE DEF S
<1>3. /\ Len(c.left) \in Nat \ {0} /\ Head(c.left) = c.left[1]
      /\ Tail(c.left) \in Seq(S) /\ Len(Tail(c.left)) = Len(c.left) - 1
      /\ \A i \in 1 .. Len(c.left) - 1 : Tail(c.left)[i] = c.left[i + 1]
  BY <1>2
<1>4. n + 1 \in 1 .. Len(w) /\ n \in Nat /\ 1 \in 1 .. Len(c.left)
  BY <1>1, <1>3
<1>5. Head(c.left) = w[n + 1]
  BY <1>1, <1>3, <1>4
<1>6. \A i \in 1 .. Len(d.left) : d.left[i] = w[n + 1 + i]
  <2> SUFFICES ASSUME NEW i \in 1 .. Len(c.left) - 1 PROVE Tail(c.left)[i] = w[n + 1 + i]
    BY <1>3
  <2>1. i + 1 \in 1 .. Len(c.left) /\ n + (i + 1) = n + 1 + i
    BY <1>3, <1>4
  <2>2. c.left[i + 1] = w[n + (i + 1)]
    BY <1>1, <2>1
  <2> QED
    BY <1>3, <2>1, <2>2
<1>7. d.seen = {w[p] : p \in 1 .. n + 1}
  <2>1. \A p \in 1 .. n + 1 : p \in 1 .. n \/ p = n + 1
    BY <1>4
  <2>2. \A p \in 1 .. n : p \in 1 .. n + 1
    BY <1>4
  <2>3. n + 1 \in 1 .. n + 1
    BY <1>4
  <2> QED
    BY <1>1, <1>5, <2>1, <2>2, <2>3
<1>8. Listed(d.left) /\ Len(d.left) = Len(w) - (n + 1) /\ n + 1 \in 0 .. Len(w)
  <2>1. Listed(d.left)
    BY <1>3, SeqIsListed
  <2>2. Len(d.left) = Len(c.left) - 1
    BY <1>3
  <2> QED
    BY <1>1, <1>4, <2>1, <2>2
<1> QED
  BY <1>4, <1>5, <1>6, <1>7, <1>8 DEF HasRead

\* The text stands while the event is no delta, or came before, or the text ends with it.
LEMMA ShowsStill ==
    ASSUME NEW full, NEW at, NEW w, NEW n \in Nat, Shows(full, at, w, n),
           w[n + 1].kind = "delta" =>
              (\E p \in 1 .. n : w[p] = w[n + 1]) \/ EndsWith(full, w[n + 1].what)
    PROVE  Shows(full, at, w, n + 1)
<1>1. \A k \in 1 .. Len(full) : at[k] \in 1 .. n + 1 /\ at[k] < n + 1
  BY DEF Shows
<1>2. \A p \in 1 .. n + 1 : p \in 1 .. n \/ p = n + 1
  OBVIOUS
<1>3. Listed(full) /\ Len(full) \in Nat
  BY ListedDomain DEF Shows
<1>4. ASSUME w[n + 1].kind = "delta" PROVE Dropped(full, at, w, n + 1)
  <2>1. CASE \E p \in 1 .. n : w[p] = w[n + 1]
    <3>1. \A p \in 1 .. n : p \in 1 .. (n + 1) - 1
      OBVIOUS
    <3> QED
      BY <2>1, <3>1 DEF Dropped
  <2>2. CASE EndsWith(full, w[n + 1].what)
    <3>1. SubSeq(full, 1, Len(full)) = full
      BY <1>3 DEF Listed
    <3>2. Len(full) \in 0 .. Len(full)
      BY <1>3
    <3>3. \A l \in 1 .. Len(full) : l <= Len(full) <=> at[l] < n + 1
      BY <1>1, <1>3
    <3> QED
      BY <2>2, <3>1, <3>2, <3>3 DEF Dropped
  <2> QED
    BY <1>4, <2>1, <2>2
<1>5. \A p \in 1 .. n + 1 : w[p].kind = "delta" =>
         (\E k \in 1 .. Len(full) : at[k] = p) \/ Dropped(full, at, w, p)
  BY <1>2, <1>4 DEF Shows
<1> QED
  BY <1>1, <1>5 DEF Shows

LEMMA ShowsMore ==
    ASSUME NEW full, NEW at, NEW w, NEW n \in Nat, Shows(full, at, w, n),
           w[n + 1].kind = "delta", \A p \in 1 .. n : w[p] # w[n + 1]
    PROVE  \E at1 : Shows(full \o <<w[n + 1].what>>, at1, w, n + 1)
<1> DEFINE m == Len(full)
           new == full \o <<w[n + 1].what>>
           at1 == [k \in 1 .. m + 1 |-> IF k = m + 1 THEN n + 1 ELSE at[k]]
<1>1. /\ m \in Nat /\ Listed(new) /\ Len(new) = m + 1
      /\ \A k \in 1 .. m : new[k] = full[k]
      /\ new[m + 1] = w[n + 1].what
  <2> DEFINE last == <<w[n + 1].what>>
  <2>1. Listed(full) /\ Listed(last) /\ Len(last) = 1 /\ last[1] = w[n + 1].what
    BY DEF Shows, Listed
  <2> HIDE DEF last
  <2>2. Len(full) \in Nat /\ DOMAIN full = 1 .. Len(full)
    BY <2>1, ListedDomain
  <2>3. Listed(full \o last) /\ Len(full \o last) = Len(full) + Len(last)
    BY ONLY <2>1, ListedConcat
  <2>4. \A k \in DOMAIN full : (full \o last)[k] = full[k]
    BY ONLY <2>1, ListedConcat
  <2>5. (full \o last)[Len(full) + 1] = last[1]
    <3>1. Listed(full) /\ Listed(last)
      BY <2>1
    <3>2. \A k \in 1 .. Len(last) : (full \o last)[Len(full) + k] = last[k]
      BY ONLY <3>1, ListedConcat
    <3>3. 1 \in 1 .. Len(last)
      BY <2>1
    <3> QED
      BY <3>2, <3>3
  <2> QED
    BY <2>1, <2>2, <2>3, <2>4, <2>5 DEF last
<1>2. /\ \A k \in 1 .. m : k \in 1 .. m + 1 /\ at1[k] = at[k]
      /\ m + 1 \in 1 .. m + 1 /\ at1[m + 1] = n + 1
  BY <1>1
<1> HIDE DEF m, new, at1
<1>3. \A k \in 1 .. m + 1 : k \in 1 .. m \/ k = m + 1
  BY <1>1
<1>4. \A k \in 1 .. m :
        /\ at[k] \in 1 .. n /\ w[at[k]].kind = "delta" /\ full[k] = w[at[k]].what
        /\ \A p \in 1 .. at[k] - 1 : w[p] # w[at[k]]
  BY DEF Shows, m
<1>5. \A p \in 1 .. n + 1 - 1 : p \in 1 .. n
  OBVIOUS
<1>6. ASSUME NEW k \in 1 .. m + 1
      PROVE  /\ at1[k] \in 1 .. n + 1 /\ w[at1[k]].kind = "delta" /\ new[k] = w[at1[k]].what
             /\ \A p \in 1 .. at1[k] - 1 : w[p] # w[at1[k]]
  <2>1. CASE k \in 1 .. m
    <3>1. at[k] \in 1 .. n + 1
      BY <1>4, <2>1
    <3> QED
      BY <1>1, <1>2, <1>4, <2>1, <3>1
  <2>2. CASE k = m + 1
    BY <1>1, <1>2, <1>5, <2>2
  <2> QED
    BY <1>3, <2>1, <2>2
<1>7. ASSUME NEW k \in 1 .. m + 1, NEW l \in 1 .. m + 1, k < l PROVE at1[k] < at1[l]
  <2>1. k \in 1 .. m
    BY <1>1, <1>7
  <2>2. CASE l \in 1 .. m
    BY <1>2, <1>7, <2>1, <2>2 DEF Shows, m
  <2>3. CASE l = m + 1
    <3>1. at[k] \in 1 .. n
      BY <1>4, <2>1
    <3> QED
      BY <1>2, <2>1, <2>3, <3>1
  <2> QED
    BY <1>3, <2>2, <2>3
<1>8. ASSUME NEW p \in 1 .. n, Dropped(full, at, w, p) PROVE Dropped(new, at1, w, p)
  <2>1. CASE \E q \in 1 .. p - 1 : w[q] = w[p]
    BY <2>1 DEF Dropped
  <2>2. CASE \E k \in 0 .. m : /\ \A l \in 1 .. m : l <= k <=> at[l] < p
                               /\ EndsWith(SubSeq(full, 1, k), w[p].what)
    <3>1. PICK k \in 0 .. m : /\ \A l \in 1 .. m : l <= k <=> at[l] < p
                              /\ EndsWith(SubSeq(full, 1, k), w[p].what)
      BY <2>2
    <3>2. SubSeq(new, 1, k) = SubSeq(full, 1, k)
      <4>1. \A i \in 1 .. k : new[i] = full[i]
        BY <1>1, <3>1
      <4>2. Listed(full) /\ k \in 0 .. Len(new) /\ k <= Len(full)
        BY <1>1, <3>1 DEF Shows, m
      <4> QED
        BY <1>1, <4>1, <4>2, PrefixesAgree
    <3>3. \A l \in 1 .. m + 1 : l <= k <=> at1[l] < p
      <4>1. CASE p \in 1 .. n
        <5>1. ~(m + 1 <= k) /\ ~(n + 1 < p)
          BY <1>1, <3>1
        <5> QED
          BY <1>2, <1>3, <3>1, <5>1
      <4> QED
        BY <4>1
    <3>4. k \in 0 .. m + 1
      BY <1>1, <3>1
    <3> QED
      BY <1>1, <3>1, <3>2, <3>3, <3>4 DEF Dropped
  <2> QED
    BY <1>8, <2>1, <2>2 DEF Dropped, m
<1>10. ASSUME NEW p \in 1 .. n + 1, w[p].kind = "delta"
      PROVE  (\E k \in 1 .. m + 1 : at1[k] = p) \/ Dropped(new, at1, w, p)
  <2>1. CASE p \in 1 .. n
    <3>1. (\E k \in 1 .. m : at[k] = p) \/ Dropped(full, at, w, p)
      BY <1>10, <2>1 DEF Shows, m
    <3> QED
      BY <1>2, <1>8, <2>1, <3>1
  <2>2. CASE p = n + 1
    BY <1>2, <2>2
  <2>3. p \in 1 .. n \/ p = n + 1
    OBVIOUS
  <2> QED
    BY <2>1, <2>2, <2>3
<1>9. Shows(new, at1, w, n + 1)
  BY <1>1, <1>6, <1>7, <1>10 DEF Shows
<1> QED
  BY <1>9 DEF new

LEMMA ReadingGoesOn ==
    ASSUME NEW s, NEW c, CallShaped(c), IsReading(s, c), c.left # << >>, NEW e, e = Head(c.left)
    PROVE  IF Skipped(c, e) THEN IsReading(s, Past(c, e)) ELSE IsReading(s, Taken(c, e))
<1>1. PICK w, from, n, at :
         Carries(s, w, from, c.answer) /\ HasRead(c, w, n) /\ Shows(c.full, at, w, n)
  BY DEF IsReading
<1>2. Len(w) \in Nat
  BY <1>1, ListedDomain DEF Carries
<1>3. /\ DOMAIN c = {"phase", "conversation", "mixes", "timer", "answer", "left", "seen", "full",
                     "metadata"}
  BY DEF CallShaped
<1> DEFINE past == Past(c, e)
           taken == Taken(c, e)
<1>4. /\ past.answer = c.answer /\ past.left = Tail(c.left) /\ past.seen = c.seen \cup {Head(c.left)}
      /\ past.full = c.full
  BY <1>3 DEF Past
<1>5. /\ taken.answer = c.answer /\ taken.left = Tail(c.left)
      /\ taken.seen = c.seen \cup {Head(c.left)} /\ taken.full = c.full \o Shown(e)
  BY <1>3 DEF Taken, Past
<1> HIDE DEF past, taken
<1>6. /\ n + 1 \in 1 .. Len(w) /\ n \in Nat /\ e = w[n + 1]
      /\ HasRead(past, w, n + 1) /\ HasRead(taken, w, n + 1)
  BY <1>1, <1>2, <1>4, <1>5, ReadsNext
<1>7. c.seen = {w[p] : p \in 1 .. n}
  BY <1>1 DEF HasRead
<1>8. ASSUME Skipped(c, e) PROVE IsReading(s, past)
  <2>1. (\E p \in 1 .. n : w[p] = e) \/ EndsWith(c.full, e.what)
    BY <1>7, <1>8 DEF Skipped, RepeatsLast
  <2>2. Shows(c.full, at, w, n + 1)
    BY <1>1, <1>6, <2>1, ShowsStill
  <2> QED
    BY <1>1, <1>4, <1>6, <2>2 DEF IsReading
<1>9. ASSUME ~Skipped(c, e) PROVE IsReading(s, taken)
  <2>1. CASE e.kind = "delta"
    <3>1. \A p \in 1 .. n : w[p] # w[n + 1]
      BY <1>6, <1>7, <1>9 DEF Skipped
    <3>2. PICK at1 : Shows(c.full \o <<e.what>>, at1, w, n + 1)
      BY <1>1, <1>6, <2>1, <3>1, ShowsMore
    <3>3. taken.full = c.full \o <<e.what>>
      BY <1>5, <2>1 DEF Shown
    <3>4. Shows(taken.full, at1, w, n + 1)
      BY <3>2, <3>3
    <3>5. Carries(s, w, from, taken.answer)
      BY <1>1, <1>5
    <3> QED
      BY <1>6, <3>4, <3>5 DEF IsReading
  <2>2. CASE e.kind # "delta"
    <3>1. Shows(c.full, at, w, n + 1)
      BY <1>1, <1>6, <2>2, ShowsStill
    <3>2. taken.full = c.full
      BY <1>5, <2>2 DEF Shown, CallShaped, Listed
    <3> QED
      BY <1>1, <1>5, <1>6, <3>1, <3>2 DEF IsReading
  <2> QED
    BY <2>1, <2>2
<1> QED
  BY <1>8, <1>9 DEF past, taken

\* The text of a call is of the answer, and of all of it once all is read.
LEMMA ReadingIsFaithful ==
    ASSUME NEW s, NEW c, IsReading(s, c), NEW a \in Seq(Events), c.answer = a,
           NEW whole \in BOOLEAN, whole => c.left = << >>
    PROVE  Tells(s, a, c.full, whole)
<1>1. PICK w, from, n, at :
         Carries(s, w, from, a) /\ HasRead(c, w, n) /\ Shows(c.full, at, w, n)
  BY DEF IsReading
<1>2. /\ Len(w) \in Nat /\ n \in 0 .. Len(w) /\ Listed(c.full) /\ Len(c.full) \in Nat
      /\ DOMAIN c.full = 1 .. Len(c.full)
  BY <1>1, ListedDomain DEF Carries, HasRead, Shows
<1> DEFINE full == c.full
           f == [k \in DOMAIN full |-> from[at[k]]]
<1>3. ASSUME NEW k \in DOMAIN full
      PROVE  /\ at[k] \in 1 .. Len(w) /\ w[at[k]].kind = "delta" /\ full[k] = w[at[k]].what
             /\ \A p \in 1 .. at[k] - 1 : w[p] # w[at[k]]
  BY <1>1, <1>2 DEF Shows
<1>4. ASSUME NEW p \in 1 .. Len(w), w[p].kind = "delta"
      PROVE  /\ from[p] \in DOMAIN a /\ a[from[p]].kind = "delta" /\ a[from[p]].what = w[p].what
             /\ Heard(s, a[from[p]]) = <<w[p]>>
  BY <1>1, <1>4 DEF Carries
<1>5. ASSUME NEW p \in 1 .. Len(w), NEW q \in 1 .. Len(w), w[p].kind = "delta",
             w[q].kind = "delta"
      PROVE  p < q <=> from[p] < from[q]
  <2>1. from[p] \in Nat /\ from[q] \in Nat
    BY <1>4, <1>5
  <2>2. p < q => from[p] < from[q]
    BY <1>1, <1>5 DEF Carries
  <2>3. q < p => from[q] < from[p]
    BY <1>1, <1>5 DEF Carries
  <2> QED
    BY <1>2, <2>1, <2>2, <2>3
<1>6. \A k \in DOMAIN full : f[k] = from[at[k]]
  OBVIOUS
<1>7. f \in [DOMAIN full -> DOMAIN a]
  BY <1>3, <1>4
<1> HIDE DEF f, full
<1>8. ASSUME NEW k \in DOMAIN full
      PROVE  a[f[k]].kind = "delta" /\ full[k] = a[f[k]].what /\ ~Repeated(s, a, f[k])
  <2> DEFINE p == at[k]
  <2>1. /\ p \in 1 .. Len(w) /\ w[p].kind = "delta" /\ full[k] = w[p].what
        /\ \A q \in 1 .. p - 1 : w[q] # w[p]
    BY <1>3
  <2>2. /\ from[p] \in DOMAIN a /\ a[from[p]].kind = "delta" /\ a[from[p]].what = w[p].what
        /\ Heard(s, a[from[p]]) = <<w[p]>> /\ f[k] = from[p]
    BY <1>4, <1>6, <2>1
  <2> HIDE DEF p
  <2>3. ASSUME NEW j \in 1 .. from[p] - 1, Heard(s, a[j]) = <<w[p]>> PROVE FALSE
    <3>1. j \in DOMAIN a /\ a[j] \in Events /\ j < from[p] /\ from[p] \in Nat
      BY <2>2
    <3>2. a[j].kind = "delta"
      <4>1. Len(<<w[p]>>) = 1 /\ <<w[p]>>[1] = w[p]
        OBVIOUS
      <4> QED
        BY <2>1, <2>3, <3>1, <4>1, HeardEvents
    <3>3. PICK q \in 1 .. Len(w) : w[q].kind = "delta" /\ from[q] = j
      BY <1>1, <3>1, <3>2 DEF Carries
    <3>4. q < p
      BY <1>5, <2>1, <3>1, <3>3
    <3>5. <<w[q]>> = <<w[p]>>
      BY <1>4, <2>3, <3>3
    <3>6. w[q] = w[p]
      <4>1. <<w[q]>>[1] = w[q] /\ <<w[p]>>[1] = w[p]
        OBVIOUS
      <4> QED
        BY <3>5, <4>1
    <3> QED
      BY <1>2, <2>1, <3>4, <3>6
  <2> QED
    BY <2>1, <2>2, <2>3 DEF Repeated
<1>9. ASSUME NEW k \in DOMAIN full, NEW l \in DOMAIN full, k < l PROVE f[k] < f[l]
  <2>1. at[k] < at[l]
    BY <1>1, <1>2, <1>9 DEF Shows, full
  <2> QED
    BY <1>3, <1>5, <1>6, <2>1
<1>10. ASSUME whole, NEW i \in DOMAIN a, a[i].kind = "delta"
       PROVE  \/ \E k \in DOMAIN full : f[k] = i
              \/ Repeated(s, a, i)
              \/ \E k \in 0 .. Len(full) :
                    /\ \A l \in DOMAIN full : l <= k <=> f[l] < i
                    /\ EndsWith(SubSeq(full, 1, k), a[i].what)
  <2>1. n = Len(w)
    <3>1. Len(c.left) = Len(w) - n /\ Len(c.left) = 0
      BY <1>1, <1>10 DEF HasRead
    <3> QED
      BY <1>2, <3>1
  <2>2. PICK p \in 1 .. Len(w) : w[p].kind = "delta" /\ from[p] = i
    BY <1>1, <1>10 DEF Carries
  <2>3. Heard(s, a[i]) = <<w[p]>> /\ a[i].what = w[p].what
    BY <1>4, <2>2
  <2>4. (\E k \in 1 .. Len(full) : at[k] = p) \/ Dropped(full, at, w, p)
    BY <1>1, <2>1, <2>2 DEF Shows, full
  <2>5. CASE \E k \in 1 .. Len(full) : at[k] = p
    BY <1>2, <1>6, <2>2, <2>5 DEF full
  <2>6. CASE \E q \in 1 .. p - 1 : w[q] = w[p]
    <3>1. PICK q \in 1 .. p - 1 : w[q] = w[p]
      BY <2>6
    <3>2. q \in 1 .. Len(w) /\ q < p /\ w[q].kind = "delta"
      BY <1>2, <2>2, <3>1
    <3>3. from[q] \in DOMAIN a /\ Heard(s, a[from[q]]) = Heard(s, a[i])
      BY <1>4, <2>3, <3>1, <3>2
    <3>4. from[q] < i
      BY <1>5, <2>2, <3>2
    <3>5. from[q] \in 1 .. i - 1
      BY <3>3, <3>4
    <3> QED
      BY <3>3, <3>5 DEF Repeated
  <2>7. CASE \E k \in 0 .. Len(full) : /\ \A l \in 1 .. Len(full) : l <= k <=> at[l] < p
                                       /\ EndsWith(SubSeq(full, 1, k), w[p].what)
    <3>1. PICK k \in 0 .. Len(full) : /\ \A l \in 1 .. Len(full) : l <= k <=> at[l] < p
                                      /\ EndsWith(SubSeq(full, 1, k), w[p].what)
      BY <2>7
    <3>2. \A l \in DOMAIN full : at[l] < p <=> f[l] < i
      BY <1>3, <1>5, <1>6, <2>2
    <3>3. \A l \in DOMAIN full : l <= k <=> f[l] < i
      BY <1>2, <3>1, <3>2 DEF full
    <3> QED
      BY <2>3, <3>1, <3>3
  <2> QED
    BY <2>4, <2>5, <2>6, <2>7 DEF Dropped
<1>11. ShowsDeltas(s, a, full, f)
  BY <1>8, <1>9 DEF ShowsDeltas
<1>12. whole => LosesRepeats(s, a, full, f)
  BY <1>10 DEF LosesRepeats
<1> QED
  BY <1>7, <1>11, <1>12 DEF Tells, full

----------------------------------------------------------------------------
(* The transcript shows what the calls have read *)

CallIsFaithful(s, c) ==
    /\ c.phase = "waiting" => c.full = << >> /\ c.seen = {}
    /\ c.phase = "reading" => IsReading(s, c) /\ c.answer \in Answers

\* The answer m of the call c: under way, it is the text read so far.
AnswerIsFaithful(s, m, c) ==
    IF c.phase # "ended" THEN m.text = c.full
    ELSE m.text # << >> \/ IsWhole(m) => Tells(s, c.answer, m.text, IsWhole(m))

TextInv ==
    /\ \A q \in DOMAIN queries : CallIsFaithful(surface, queries[q])
    /\ \A i \in DOMAIN messages : messages[i].role = "assistant" =>
          AnswerIsFaithful(surface, messages[i], queries[messages[i].of])

LEMMA ReducedTexts ==
    ASSUME Transcript(messages), NEW q, NEW delta, NEW fields,
           messages' = Reduced(q, delta, fields)
    PROVE  /\ DOMAIN messages' = DOMAIN messages
           /\ \A i \in DOMAIN messages :
                 /\ ~IsAnswer(messages[i], q) => messages'[i] = messages[i]
                 /\ IsAnswer(messages[i], q) =>
                       /\ messages'[i].text = IF "text" \in DOMAIN fields THEN fields["text"]
                                              ELSE messages[i].text \o delta
                       /\ messages'[i].status = IF "status" \in DOMAIN fields
                                                THEN fields["status"] ELSE messages[i].status
<1>1. DOMAIN messages' = DOMAIN messages
  BY DEF Reduced
<1>2. ASSUME NEW i \in DOMAIN messages
      PROVE  /\ ~IsAnswer(messages[i], q) => messages'[i] = messages[i]
             /\ IsAnswer(messages[i], q) =>
                   messages'[i] = With([messages[i] EXCEPT !.text = messages[i].text \o delta], fields)
  BY DEF Reduced
<1>3. ASSUME NEW i \in DOMAIN messages, IsAnswer(messages[i], q)
      PROVE  /\ messages'[i].text = IF "text" \in DOMAIN fields THEN fields["text"]
                                    ELSE messages[i].text \o delta
             /\ messages'[i].status = IF "status" \in DOMAIN fields
                                      THEN fields["status"] ELSE messages[i].status
  <2> DEFINE m == messages[i]
             n == messages'[i]
  <2>1. Shaped(m) /\ n = With([m EXCEPT !.text = m.text \o delta], fields)
    BY <1>2, <1>3 DEF Transcript
  <2> HIDE DEF m, n
  <2> DEFINE l == [m EXCEPT !.text = m.text \o delta]
  <2>2. /\ DOMAIN l = {"role", "of", "conversation", "text", "status", "approval"}
        /\ l.text = m.text \o delta /\ l.status = m.status
    BY <2>1 DEF Shaped
  <2>3. n = With(l, fields)
    BY <2>1
  <2> HIDE DEF l
  <2>4. n = [f \in {"role", "of", "conversation", "text", "status", "approval"} |->
               IF f \in DOMAIN fields THEN fields[f] ELSE l[f]]
    BY <2>2, <2>3 DEF With
  <2>5. /\ n["text"] = IF "text" \in DOMAIN fields THEN fields["text"] ELSE l["text"]
        /\ n["status"] = IF "status" \in DOMAIN fields THEN fields["status"] ELSE l["status"]
    BY <2>4
  <2> QED
    BY <2>2, <2>5 DEF m, n
<1> QED
  BY <1>1, <1>2, <1>3

\* A step of one call that concerns its own answer only.
LEMMA OneCallStep ==
    ASSUME ChatInv, TextInv, NEW q \in DOMAIN queries, surface' = surface,
           DOMAIN queries' = DOMAIN queries, DOMAIN messages' = DOMAIN messages,
           \A p \in DOMAIN queries : p # q => queries'[p] = queries[p],
           \A i \in DOMAIN messages :
              /\ messages'[i].role = messages[i].role /\ messages'[i].of = messages[i].of
              /\ ~IsAnswer(messages[i], q) => messages'[i] = messages[i]
              /\ IsAnswer(messages[i], q) => AnswerIsFaithful(surface, messages'[i], queries'[q]),
           CallIsFaithful(surface, queries'[q])
    PROVE  TextInv'
<1>1. ASSUME NEW i \in DOMAIN messages, messages[i].role = "assistant"
      PROVE  AnswerIsFaithful(surface, messages'[i], queries'[messages[i].of])
  <2>1. CASE IsAnswer(messages[i], q)
    BY <2>1 DEF IsAnswer
  <2>2. CASE ~IsAnswer(messages[i], q)
    <3>1. messages[i].of # q /\ messages[i].of \in DOMAIN queries
      BY <1>1, <2>2 DEF IsAnswer, ChatInv, AnswersApart
    <3>2. queries'[messages[i].of] = queries[messages[i].of] /\ messages'[i] = messages[i]
      BY <2>2, <3>1
    <3> QED
      BY <1>1, <3>2 DEF TextInv
  <2> QED
    BY <2>1, <2>2
<1>2. \A p \in DOMAIN queries : CallIsFaithful(surface, queries'[p])
  BY DEF TextInv
<1> QED
  BY <1>1, <1>2 DEF TextInv

LEMMA EndedCall ==
    ASSUME Calls(queries), NEW q \in DOMAIN queries, queries' = Ended(q)
    PROVE  /\ DOMAIN queries' = DOMAIN queries
           /\ \A p \in DOMAIN queries : p # q => queries'[p] = queries[p]
           /\ queries'[q].phase = "ended" /\ queries'[q].answer = queries[q].answer
<1> DEFINE c == [queries[q] EXCEPT !.phase = "ended", !.timer = FALSE, !.left = << >>]
<1>1. CallShaped(queries[q]) /\ Listed(queries)
  BY DEF Calls
<1>2. c.phase = "ended" /\ c.answer = queries[q].answer
  BY <1>1 DEF CallShaped
<1>3. queries' = [queries EXCEPT ![q] = c]
  BY DEF Ended
<1> HIDE DEF c
<1> QED
  BY <1>1, <1>2, <1>3, ListedExcept

\* A query ends with an error or with the text it has read.
LEMMA RaiseIsFaithful ==
    ASSUME ChatInv, TextInv, NEW q \in DOMAIN queries, Raise(q) PROVE TextInv'
<1> DEFINE fields == [text |-> << >>, status |-> "error"]
<1>1. messages' = Reduced(q, << >>, fields) /\ queries' = Ended(q) /\ surface' = surface
  BY DEF Raise, Finish, session
<1>2. "text" \in DOMAIN fields /\ "status" \in DOMAIN fields /\ fields["text"] = << >>
      /\ fields["status"] = "error" /\ ProperFields(fields)
  BY DEF ProperFields, Listed
<1> HIDE DEF fields
<1>3. Transcript(messages) /\ Calls(queries) /\ Listed(<< >>)
  BY DEF ChatInv, Shape, Listed
<1>4. /\ DOMAIN messages' = DOMAIN messages
      /\ \A i \in DOMAIN messages :
            /\ ~IsAnswer(messages[i], q) => messages'[i] = messages[i]
            /\ IsAnswer(messages[i], q) => messages'[i].text = << >> /\ messages'[i].status = "error"
  BY <1>1, <1>2, <1>3, ReducedTexts
<1>5. \A i \in DOMAIN messages :
         messages'[i].role = messages[i].role /\ messages'[i].of = messages[i].of
  BY <1>1, <1>2, <1>3, ReducedRewrites DEF Rewrites, Rewritten
<1>6. /\ DOMAIN queries' = DOMAIN queries
      /\ \A p \in DOMAIN queries : p # q => queries'[p] = queries[p]
      /\ queries'[q].phase = "ended"
  BY <1>1, <1>3, EndedCall
<1>7. CallIsFaithful(surface, queries'[q])
  BY <1>6 DEF CallIsFaithful
<1>8. \A i \in DOMAIN messages :
         IsAnswer(messages[i], q) => AnswerIsFaithful(surface, messages'[i], queries'[q])
  BY <1>4, <1>6 DEF AnswerIsFaithful, IsWhole
<1> QED
  BY <1>1, <1>4, <1>5, <1>6, <1>7, <1>8, OneCallStep

LEMMA CompletesIsFaithful ==
    ASSUME ChatInv, TextInv, NEW q \in DOMAIN queries, Completes(q) PROVE TextInv'
<1> DEFINE call == queries[q]
           status == IF call.full = << >> /\ call.metadata = None THEN "blocked" ELSE "idle"
           fields == [text |-> call.full, approval |-> Approval(call.metadata),
                      status |-> status]
<1>1. /\ messages' = Reduced(q, << >>, fields) /\ queries' = Ended(q)
      /\ call.phase = "reading" /\ call.left = << >> /\ surface' = surface
  BY DEF Completes, Finish, session
<1>2. Transcript(messages) /\ Calls(queries) /\ Listed(<< >>) /\ CallShaped(call)
  BY DEF ChatInv, Shape, Calls, Listed
<1>3. "text" \in DOMAIN fields /\ fields["text"] = call.full /\ ProperFields(fields)
  BY <1>2, ApprovalsAreProper DEF ProperFields, CallShaped
<1>4. IsReading(surface, call) /\ call.answer \in Seq(Events)
  BY <1>1, ChatAssumption DEF TextInv, CallIsFaithful
<1> HIDE DEF fields, call
<1>5. \A whole \in BOOLEAN : Tells(surface, call.answer, call.full, whole)
  BY <1>1, <1>4, ReadingIsFaithful
<1>6. /\ DOMAIN messages' = DOMAIN messages
      /\ \A i \in DOMAIN messages :
            /\ ~IsAnswer(messages[i], q) => messages'[i] = messages[i]
            /\ IsAnswer(messages[i], q) => messages'[i].text = call.full
  BY <1>1, <1>2, <1>3, ReducedTexts
<1>7. \A i \in DOMAIN messages :
         messages'[i].role = messages[i].role /\ messages'[i].of = messages[i].of
  BY <1>1, <1>2, <1>3, ReducedRewrites DEF Rewrites, Rewritten
<1>8. /\ DOMAIN queries' = DOMAIN queries
      /\ \A p \in DOMAIN queries : p # q => queries'[p] = queries[p]
      /\ queries'[q].phase = "ended" /\ queries'[q].answer = call.answer
  BY <1>1, <1>2, EndedCall DEF call
<1>9. CallIsFaithful(surface, queries'[q])
  BY <1>8 DEF CallIsFaithful
<1>10. \A i \in DOMAIN messages :
         IsAnswer(messages[i], q) => AnswerIsFaithful(surface, messages'[i], queries'[q])
  <2> SUFFICES ASSUME NEW i \in DOMAIN messages, IsAnswer(messages[i], q)
               PROVE  AnswerIsFaithful(surface, messages'[i], queries'[q])
    OBVIOUS
  <2>1. IsWhole(messages'[i]) \in BOOLEAN
    BY DEF IsWhole
  <2>2. Tells(surface, call.answer, call.full, IsWhole(messages'[i]))
    BY <1>5, <2>1
  <2>3. Tells(surface, queries'[q].answer, messages'[i].text, IsWhole(messages'[i]))
    BY <1>6, <1>8, <2>2
  <2> QED
    BY <1>8, <2>3 DEF AnswerIsFaithful
<1> QED
  BY <1>1, <1>6, <1>7, <1>8, <1>9, <1>10, OneCallStep

LEMMA RespondsIsFaithful ==
    ASSUME ChatInv, TextInv, NEW q \in DOMAIN queries, Responds(q) PROVE TextInv'
<1>1. PICK a \in Answers : queries' = [queries EXCEPT
          ![q] = [@ EXCEPT !.phase = "reading", !.answer = a, !.left = Wire(a)]]
  BY DEF Responds
<1> DEFINE c == [queries[q] EXCEPT !.phase = "reading", !.answer = a, !.left = Wire(a)]
<1>2. /\ CallShaped(queries[q]) /\ Listed(queries) /\ queries[q].phase = "waiting"
      /\ messages' = messages /\ surface' = surface
  BY DEF ChatInv, Shape, Calls, Responds, session
<1>3. queries[q].full = << >> /\ queries[q].seen = {}
  BY <1>2 DEF TextInv, CallIsFaithful
<1>4. /\ c.phase = "reading" /\ c.answer = a /\ c.left = Wire(a) /\ c.full = << >> /\ c.seen = {}
  BY <1>2, <1>3 DEF CallShaped
<1>5. queries' = [queries EXCEPT ![q] = c]
  BY <1>1
<1> HIDE DEF c
<1>6. /\ DOMAIN queries' = DOMAIN queries /\ queries'[q] = c
      /\ \A p \in DOMAIN queries : p # q => queries'[p] = queries[p]
  BY <1>2, <1>5, ListedExcept
<1>7. PICK from : Carries(surface, Wire(a), from, a)
  BY WireCarries, ChatAssumption
<1>8. IsReading(surface, c)
  BY <1>4, <1>7, ReadingBegins
<1>9. CallIsFaithful(surface, queries'[q])
  BY <1>4, <1>6, <1>8 DEF CallIsFaithful
<1>10. \A i \in DOMAIN messages :
         IsAnswer(messages[i], q) => AnswerIsFaithful(surface, messages'[i], queries'[q])
  BY <1>2, <1>3, <1>4, <1>6 DEF AnswerIsFaithful, TextInv, IsAnswer
<1> QED
  BY <1>2, <1>6, <1>9, <1>10, OneCallStep

LEMMA ReadsIsFaithful ==
    ASSUME ChatInv, TextInv, NEW q \in DOMAIN queries, Reads(q) PROVE TextInv'
<1> DEFINE call == queries[q]
           e == Head(call.left)
           fields == [approval |-> Approval(Metadata(e))]
<1>1. /\ Transcript(messages) /\ CallShaped(call) /\ Listed(queries)
      /\ call.phase = "reading" /\ call.left # << >> /\ surface' = surface
  BY DEF ChatInv, Shape, Calls, Reads, session
<1>2. IsReading(surface, call) /\ call.answer \in Answers
  BY <1>1 DEF TextInv, CallIsFaithful
<1>3. \A i \in DOMAIN messages : IsAnswer(messages[i], q) => messages[i].text = call.full
  BY <1>1 DEF TextInv, AnswerIsFaithful, IsAnswer
<1>4. IF Skipped(call, e)
      THEN queries' = [queries EXCEPT ![q] = Past(call, e)] /\ messages' = messages
      ELSE queries' = [queries EXCEPT ![q] = Taken(call, e)]
           /\ messages' = Reduced(q, Shown(e), fields)
  BY DEF Reads
<1>e. e = Head(call.left)
  OBVIOUS
<1> DEFINE past == Past(call, e)
           taken == Taken(call, e)
<1>5. past.phase = "reading" /\ past.full = call.full /\ past.answer = call.answer
  BY <1>1 DEF CallShaped, Past
<1>6. taken.phase = "reading" /\ taken.full = call.full \o Shown(e) /\ taken.answer = call.answer
  BY <1>1 DEF CallShaped, Past, Taken
<1>7. /\ ProperFields(fields) /\ "text" \notin DOMAIN fields
  BY ApprovalsAreProper DEF ProperFields
<1>8. Listed(Shown(e))
  <2>1. Listed(<< >>) /\ Listed(<<e.what>>)
    BY DEF Listed
  <2> QED
    BY <2>1 DEF Shown
<1> HIDE DEF call, e, fields
<1>9. IF Skipped(call, e) THEN IsReading(surface, past) ELSE IsReading(surface, taken)
  BY <1>1, <1>2, <1>e, ReadingGoesOn
<1> HIDE DEF past, taken
<1>10. CASE Skipped(call, e)
  <2>1. queries' = [queries EXCEPT ![q] = past] /\ messages' = messages
    BY <1>4, <1>10 DEF past
  <2>2. /\ DOMAIN queries' = DOMAIN queries /\ queries'[q] = past
        /\ \A p \in DOMAIN queries : p # q => queries'[p] = queries[p]
    BY <1>1, <2>1, ListedExcept
  <2>3. CallIsFaithful(surface, queries'[q])
    BY <1>2, <1>5, <1>9, <1>10, <2>2 DEF CallIsFaithful
  <2>4. \A i \in DOMAIN messages :
           IsAnswer(messages[i], q) => AnswerIsFaithful(surface, messages'[i], queries'[q])
    BY <1>3, <1>5, <2>1, <2>2 DEF AnswerIsFaithful
  <2> QED
    BY <1>1, <2>1, <2>2, <2>3, <2>4, OneCallStep
<1>11. CASE ~Skipped(call, e)
  <2>1. queries' = [queries EXCEPT ![q] = taken] /\ messages' = Reduced(q, Shown(e), fields)
    BY <1>4, <1>11 DEF taken
  <2>2. /\ DOMAIN queries' = DOMAIN queries /\ queries'[q] = taken
        /\ \A p \in DOMAIN queries : p # q => queries'[p] = queries[p]
    BY <1>1, <2>1, ListedExcept
  <2>3. CallIsFaithful(surface, queries'[q])
    BY <1>2, <1>6, <1>9, <1>11, <2>2 DEF CallIsFaithful
  <2>4. /\ DOMAIN messages' = DOMAIN messages
        /\ \A i \in DOMAIN messages :
              /\ ~IsAnswer(messages[i], q) => messages'[i] = messages[i]
              /\ IsAnswer(messages[i], q) => messages'[i].text = messages[i].text \o Shown(e)
    BY <1>1, <1>7, <2>1, ReducedTexts
  <2>5. \A i \in DOMAIN messages :
           messages'[i].role = messages[i].role /\ messages'[i].of = messages[i].of
    BY <1>1, <1>7, <1>8, <2>1, ReducedRewrites DEF Rewrites, Rewritten
  <2>6. \A i \in DOMAIN messages :
           IsAnswer(messages[i], q) => AnswerIsFaithful(surface, messages'[i], queries'[q])
    BY <1>3, <1>6, <2>2, <2>4 DEF AnswerIsFaithful
  <2> QED
    BY <1>1, <2>2, <2>3, <2>4, <2>5, <2>6, OneCallStep
<1> QED
  BY <1>10, <1>11

\* A decision changes no text.
LEMMA DecisionsAreFaithful ==
    ASSUME ChatInv, TextInv, NEW q \in DOMAIN queries, Decide(q) \/ Recorded(q) \/ Refused(q)
    PROVE  TextInv'
<1>1. CASE Decide(q) \/ Refused(q)
  <2>1. messages' = messages /\ queries' = queries /\ surface' = surface
    BY <1>1 DEF Decide, Refused, session
  <2> QED
    BY <2>1 DEF TextInv
<1>2. CASE Recorded(q)
  <2> DEFINE fields == [approval |-> deciding[q]]
  <2>1. /\ messages' = Reduced(q, << >>, fields) /\ queries' = queries /\ deciding[q] # None
      /\ surface' = surface
    BY <1>2 DEF Recorded, session
  <2>2. /\ ProperFields(fields) /\ "text" \notin DOMAIN fields /\ "status" \notin DOMAIN fields
    <3>1. deciding[q] \in Decisions
      BY <2>1, ListedDomain, Bounds DEF ChatInv, Shape, Calls, Queries
    <3> QED
      BY <3>1 DEF ProperFields
  <2>3. Transcript(messages) /\ Listed(<< >>)
    BY DEF ChatInv, Shape, Listed
  <2> HIDE DEF fields
  <2>4. /\ DOMAIN messages' = DOMAIN messages
        /\ \A i \in DOMAIN messages :
              /\ ~IsAnswer(messages[i], q) => messages'[i] = messages[i]
              /\ IsAnswer(messages[i], q) => messages'[i].status = messages[i].status
    BY <2>1, <2>2, <2>3, ReducedTexts
  <2>5. \A i \in DOMAIN messages :
           messages'[i].role = messages[i].role /\ messages'[i].of = messages[i].of
    BY <2>1, <2>2, <2>3, ReducedRewrites DEF Rewrites, Rewritten
  <2>6. \A i \in DOMAIN messages : messages'[i].text = messages[i].text
    <3> DEFINE delta == << >>
    <3>1. delta = << >> /\ messages' = Reduced(q, delta, fields) /\ Listed(delta)
      BY <2>1, <2>3
    <3> HIDE DEF delta
    <3> QED
      BY <2>2, <2>3, <3>1, ReducedRewrites
  <2>7. \A i \in DOMAIN messages : IsAnswer(messages[i], q) =>
           (AnswerIsFaithful(surface, messages[i], queries[q])
              => AnswerIsFaithful(surface, messages'[i], queries'[q]))
    BY <2>1, <2>4, <2>6 DEF AnswerIsFaithful, IsWhole
  <2>8. \A i \in DOMAIN messages : IsAnswer(messages[i], q) =>
           AnswerIsFaithful(surface, messages'[i], queries'[q])
    BY <2>7 DEF TextInv, IsAnswer
  <2>9. CallIsFaithful(surface, queries'[q])
    BY <2>1 DEF TextInv
  <2> QED
    BY <2>1, <2>4, <2>5, <2>8, <2>9, OneCallStep
<1> QED
  BY <1>1, <1>2

\* A new query has shown nothing yet.
LEMMA SubmitIsFaithful == ASSUME ChatInv, TextInv, Submit PROVE TextInv'
<1> DEFINE q == Len(queries) + 1
           c == [phase |-> "waiting", conversation |-> conversation, mixes |-> History,
                 timer |-> TRUE, answer |-> None, left |-> << >>, seen |-> {},
                 full |-> << >>, metadata |-> None]
           asked == Message("user", q, None)
           reply == Message("assistant", q, "streaming")
           t == <<asked, reply>>
<1>1. /\ queries' = Append(queries, c) /\ messages' = messages \o t /\ ChatInv'
      /\ surface' = surface
  BY SubmitStep DEF Submit, session
<1>2. /\ Listed(queries) /\ Len(queries) \in Nat /\ DOMAIN queries = 1 .. Len(queries)
      /\ Listed(messages) /\ Len(messages) \in Nat /\ DOMAIN messages = 1 .. Len(messages)
  BY ListedDomain DEF ChatInv, Shape, Calls, Transcript
<1>3. /\ c.phase = "waiting" /\ c.full = << >> /\ c.seen = {} /\ asked.role = "user"
      /\ reply.role = "assistant" /\ reply.of = q /\ reply.text = << >>
  BY DEF Message
<1> HIDE DEF c, asked, reply
<1>4. /\ Listed(t) /\ Len(t) = 2 /\ t[1] = asked /\ t[2] = reply
      /\ Listed(<<c>>) /\ Len(<<c>>) = 1 /\ <<c>>[1] = c
  BY DEF Listed
<1>5. queries' = queries \o <<c>>
  BY <1>1, <1>2 DEF Listed
<1>6. /\ DOMAIN queries' = 1 .. q /\ queries'[q] = c
      /\ \A p \in DOMAIN queries : queries'[p] = queries[p]
  BY <1>2, <1>4, <1>5, ListedConcat
<1> HIDE DEF t
<1>7. /\ DOMAIN messages' = 1 .. Len(messages) + 2
      /\ \A i \in DOMAIN messages : messages'[i] = messages[i]
      /\ \A i \in 1 .. Len(t) : messages'[Len(messages) + i] = t[i]
  <2>1. Listed(messages) /\ Listed(t)
    BY <1>2, <1>4
  <2>2. \A i \in 1 .. Len(t) : (messages \o t)[Len(messages) + i] = t[i]
    BY ONLY <2>1, ListedConcat
  <2>3. /\ DOMAIN (messages \o t) = 1 .. Len(messages) + Len(t)
        /\ \A i \in DOMAIN messages : (messages \o t)[i] = messages[i]
    BY ONLY <2>1, ListedConcat
  <2> QED
    BY <1>1, <1>4, <2>2, <2>3
<1>8. messages'[Len(messages) + 1] = asked /\ messages'[Len(messages) + 2] = reply
  <2>1. 1 \in 1 .. Len(t) /\ 2 \in 1 .. Len(t)
    BY <1>4
  <2> QED
    BY <1>4, <1>7, <2>1
<1>9. \A p \in DOMAIN queries' : p \in DOMAIN queries \/ p = q
  BY <1>2, <1>6
<1>10. \A i \in DOMAIN messages' :
          i \in DOMAIN messages \/ i = Len(messages) + 1 \/ i = Len(messages) + 2
  BY <1>2, <1>7
<1>11. \A p \in DOMAIN queries' : CallIsFaithful(surface, queries'[p])
  BY <1>3, <1>6, <1>9 DEF TextInv, CallIsFaithful
<1>12. ASSUME NEW i \in DOMAIN messages', messages'[i].role = "assistant"
       PROVE  AnswerIsFaithful(surface, messages'[i], queries'[messages'[i].of])
  <2>1. CASE i \in DOMAIN messages
    <3>1. messages'[i] = messages[i] /\ messages[i].of \in DOMAIN queries
      BY <1>7, <1>12, <2>1 DEF ChatInv, AnswersApart
    <3> QED
      BY <1>6, <1>12, <2>1, <3>1 DEF TextInv
  <2>2. CASE i \notin DOMAIN messages
    <3>1. messages'[i] = reply
      BY <1>3, <1>8, <1>10, <1>12, <2>2
    <3> QED
      BY <1>3, <1>6, <3>1 DEF AnswerIsFaithful
  <2> QED
    BY <2>1, <2>2
<1> QED
  BY <1>1, <1>11, <1>12 DEF TextInv

LEMMA CommandIsFaithful == ASSUME ChatInv, TextInv, Command PROVE TextInv'
<1> DEFINE notice == Message("notice", 0, None)
<1>1. messages' = Append(messages, notice) /\ queries' = queries /\ surface' = surface
  BY DEF Command
<1>2. notice.role = "notice"
  BY DEF Message
<1>3. Listed(messages) /\ Len(messages) \in Nat /\ DOMAIN messages = 1 .. Len(messages)
  BY ListedDomain DEF ChatInv, Shape, Transcript
<1> HIDE DEF notice
<1>4. messages' = messages \o <<notice>>
  BY <1>1 DEF ChatInv, Shape, Transcript, Listed
<1>5. Listed(<<notice>>) /\ Len(<<notice>>) = 1 /\ <<notice>>[1] = notice
  BY DEF Listed
<1>6. /\ DOMAIN messages' = 1 .. Len(messages) + 1
      /\ \A i \in DOMAIN messages : messages'[i] = messages[i]
      /\ messages'[Len(messages) + 1] = notice
  BY <1>3, <1>4, <1>5, ListedConcat
<1>7. \A i \in DOMAIN messages' : messages'[i].role = "assistant" =>
         i \in DOMAIN messages /\ messages'[i] = messages[i]
  <2>1. \A i \in DOMAIN messages' : i \in DOMAIN messages \/ i = Len(messages) + 1
    BY <1>3, <1>6
  <2> QED
    BY <1>2, <1>6, <2>1
<1> QED
  BY <1>1, <1>7 DEF TextInv

LEMMA ClearIsFaithful == ASSUME ChatInv, TextInv, Clear PROVE TextInv'
<1>1. /\ surface' = surface
      /\ messages' = <<[Message("notice", 0, None) EXCEPT !.conversation = conversation + 1]>>
      /\ queries' = IF active = None THEN queries ELSE Ended(active)
  BY DEF Clear
<1>2. \A i \in DOMAIN messages' : messages'[i].role = "notice"
  BY <1>1 DEF Message
<1>3. \A p \in DOMAIN queries' : CallIsFaithful(surface, queries'[p])
  <2>1. CASE active = None
    BY <1>1, <2>1 DEF TextInv
  <2>2. CASE active # None
    <3>1. active \in DOMAIN queries /\ queries' = Ended(active) /\ Calls(queries)
      BY <1>1, <2>2 DEF ChatInv, Shape, ActiveIsUnderWay
    <3>2. /\ DOMAIN queries' = DOMAIN queries
          /\ \A p \in DOMAIN queries : p # active => queries'[p] = queries[p]
          /\ queries'[active].phase = "ended"
      BY <3>1, EndedCall
    <3> QED
      BY <3>2 DEF TextInv, CallIsFaithful
  <2> QED
    BY <2>1, <2>2
<1> QED
  BY <1>1, <1>2, <1>3 DEF TextInv

LEMMA TextInvInitially == Init => TextInv
<1> SUFFICES ASSUME Init PROVE TextInv
  OBVIOUS
<1>1. DOMAIN queries = {} /\ \A i \in DOMAIN messages : messages[i].role = "notice"
  BY DEF Init, Message
<1> QED
  BY <1>1 DEF TextInv

LEMMA TextStep == ChatInv /\ TextInv /\ [Next]_vars => TextInv'
<1> SUFFICES ASSUME ChatInv, TextInv, [Next]_vars PROVE TextInv'
  OBVIOUS
<1>1. CASE Submit \/ Command \/ Clear
  BY <1>1, SubmitIsFaithful, CommandIsFaithful, ClearIsFaithful
<1>2. CASE Cancel
  BY <1>2, RaiseIsFaithful DEF Cancel, ChatInv, ActiveIsUnderWay
<1>3. ASSUME NEW q \in DOMAIN queries, Decide(q) \/ Recorded(q) \/ Refused(q) PROVE TextInv'
  BY <1>3, DecisionsAreFaithful
<1>4. ASSUME NEW q \in DOMAIN queries, Breaks(q) \/ TimesOut(q) PROVE TextInv'
  BY <1>4, RaiseIsFaithful DEF Breaks, TimesOut
<1>5. ASSUME NEW q \in DOMAIN queries, Responds(q) \/ Reads(q) \/ Completes(q) PROVE TextInv'
  BY <1>5, RespondsIsFaithful, ReadsIsFaithful, CompletesIsFaithful
<1>6. CASE UNCHANGED vars
  BY <1>6 DEF vars, TextInv
<1> QED
  BY <1>1, <1>2, <1>3, <1>4, <1>5, <1>6 DEF Next

\* TextIsFaithful for every answer, spelling, surface and number of queries: an answer
\* shows what the runtime said, in its order and no event twice, and, when it is
\* complete, all of it but what came as an earlier event did and what the text of that
\* moment ended with (api.ts: sendChat; stream.ts).
THEOREM AnswersAreFaithful == Spec => []TextIsFaithful
<1>1. ChatInv /\ TextInv => TextIsFaithful
  <2> SUFFICES ASSUME ChatInv, TextInv, NEW i \in DOMAIN messages,
                      messages[i].role = "assistant",
                      messages[i].text # << >> \/ IsWhole(messages[i])
               PROVE  Tells(surface, queries[messages[i].of].answer, messages[i].text,
                            IsWhole(messages[i]))
    BY DEF TextIsFaithful
  <2> DEFINE m == messages[i]
             c == queries[m.of]
  <2>1. /\ m.of \in DOMAIN queries /\ CallShaped(c)
        /\ AnswerIsFaithful(surface, m, c) /\ CallIsFaithful(surface, c)
    BY DEF ChatInv, Shape, Calls, AnswersApart, TextInv
  <2>2. CASE c.phase = "ended"
    BY <2>1, <2>2 DEF AnswerIsFaithful
  <2>3. CASE c.phase # "ended"
    <3>1. ~IsWhole(m)
      BY <2>1, <2>3 DEF ChatInv, StillStreams, UnderWay, IsAnswer, IsWhole
    <3>2. m.text = c.full /\ c.phase \in {"waiting", "reading"}
      BY <2>1, <2>3 DEF AnswerIsFaithful, CallShaped
    <3>3. IsReading(surface, c) /\ c.answer \in Seq(Events)
      BY <2>1, <3>1, <3>2, ChatAssumption DEF CallIsFaithful
    <3>4. Tells(surface, c.answer, c.full, FALSE)
      BY <3>3, ReadingIsFaithful
    <3>5. IsWhole(m) = FALSE
      BY <3>1 DEF IsWhole
    <3> QED
      BY <3>2, <3>4, <3>5
  <2> QED
    BY <2>2, <2>3
<1>2. ChatInv /\ TextInv /\ [Next]_vars => (ChatInv /\ TextInv)'
  BY ChatStep, TextStep
<1>3. Init => ChatInv /\ TextInv
  BY ChatInvInitially, TextInvInitially
<1>4. Spec => [](ChatInv /\ TextInv)
  BY <1>2, <1>3, PTL DEF Spec
<1> QED
  BY <1>1, <1>4, PTL
=============================================================================
