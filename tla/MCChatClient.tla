---------------------------- MODULE MCChatClient ----------------------------
(* Answers: a packet for approval; a text with a token that is said twice, *)
(* one that the text before it ends with, a replayed event and the source  *)
(* line after the governance event; a stream without text; and one that    *)
(* breaks off.                                                             *)
EXTENDS ChatClient

CONSTANTS a, b, c, source

MCSpelling == [t \in Tokens |-> CASE t = a -> <<"1">> [] t = b -> <<"0", "0">>
                                  [] t = c -> <<"0">> [] t = source -> <<"S">>]

Delta(token, n) == [kind |-> "delta", what |-> token, seq |-> n]
Governance(what) == [kind |-> "governance", what |-> what, seq |-> 0]
Other(kind, n) == [kind |-> kind, what |-> None, seq |-> n]

MCAnswers == {
    <<Other("progress", 0), Delta(a, 1), Governance("pending")>>,
    <<Delta(a, 1), Delta(b, 2), Delta(c, 3), Delta(a, 4), Delta(b, 2),
      Governance("plain"), Delta(source, 0)>>,
    <<Other("other", 1)>>,
    <<Delta(a, 1), Other("error", 0)>> }
=============================================================================
