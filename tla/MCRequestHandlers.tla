------------------------- MODULE MCRequestHandlers -------------------------
(***************************************************************************)
(* A stream that states its persona and an invocation that inherits it, in *)
(* one conversation; the latter has no text.  The responses: two governed  *)
(* ones that await approval and of which the second is longer than the     *)
(* budget when streamed, one that is flagged, one that is flagged beyond   *)
(* the budget of a stream, one that ends with an empty message, and none.  *)
(***************************************************************************)
EXTENDS RequestHandlers

CONSTANTS s1, i1, c1, manager

MCRequests == {s1, i1}
MCStreams == {s1}
MCAsking == {s1}
MCConversationOf == [r \in Requests |-> c1]
MCGiven == [r \in Requests |-> IF r = s1 THEN manager ELSE None]
MCResponse(messages, governed, pending) ==
    [messages |-> messages, governed |-> governed, pending |-> pending]
MCResponses ==
    {MCResponse(<< <<"plain">> >>, TRUE, TRUE),
     MCResponse(<< <<"plain", "plain">> >>, TRUE, TRUE),
     MCResponse(<< <<"plain", "plain">>, <<"flagged">> >>, FALSE, FALSE),
     MCResponse(<< <<"plain", "flagged">> >>, FALSE, FALSE),
     MCResponse(<< <<"plain">>, << >> >>, FALSE, FALSE),
     MCResponse(<< >>, FALSE, FALSE)}
=============================================================================
