------------------------- MODULE MCAsyncMessageBus -------------------------
(***************************************************************************)
(* A small instance of AsyncMessageBus.                                    *)
(***************************************************************************)
EXTENDS AsyncMessageBus
=============================================================================
