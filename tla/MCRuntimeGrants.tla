--------------------------- MODULE MCRuntimeGrants ---------------------------
(* A small instance of RuntimeGrants for TLC. *)
EXTENDS RuntimeGrants

MCOptions == {[open |-> FALSE, live |-> TRUE, audit |-> TRUE],
              [open |-> FALSE, live |-> TRUE, audit |-> FALSE],
              [open |-> TRUE, live |-> FALSE, audit |-> TRUE]}
=============================================================================
