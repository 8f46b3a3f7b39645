------------------------------ MODULE Scripts ------------------------------
(***************************************************************************)
(* The operator's scripts are run one at a time, as the Makefile and the   *)
(* deployment workflow run them.  What a script does is in the modules     *)
(* that extend this one.                                                   *)
(***************************************************************************)
EXTENDS Naturals

CONSTANT MaxScripts   \* bound on the scripts that are run

VARIABLES script,     \* the one that runs, "none" between two of them
          scripts     \* how many have been started

ASSUME ScriptsAssumption == MaxScripts \in Nat

Starts(name) ==
  /\ script = "none"
  /\ scripts < MaxScripts
  /\ script' = name
  /\ scripts' = scripts + 1
=============================================================================
