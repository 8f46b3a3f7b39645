----------------------------- MODULE MCRelease -----------------------------
(* Two revisions with a version bump between them.  Both track a wheel of *)
(* the first, built before its UI was there and after.                    *)
EXTENDS Release

MCVersion == [r \in {1, 2} |-> r]

FirstWheel(ui) == [version |-> 1, code |-> 1, ui |-> ui]
MCTracked == << [wheels |-> {FirstWheel(None)}, env |-> "dev"],
                [wheels |-> {FirstWheel(1)}, env |-> "dev"] >>
=============================================================================
