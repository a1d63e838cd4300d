---------------------------- MODULE MCTrustZone ----------------------------
(* Trust zones for TLC: two requests and the command-line tool, an editor    *)
(* that removes, breaks or rewrites the file, and the watcher.               *)
EXTENDS TrustZone

CONSTANT web

One == <<[subject |-> web, label |-> "untrusted"]>>
Edits == {Absent, Torn, [dflt |-> "", assign |-> One]}
NoEdits == {}
=============================================================================
