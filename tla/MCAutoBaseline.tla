--------------------------- MODULE MCAutoBaseline ---------------------------
(* The baseline for TLC: two binaries, one of them with a space in its name  *)
(* whose first field is the other's name.                                    *)
EXTENDS AutoBaseline

CONSTANTS tool, toolbox

FirstField == [i \in {tool, toolbox} |-> tool]
=============================================================================
