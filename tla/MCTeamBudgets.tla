--------------------------- MODULE MCTeamBudgets ---------------------------
(* Two members, one of which is only notified at its cap. *)
EXTENDS TeamBudgets

CONSTANTS writer, editor

MCShare == [m \in {writer, editor} |-> IF m = writer THEN 3 ELSE 2]
=============================================================================
