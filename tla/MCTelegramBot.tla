---------------------------- MODULE MCTelegramBot ----------------------------
(* The instance of TelegramBot for TLC: every answer of up to MaxLength, with its *)
(* newlines anywhere, its characters numbered from 2 so that none is mistaken     *)
(* for another; and jobs with texts of one and of two parts.                      *)
EXTENDS TelegramBot

CONSTANT MaxLength

MCReplies ==
  {[i \in 1..n |-> IF i \in newlines THEN NL ELSE i + 1] :
     n \in 0..MaxLength, newlines \in SUBSET (1..MaxLength)}

MCJobTexts == {<<2, 3>>, <<NL, 2, 3, NL, 4>>, <<2, 3, 4, 5>>}
=============================================================================
