-------------------------- MODULE SerialDelegation --------------------------
(***************************************************************************)
(* What the team loop promises to whoever starts a session: members work   *)
(* one at a time, like nested procedure calls.  A member either works, at  *)
(* the cost of one of its turns, or has delegated and waits; depth and     *)
(* turns are bounded, so a session that keeps going comes to its end.      *)
(***************************************************************************)
EXTENDS Integers, Sequences

CONSTANTS Members, Root, Turns, MaxDepth

VARIABLES frames,   \* who is in the session and the turns each has left
          working,  \* the last member is at work
          over      \* the session has ended

vars == <<frames, working, over>>

Fresh(member) == [who |-> member, turns |-> Turns]
Last == frames[Len(frames)]
Callers == SubSeq(frames, 1, Len(frames) - 1)

Init == frames = <<Fresh(Root)>> /\ working = FALSE /\ over = FALSE

\* The member whose turn it is spends one.
Work ==
  /\ ~over /\ ~working /\ frames # <<>> /\ Last.turns > 0
  /\ frames' = [frames EXCEPT ![Len(frames)].turns = @ - 1]
  /\ working' = TRUE
  /\ UNCHANGED over

\* It is done with this turn and keeps control.
Settle == working /\ working' = FALSE /\ UNCHANGED <<frames, over>>

\* It gives control to another member.
Call(member) ==
  /\ working /\ Len(frames) < MaxDepth
  /\ frames' = Append(frames, Fresh(member))
  /\ working' = FALSE
  /\ UNCHANGED over

\* It gives control back: it replied, or it has no turns left.
Return ==
  /\ ~over /\ frames # <<>>
  /\ working \/ Last.turns = 0
  /\ frames' = Callers
  /\ working' = FALSE
  /\ UNCHANGED over

\* The session ends: nobody is left, or the member at work ends it.
Stop ==
  /\ ~over /\ (working \/ frames = <<>>)
  /\ frames' = <<>> /\ working' = FALSE /\ over' = TRUE

Next == Work \/ Settle \/ (\E m \in Members : Call(m)) \/ Return \/ Stop

Spec == Init /\ [][Next]_vars /\ WF_vars(Next)

=============================================================================
