------------------------- MODULE TeamLoopRefinement -------------------------
(***************************************************************************)
(* The team loop implements SerialDelegation: its frames are the members   *)
(* of the session with their turns, and the top one is at work from the    *)
(* LLM call until its batch is dealt with.                                 *)
(***************************************************************************)
EXTENDS TeamLoop

FramesBar == [k \in DOMAIN stack |-> [who |-> stack[k].name, turns |-> stack[k].turns]]
WorkingBar == pc \in {"llm", "calls", "tool"}
OverBar == pc = "done"

Serial == INSTANCE SerialDelegation
            WITH Members <- Configured, Root <- Starter, Turns <- MaxTurns,
                 MaxDepth <- MaxHops + 2,
                 frames <- FramesBar, working <- WorkingBar, over <- OverBar

\* Every behaviour of the loop is a session of nested, serial delegations, and
\* it keeps going as long as such a session must (handle_team_message).
ImplementsSerialDelegation == Serial!Spec
=============================================================================
