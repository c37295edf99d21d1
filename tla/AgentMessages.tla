--------------------------- MODULE AgentMessages ---------------------------
(***************************************************************************)
(* Messages to one agent, handled at the same time: handle_agent_message,  *)
(* with its LLM calls through LLMRouter, its budget cap (CapChecker) and   *)
(* its rows in the chat history.  A call costs one unit; the cap is on the *)
(* total of llm_usage.                                                     *)
(***************************************************************************)
EXTENDS LLMRouter

CONSTANTS
  Cap,          \* the cap, in calls
  Halts,        \* on_exceed is "halt", else "notify"
  MaxTurns,
  MaxMessages   \* bound: messages

ASSUME MessagesAssumption ==
         /\ Cap \in Nat /\ Halts \in BOOLEAN /\ MaxTurns \in Nat \ {0}
         /\ MaxMessages \in Nat /\ IsFiniteSet(Tasks)

VARIABLES
  turns,        \* task -> turns its message may still take; Idle without one
  chat,         \* rows in chat_messages, by role
  got,          \* history: messages begun
  broken        \* history: messages that ended with an exception

vars == <<sem, acall, charged, turns, chat, got, broken>>

Idle == -1
NoRows == [user |-> 0, assistant |-> 0]

Init ==
  /\ RouterInit
  /\ turns = [t \in Tasks |-> Idle]
  /\ chat = NoRows /\ got = 0 /\ broken = 0

\* total_usd adds up the rows without an error.
Used == charged

\* Bug: the cap itself may still be spent.
AllowedAtCap == ~Halts \/ Used <= Cap

\* CapChecker.check.
Allowed == ~Halts \/ Used < Cap

\* The message is taken, the user row written, and the LLM called.
Take(t) ==
  /\ turns[t] = Idle /\ got < MaxMessages /\ Allowed
  /\ turns' = [turns EXCEPT ![t] = MaxTurns - 1]
  /\ chat' = [chat EXCEPT !.user = @ + 1]
  /\ got' = got + 1
  /\ Begin(t)
  /\ UNCHANGED broken

\* The LLM asked for tools, and they ran: the next turn.
NextTurn(t) ==
  /\ Call(t, "returned") /\ turns[t] > 0
  /\ turns' = [turns EXCEPT ![t] = @ - 1]
  /\ acall' = [acall EXCEPT ![t] = NewCall]
  /\ sem' = Append(sem, t)
  /\ UNCHANGED <<charged, chat, got, broken>>

\* Bug: a message that runs out of turns gets no row for its fallback text.
ReplyOnlyInTime(t) ==
  /\ Call(t, "returned")
  /\ chat' = [chat EXCEPT !.assistant = IF turns[t] > 0 THEN @ + 1 ELSE @]
  /\ turns' = [turns EXCEPT ![t] = Idle]
  /\ Done(t)
  /\ UNCHANGED <<got, broken>>

\* A text, a tool that needs permission, or the fallback message after the last
\* turn: an assistant row, and the message is done.
Reply(t) ==
  /\ Call(t, "returned")
  /\ chat' = [chat EXCEPT !.assistant = @ + 1]
  /\ turns' = [turns EXCEPT ![t] = Idle]
  /\ Done(t)
  /\ UNCHANGED <<got, broken>>

\* The LLM call, or a tool, raises: the exception leaves the handler.
Breaks(t) ==
  /\ turns[t] # Idle /\ Done(t)
  /\ turns' = [turns EXCEPT ![t] = Idle]
  /\ broken' = broken + 1
  /\ UNCHANGED <<chat, got>>

LLMStep(t) == RouterStep(t) /\ UNCHANGED <<turns, chat, got, broken>>

MessageStep(t) == LLMStep(t) \/ NextTurn(t) \/ Reply(t) \/ Breaks(t)

Next == \E t \in Tasks : Take(t) \/ MessageStep(t)

Spec == Init /\ [][Next]_vars

\* A request is answered or times out after 60 seconds, a pause ends, and a tool
\* returns.
FairSpec == Spec /\ \A t \in Tasks : WF_vars(MessageStep(t))

-----------------------------------------------------------------------------
(* Properties *)

Handled == {t \in Tasks : turns[t] # Idle}

\* The cap is checked when a message begins and its calls are written when they
\* are answered, so messages handled at the same time overshoot it, by less than
\* what they may take together.
OvershootBounded ==
  Halts =>
    charged < Cap + Cardinality(Tasks) * MaxTurns \/ charged = 0

\* A user row stays without an answer only while its message is handled or when
\* an exception left the handler (comment at agent_handler.py:136): also when the
\* turns run out.
EveryUserRowAnswered ==
  chat.user = chat.assistant + Cardinality(Handled) + broken

\* Every message ends, whatever the LLM and the providers do.
EveryMessageEnds == \A t \in Tasks : turns[t] # Idle ~> turns[t] = Idle
=============================================================================
