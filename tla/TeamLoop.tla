------------------------------ MODULE TeamLoop ------------------------------
(***************************************************************************)
(* One session of the team loop (handle_team_message): a stack of agent    *)
(* frames, of which only the top one runs.  A step of this module is the   *)
(* code between two awaits, or one branch of the loop over the tool calls  *)
(* of a reply: the LLM call, every tool call and every delegation are      *)
(* steps of their own.                                                     *)
(*                                                                         *)
(* What the LLM answers is chosen freely: any batch of calls in Calls, or  *)
(* any reply.  Message texts are left out.  Of a transcript the model      *)
(* keeps which data classes were read into it.                             *)
(***************************************************************************)
EXTENDS TrifectaGuard, HandoffRouter

CONSTANTS
  Team,         \* the registry of the team
  Starter,      \* team.manager, or the first member
  Configured,   \* agents that have an AgentHandlerConfig
  Guarded,      \* of these, the ones with tool_tags (the others have no guard)
  MaxHops,      \* policy.max_hops
  MaxTurns,     \* policy.max_turns
  Calls,        \* the calls the LLM may put in a batch
  MaxBatch      \* bound: calls in one batch

\* A well-formed tool call: of a tool, or a delegation whose target may be any
\* name, the word "auto" too.  A delegation may set return_on.
ToolCall == [kind : {"tool"}, tool : Tools]
DelegateCall == [kind : {"delegate"}, to : Agents \cup {AutoTarget}, task : Tasks,
                 returnOn : BOOLEAN]

\* A delegation that parse_delegate_call rejects: no target, no task, or an
\* unknown context_mode.
BadDelegateCall == [kind : {"bad_delegate"}]

ASSUME TeamAssumption ==
         /\ Team \in Registry
         /\ AutoTarget \notin Agents /\ None \notin Agents
         /\ Starter \in Configured
         /\ Configured \subseteq Agents
         /\ Guarded \subseteq Configured
         /\ MaxHops \in Nat
         /\ MaxTurns \in Nat
         /\ MaxBatch \in Nat \ {0}
         /\ Calls \subseteq ToolCall \cup DelegateCall \cup BadDelegateCall

VARIABLES
  pc,           \* where the loop is: "loop", "llm", "calls", "tool" or "done"
  stack,        \* the frames, the root first
  left,         \* number of calls of the current batch not handled yet
  lastReply,    \* last_reply: who gave it, and what the loop found in it
  outcome,      \* how the session ended
  chat,         \* rows the session wrote to the starter's chat history
  lastRow,      \* handoff_audit: the outcome of the last row of the session
  unrecorded    \* tool_audit: number of tool calls, blocked or started, that
                \* have no row

vars == <<pc, stack, left, lastReply, outcome, chat, lastRow, unrecorded>>

NoHandoff == -1

\* hop is the hop_count of last_handoff.  taint is the guard's (empty when the
\* frame has none).  own is history: the classes the guard recorded in this frame.
Frame == [name : Configured, turns : 0..MaxTurns, hop : {NoHandoff} \cup Nat,
          returnOn : BOOLEAN, taint : SUBSET DataClass,
          own : SUBSET DataClass]

\* Bug: the guard of a delegate starts without tags.
NewFrameUnseeded(name, hop, returnOn, tags) ==
  [name |-> name, turns |-> MaxTurns, hop |-> hop, returnOn |-> returnOn,
   taint |-> {}, own |-> {}]

NewFrame(name, hop, returnOn, tags) ==
  [name |-> name, turns |-> MaxTurns, hop |-> hop, returnOn |-> returnOn,
   taint |-> IF name \in Guarded THEN tags ELSE {}, own |-> {}]

Top == stack[Len(stack)]
Below == SubSeq(stack, 1, Len(stack) - 1)

\* Replies, by what the loop finds in them: the termination text, else the
\* return_on text of the frame, else neither.
Replies == {"plain", "returns", "terminates"}

ReplySource == IF Len(stack) = 1 THEN "root" ELSE "child"
Remember(text) == lastReply' = [from |-> ReplySource, text |-> text]

Init ==
  /\ pc = "loop"
  /\ stack = <<NewFrame(Starter, NoHandoff, FALSE, {})>>
  /\ left = 0
  /\ lastReply = [from |-> "fallback", text |-> "plain"]
  /\ outcome = "running"
  /\ chat = <<"user">>
  /\ lastRow = "none"
  /\ unrecorded = 0

\* handle_team_message returns or raises: its frames are gone.
End(how) == pc' = "done" /\ outcome' = how /\ left' = 0 /\ stack' = <<>>

-----------------------------------------------------------------------------
(* The head of the loop *)

\* Bug: one frame without turns ends the session.
DropExhaustedAll ==
  /\ pc = "loop" /\ stack # <<>> /\ Top.turns = 0
  /\ stack' = <<>>
  /\ UNCHANGED <<pc, left, lastReply, outcome, chat, lastRow, unrecorded>>

\* A frame without turns is popped.  Nothing is said to the frame below.
DropExhausted ==
  /\ pc = "loop" /\ stack # <<>> /\ Top.turns = 0
  /\ stack' = Below
  /\ UNCHANGED <<pc, left, lastReply, outcome, chat, lastRow, unrecorded>>

\* Bug: the turns of the frame are not looked at.
AskLLMForOneMore ==
  /\ pc = "loop" /\ stack # <<>>
  /\ stack' = [stack EXCEPT ![Len(stack)].turns = @ - 1]
  /\ pc' = "llm"
  /\ UNCHANGED <<left, lastReply, outcome, chat, lastRow, unrecorded>>

\* Bug: a turn is not paid for.
AskLLMUnpaid ==
  /\ pc = "loop" /\ stack # <<>> /\ Top.turns > 0
  /\ pc' = "llm"
  /\ UNCHANGED <<stack, left, lastReply, outcome, chat, lastRow, unrecorded>>

AskLLM ==
  /\ pc = "loop" /\ stack # <<>> /\ Top.turns > 0
  /\ stack' = [stack EXCEPT ![Len(stack)].turns = @ - 1]
  /\ pc' = "llm"
  /\ UNCHANGED <<left, lastReply, outcome, chat, lastRow, unrecorded>>

\* The stack is empty: last_reply is stored and returned.
Finish ==
  /\ pc = "loop" /\ stack = <<>>
  /\ chat' = Append(chat, "assistant")
  /\ End("replied")
  /\ UNCHANGED <<lastReply, lastRow, unrecorded>>

-----------------------------------------------------------------------------
(* The LLM answers *)

\* acall raises, or the chat row of a reply that terminates is not written: the
\* exception leaves the loop.
LLMFails ==
  /\ pc = "llm"
  /\ End("raised")
  /\ UNCHANGED <<lastReply, chat, lastRow, unrecorded>>

\* A batch of calls.  Which ones is chosen when each of them is reached:
\* nothing looks at a call before its turn.
LLMCalls ==
  /\ pc = "llm"
  /\ left' \in 1..MaxBatch
  /\ pc' = "calls"
  /\ UNCHANGED <<stack, lastReply, outcome, chat, lastRow, unrecorded>>

\* The termination text ends the session from any frame.
ReplyTerminates ==
  /\ pc = "llm"
  /\ Remember("terminates")
  /\ chat' = Append(chat, "assistant")
  /\ End("terminated")
  /\ UNCHANGED <<lastRow, unrecorded>>

\* A reply pops its frame and is appended to the transcript of the frame below,
\* whether or not it contains the return_on text: both branches do the same.
Reply(r) ==
  /\ pc = "llm" /\ (r = "returns" => Top.returnOn)
  /\ Remember(r)
  /\ stack' = Below
  /\ pc' = "loop"
  /\ UNCHANGED <<left, outcome, chat, lastRow, unrecorded>>

-----------------------------------------------------------------------------
(* The calls of a batch, in order *)

Handling(c, kind) == pc = "calls" /\ c.kind = kind

\* The current call is dealt with; the loop goes on after the last one.
NextCall ==
  /\ left' = left - 1
  /\ pc' = IF left = 1 THEN "loop" ELSE "calls"

\* parse_delegate_call is called outside the try: its ValueError is not caught.
DelegateMalformed(c) ==
  /\ Handling(c, "bad_delegate")
  /\ End("raised")
  /\ UNCHANGED <<lastReply, chat, lastRow, unrecorded>>

\* Bug: the limit is checked before the hop is counted.
HopsLeftBefore == Top.hop = NoHandoff \/ Top.hop <= MaxHops

\* next_hop counts from the handoff that started this frame.  The root has
\* none: its delegations start at 0 and are not limited.
HopsLeft == Top.hop = NoHandoff \/ Top.hop + 1 <= MaxHops
NextHop == Top.hop + 1

\* The LLM is told hop_limit; the router is not reached.
DelegateHopLimit(c) ==
  /\ Handling(c, "delegate") /\ ~HopsLeft
  /\ NextCall
  /\ UNCHANGED <<stack, lastReply, outcome, chat, lastRow, unrecorded>>

\* The agent that router.route answers, and the row it writes.
Target(c) == Resolve(Team, Top.name, c.to, c.task)
AuditHandoff(c) == lastRow' = RouteOutcome(Team, Top.name, c.to, c.task)

\* The LLM is told route_failed.
DelegateUnroutable(c) ==
  /\ Handling(c, "delegate") /\ HopsLeft /\ Target(c) = None
  /\ AuditHandoff(c)
  /\ NextCall
  /\ UNCHANGED <<stack, lastReply, outcome, chat, unrecorded>>

\* configs has no such agent: KeyError, after the row "routed".
DelegateUnconfigured(c) ==
  /\ Handling(c, "delegate") /\ HopsLeft
  /\ Target(c) # None /\ Target(c) \notin Configured
  /\ AuditHandoff(c)
  /\ End("raised")
  /\ UNCHANGED <<lastReply, chat, unrecorded>>

\* The child starts from the tags of the parent's guard, if it has one.  The
\* rest of the batch is dropped.
Delegate(c) ==
  /\ Handling(c, "delegate") /\ HopsLeft /\ Target(c) \in Configured
  /\ AuditHandoff(c)
  /\ stack' = Append(stack, NewFrame(Target(c), NextHop, c.returnOn, Top.taint))
  /\ left' = 0
  /\ pc' = "loop"
  /\ UNCHANGED <<lastReply, outcome, chat, unrecorded>>

HasGuard == Top.name \in Guarded

\* The loop never hands a guard a clearance.  The row is written at once.
ToolBlocked(c) ==
  /\ Handling(c, "tool") /\ HasGuard /\ Refuses(Top.taint, FALSE, c.tool)
  /\ NextCall
  /\ UNCHANGED <<stack, lastReply, outcome, chat, lastRow, unrecorded>>

\* The class is recorded before the tool runs.
ToolStarts(c) ==
  /\ Handling(c, "tool") /\ (HasGuard => ~Refuses(Top.taint, FALSE, c.tool))
  /\ stack' = IF HasGuard
               THEN [stack EXCEPT ![Len(stack)].taint = Recorded(@, c.tool),
                                  ![Len(stack)].own = @ \cup {TagOf(c.tool)}]
               ELSE stack
  /\ unrecorded' = unrecorded + 1
  /\ pc' = "tool"
  /\ UNCHANGED <<left, lastReply, outcome, chat, lastRow>>

\* The row of the call.
RecordToolCall == unrecorded' = unrecorded - 1

\* Bug: only blocked calls are recorded.
ToolReturnsUnrecorded ==
  /\ pc = "tool"
  /\ NextCall
  /\ UNCHANGED <<stack, lastReply, outcome, chat, lastRow, unrecorded>>

ToolReturns ==
  /\ pc = "tool"
  /\ RecordToolCall
  /\ NextCall
  /\ UNCHANGED <<stack, lastReply, outcome, chat, lastRow>>

\* NeedsAuthError: the user is asked to connect and the session ends, with no
\* audit row and no chat row.
ToolNeedsAuth ==
  /\ pc = "tool"
  /\ End("needs_auth")
  /\ UNCHANGED <<lastReply, chat, lastRow, unrecorded>>

\* Any other exception of execute_tool, of record_tool_call after it, or of the
\* on_auth_required callback.
ToolFails ==
  /\ pc = "tool"
  /\ End("raised")
  /\ UNCHANGED <<lastReply, chat, lastRow, unrecorded>>

-----------------------------------------------------------------------------
(* Rows that are not written *)

\* chat_append of the last reply, the row of a blocked call or that of a handoff
\* raises: the exception leaves the loop.
StatementFails ==
  /\ \/ pc = "loop" /\ stack = <<>>
     \/ \E c \in Calls :
          \/ Handling(c, "tool") /\ HasGuard /\ Refuses(Top.taint, FALSE, c.tool)
          \/ Handling(c, "delegate") /\ HopsLeft
  /\ End("raised")
  /\ UNCHANGED <<lastReply, chat, lastRow, unrecorded>>

-----------------------------------------------------------------------------

HandleCall(c) ==
  \/ DelegateMalformed(c) \/ DelegateHopLimit(c) \/ DelegateUnroutable(c)
  \/ DelegateUnconfigured(c) \/ Delegate(c)
  \/ ToolBlocked(c) \/ ToolStarts(c)

Next ==
  \/ DropExhausted \/ AskLLM \/ Finish
  \/ LLMFails \/ LLMCalls \/ ReplyTerminates
  \/ \E r \in {"plain", "returns"} : Reply(r)
  \/ \E c \in Calls : HandleCall(c)
  \/ ToolReturns \/ ToolNeedsAuth \/ ToolFails
  \/ StatementFails

Spec == Init /\ [][Next]_vars

\* The loop runs on, and every LLM and tool call it awaits answers or raises.
FairSpec == Spec /\ WF_vars(Next)
-----------------------------------------------------------------------------
(* Properties *)

TypeOK ==
  /\ pc \in {"loop", "llm", "calls", "tool", "done"}
  /\ stack \in Seq(Frame)
  /\ left \in 0..MaxBatch
  /\ lastReply \in [from : {"fallback", "root", "child"}, text : Replies]
  /\ outcome \in {"running", "replied", "terminated", "needs_auth", "raised"}
  /\ chat \in Seq({"user", "assistant"})
  /\ lastRow \in Outcomes \cup {"none"}
  /\ unrecorded \in Nat

\* The frames up to k that pass their taint on to k: those from which every
\* frame down to k has a guard.
GuardedChain(k) == {j \in 1..k : \A i \in j..k : stack[i].name \in Guarded}
ChainOwn(k) == UNION {stack[j].own : j \in GuardedChain(k)}

\* The guard of a delegate knows exactly what was read above it along an
\* unbroken chain of guards, and in its own frame: nothing is forgotten over a
\* delegation, and nothing read by a child that has returned is remembered.
TaintIsTheChain ==
  \A k \in DOMAIN stack :
    stack[k].name \in Guarded => stack[k].taint = ChainOwn(k)

\* No guarded frame starts an external write when the unbroken chain of guards
\* above it has read both untrusted and private data, whichever frames of the
\* chain read which (check_and_record with a guard made by from_handoff).
NoExfilDownTheChain ==
  [][ \A c \in Calls :
        (ToolStarts(c) /\ HasGuard /\ TagOf(c.tool) = "external_write")
          => ~Exfil(ChainOwn(Len(stack))) ]_vars

\* hop_count is the place in the stack: next_hop counts the frames of the
\* current chain and forgets those that have returned.
HopIsDepth ==
  \A k \in DOMAIN stack : stack[k].hop = IF k = 1 THEN NoHandoff ELSE k - 2

\* max_hops bounds how deep delegations nest: one frame for the root, one for
\* its delegation with hop_count 0, one for each hop after it.
DepthBounded == Len(stack) <= MaxHops + 2

\* tool_audit: a call that was handed to execute_tool has its row, but for the
\* call that is running and the one that ended the session.
AuditMissesOnlyTheLastCall ==
  /\ unrecorded <= 1
  /\ unrecorded = 1 =>
       pc = "tool" \/ (pc = "done" /\ outcome \in {"needs_auth", "raised"})
  /\ outcome = "needs_auth" => unrecorded = 1

\* The chat history gets an answer to the user row exactly when the session
\* ends with a reply: a session that raises, or that stops to ask for
\* permission, leaves the user row without one.
ChatAnsweredByReplies ==
  chat = IF outcome \in {"replied", "terminated"}
         THEN <<"user", "assistant">> ELSE <<"user">>

\* The session ends, whatever the LLM asks for: turns are per frame and depth
\* is bounded.
SessionEnds == <>(pc = "done")
=============================================================================
