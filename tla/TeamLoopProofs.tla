--------------------------- MODULE TeamLoopProofs ---------------------------
(***************************************************************************)
(* Theorems about the team loop, for every team, every set of calls and    *)
(* every value of the policy: its invariants, that it implements           *)
(* SerialDelegation, and that a session has finitely many steps.  That it  *)
(* takes them is a matter of fairness, and left to TLC (SessionEnds,       *)
(* ImplementsSerialDelegation).                                            *)
(***************************************************************************)
EXTENDS TeamLoopRefinement, WellFoundedInduction, SequenceTheorems, TLAPS

USE GuardAssumption, TeamAssumption

\* Where the loop is, what it holds there.
ControlOK ==
  /\ pc \in {"llm", "calls", "tool"} => stack # <<>>
  /\ pc \in {"calls", "tool"} => left # 0
  /\ outcome = "running" <=> pc # "done"
  /\ pc = "done" => stack = <<>>

\* A frame without a guard has no taint to hand on.
UnguardedUntainted ==
  \A k \in DOMAIN stack : stack[k].name \notin Guarded => stack[k].taint = {}

\* What the audit lacks while the loop runs.
AuditOK ==
  /\ pc \in {"loop", "llm", "calls"} => unrecorded = 0
  /\ pc = "tool" => unrecorded = 1

-----------------------------------------------------------------------------
(* The stack *)

\* The classes that a guard records are data classes.
LEMMA TagTyped ==
  ASSUME NEW tool \in Tools, TagOf(tool) # Undeclared
  PROVE  TagOf(tool) \in DataClass
  BY DEF TagOf

\* The top of a stack that is not empty is a frame.
LEMMA TopTyped ==
  ASSUME stack \in Seq(Frame), stack # <<>>
  PROVE  /\ Len(stack) \in Nat \ {0}
         /\ Top = stack[Len(stack)]
         /\ Top \in Frame
  BY EmptySeq DEF Top

\* Popping keeps the frames below the top.
LEMMA BelowTyped ==
  ASSUME stack \in Seq(Frame), stack # <<>>
  PROVE  /\ Below \in Seq(Frame)
         /\ Len(Below) = Len(stack) - 1
         /\ \A k \in 1..(Len(stack) - 1) : Below[k] = stack[k]
<1> DEFINE n == Len(stack) - 1
<1>1. n \in Nat /\ n <= Len(stack)
  BY EmptySeq
<1> HIDE DEF n
<1>2. \A k \in 1..n : stack[k] \in Frame
  BY <1>1
<1>3. Len(SubSeq(stack, 1, n)) = n
  BY <1>1
<1>4. SubSeq(stack, 1, n) \in Seq(Frame)
  BY <1>1, <1>2, SubSeqProperties
<1>5. \A k \in 1..n : SubSeq(stack, 1, n)[k] = stack[k]
  BY <1>1
<1>6. QED
  BY <1>3, <1>4, <1>5 DEF Below, n

\* A new frame is a frame.
LEMMA NewFrameTyped ==
  ASSUME NEW name \in Configured, NEW hop \in {NoHandoff} \cup Nat,
         NEW returnOn \in BOOLEAN, NEW tags \in SUBSET DataClass
  PROVE  NewFrame(name, hop, returnOn, tags) \in Frame
  BY DEF NewFrame, Frame

\* Starting a tool changes the taint and own fields of the top frame: the guard
\* records the class of the tool in both.
LEMMA ToolStartsStack ==
  ASSUME stack \in Seq(Frame), stack # <<>>,
         NEW c \in Calls, ToolStarts(c)
  PROVE  /\ stack' \in Seq(Frame)
         /\ Len(stack') = Len(stack) /\ stack' # <<>>
         /\ \A k \in 1..Len(stack) :
              /\ stack'[k].name = stack[k].name
              /\ stack'[k].turns = stack[k].turns
              /\ stack'[k].hop = stack[k].hop
         /\ \A k \in 1..(Len(stack) - 1) : stack'[k] = stack[k]
         /\ HasGuard =>
              /\ stack'[Len(stack)].taint = Top.taint \cup {TagOf(c.tool)}
              /\ stack'[Len(stack)].own = Top.own \cup {TagOf(c.tool)}
         /\ ~HasGuard => stack' = stack
<1>1. Len(stack) \in 1..Len(stack) /\ Top \in Frame /\ Top = stack[Len(stack)]
  BY TopTyped
<1>2. CASE ~HasGuard
  BY <1>1, <1>2 DEF ToolStarts
<1>3. CASE HasGuard
  <2>1. TagOf(c.tool) \in DataClass
    BY <1>3, TagTyped DEF ToolStarts, Handling, Refuses, ToolCall, DelegateCall,
                          BadDelegateCall
  <2> DEFINE f == [Top EXCEPT !.taint = Top.taint \cup {TagOf(c.tool)},
                              !.own = Top.own \cup {TagOf(c.tool)}]
  <2>2. f \in Frame
    BY <1>1, <2>1 DEF Frame
  <2>3. stack' = [stack EXCEPT ![Len(stack)] = f]
    BY <1>1, <1>3 DEF ToolStarts, Recorded
  <2>4. /\ f.name = Top.name /\ f.turns = Top.turns /\ f.hop = Top.hop
        /\ f.taint = Top.taint \cup {TagOf(c.tool)}
        /\ f.own = Top.own \cup {TagOf(c.tool)}
    BY <1>1 DEF Frame
  <2> HIDE DEF f
  <2>5. /\ stack' \in Seq(Frame) /\ Len(stack') = Len(stack)
        /\ \A k \in 1..Len(stack) :
             stack'[k] = IF k = Len(stack) THEN f ELSE stack[k]
    BY <1>1, <2>2, <2>3
  <2>6. stack' # <<>>
    BY <1>1, <2>5
  <2>7. QED
    BY <1>1, <1>3, <2>4, <2>5, <2>6
<1>4. QED
  BY <1>2, <1>3

\* The row that answers the user's row.
LEMMA Answered ==
  Append(<<"user">>, "assistant") = <<"user", "assistant">>
<1> DEFINE a == Append(<<"user">>, "assistant")
           b == <<"user", "assistant">>
           S == {"user", "assistant"}
<1>1. <<"user">> \in Seq(S) /\ Len(<<"user">>) = 1
  OBVIOUS
<1>2. a \in Seq(S) /\ Len(a) = 2 /\ a[1] = "user" /\ a[2] = "assistant"
  BY <1>1
<1>3. b \in Seq(S) /\ Len(b) = 2 /\ b[1] = "user" /\ b[2] = "assistant"
  OBVIOUS
<1> HIDE DEF a, b, S
<1>4. Len(a) = Len(b) /\ \A i \in 1..Len(a) : a[i] = b[i]
  BY <1>2, <1>3
<1>5. a = b
  BY <1>2, <1>3, <1>4, SeqEqual
<1>6. QED
  BY <1>5 DEF a, b

-----------------------------------------------------------------------------
(* Types, control, audit and chat *)

\* The part of the inductive invariant that does not look into the frames.  The
\* types need it: a tool that returns takes one off what the audit lacks.
TypeInv ==
  TypeOK /\ ControlOK /\ AuditOK /\ AuditMissesOnlyTheLastCall
    /\ ChatAnsweredByReplies

\* Every step keeps it (each branch of handle_team_message).
LEMMA TypeStep ==
  ASSUME TypeInv, [Next]_vars
  PROVE  TypeInv'
<1> USE DEF TypeInv, TypeOK, ControlOK, AuditOK, AuditMissesOnlyTheLastCall,
            ChatAnsweredByReplies
<1>1. CASE DropExhausted
  BY <1>1, BelowTyped DEF DropExhausted
<1>2. CASE AskLLM
  <2>1. Len(stack) \in 1..Len(stack) /\ Top \in Frame /\ Top = stack[Len(stack)]
    BY <1>2, TopTyped DEF AskLLM
  <2> DEFINE f == [Top EXCEPT !.turns = @ - 1]
  <2>2. Top.turns - 1 \in 0..MaxTurns
    BY <1>2, <2>1 DEF AskLLM, Frame
  <2>3. f \in Frame
    BY <2>1, <2>2 DEF Frame
  <2>4. stack' = [stack EXCEPT ![Len(stack)] = f]
    BY <1>2, <2>1 DEF AskLLM
  <2> HIDE DEF f
  <2>5. stack' \in Seq(Frame) /\ Len(stack') = Len(stack)
    BY <2>1, <2>3, <2>4
  <2>6. stack' # <<>>
    BY <2>1, <2>5
  <2>7. QED
    BY <1>2, <2>5, <2>6 DEF AskLLM
<1>3. CASE Finish
  <2>1. chat' = <<"user", "assistant">> /\ chat' \in Seq({"user", "assistant"})
    BY <1>3, Answered DEF Finish
  <2>2. ChatAnsweredByReplies'
    BY <1>3, <2>1 DEF Finish, End
  <2>3. TypeOK'
    BY <1>3, <2>1 DEF Finish, End
  <2>4. ControlOK' /\ AuditOK' /\ AuditMissesOnlyTheLastCall'
    BY <1>3 DEF Finish, End
  <2>5. QED
    BY <2>2, <2>3, <2>4
<1>4. CASE LLMFails
  BY <1>4 DEF LLMFails, End
<1>5. CASE LLMCalls
  BY <1>5 DEF LLMCalls
<1>6. CASE ReplyTerminates
  <2>1. chat' = <<"user", "assistant">> /\ chat' \in Seq({"user", "assistant"})
    BY <1>6, Answered DEF ReplyTerminates
  <2>2. ChatAnsweredByReplies'
    BY <1>6, <2>1 DEF ReplyTerminates, End
  <2>3. TypeOK'
    BY <1>6, <2>1 DEF ReplyTerminates, End, Remember, ReplySource, Replies
  <2>4. ControlOK' /\ AuditOK' /\ AuditMissesOnlyTheLastCall'
    BY <1>6 DEF ReplyTerminates, End
  <2>5. QED
    BY <2>2, <2>3, <2>4
<1>7. ASSUME NEW r \in {"plain", "returns"}, Reply(r)
      PROVE  TypeInv'
  <2>1. stack' \in Seq(Frame)
    BY <1>7, BelowTyped DEF Reply
  <2>2. QED
    BY <1>7, <2>1 DEF Reply, Remember, ReplySource, Replies
<1>8. ASSUME NEW c \in Calls, HandleCall(c)
      PROVE  TypeInv'
  <2>1. CASE DelegateMalformed(c)
    BY <2>1 DEF DelegateMalformed, Handling, End
  <2>2. CASE DelegateHopLimit(c)
    BY <2>2 DEF DelegateHopLimit, NextCall, Handling
  <2>3. CASE DelegateUnroutable(c)
    BY <2>3 DEF DelegateUnroutable, NextCall, Handling, AuditHandoff,
                RouteOutcome, Outcomes
  <2>4. CASE DelegateUnconfigured(c)
    BY <2>4 DEF DelegateUnconfigured, Handling, End, AuditHandoff, RouteOutcome, Outcomes
  <2>5. CASE Delegate(c)
    <3>1. Top \in Frame
      BY <2>5, TopTyped DEF Delegate, Handling
    <3>2. NewFrame(Target(c), NextHop, c.returnOn, Top.taint) \in Frame
      <4>1. c.returnOn \in BOOLEAN
        BY <2>5 DEF Delegate, Handling, DelegateCall, ToolCall, BadDelegateCall
      <4>2. NextHop \in {NoHandoff} \cup Nat /\ Top.taint \in SUBSET DataClass
        BY <3>1 DEF NextHop, NoHandoff, Frame
      <4>3. QED
        BY <2>5, <4>1, <4>2, NewFrameTyped DEF Delegate
    <3>3. QED
      BY <2>5, <3>2 DEF Delegate, Handling, AuditHandoff, RouteOutcome, Outcomes
  <2>6. CASE ToolBlocked(c)
    BY <2>6 DEF ToolBlocked, NextCall, Handling
  <2>7. CASE ToolStarts(c)
    <3>1. stack' \in Seq(Frame) /\ stack' # <<>>
      BY <2>7, ToolStartsStack DEF ToolStarts, Handling
    <3>2. QED
      BY <2>7, <3>1 DEF ToolStarts, Handling
  <2>8. QED
    BY <1>8, <2>1, <2>2, <2>3, <2>4, <2>5, <2>6, <2>7 DEF HandleCall
<1>9. CASE ToolReturns
  BY <1>9 DEF ToolReturns, RecordToolCall, NextCall
<1>10. CASE ToolNeedsAuth
  BY <1>10 DEF ToolNeedsAuth, End
<1>11. CASE ToolFails
  BY <1>11 DEF ToolFails, End
<1>12. CASE StatementFails
  <2>1. /\ pc \in {"loop", "calls"} /\ End("raised")
        /\ UNCHANGED <<lastReply, chat, lastRow, unrecorded>>
    BY <1>12 DEF StatementFails, Handling
  <2>2. QED
    BY <2>1 DEF End
<1>13. CASE UNCHANGED vars
  BY <1>13 DEF vars
<1>14. QED
  BY <1>1, <1>2, <1>3, <1>4, <1>5, <1>6, <1>7, <1>8, <1>9, <1>10, <1>11, <1>12, <1>13
     DEF Next

\* A session starts within it.
LEMMA InitTypes ==
  ASSUME Init
  PROVE  TypeInv
<1>1. stack \in Seq(Frame) /\ stack # <<>>
  <2> DEFINE f == NewFrame(Starter, NoHandoff, FALSE, {})
  <2>1. f \in Frame /\ stack = <<f>>
    BY NewFrameTyped DEF Init
  <2> HIDE DEF f
  <2>2. QED
    BY <2>1
<1>2. chat \in Seq({"user", "assistant"})
  BY DEF Init
<1>3. TypeOK
  <2>1. lastReply \in [from : {"fallback", "root", "child"}, text : Replies]
    BY DEF Init, Replies
  <2>2. left \in 0..MaxBatch /\ unrecorded \in Nat
    BY DEF Init
  <2>3. /\ pc \in {"loop", "llm", "calls", "tool", "done"}
        /\ outcome \in {"running", "replied", "terminated", "needs_auth", "raised"}
        /\ lastRow \in Outcomes \cup {"none"}
    BY DEF Init
  <2>4. QED
    BY <1>1, <1>2, <2>1, <2>2, <2>3 DEF TypeOK
<1>4. ChatAnsweredByReplies
  BY DEF Init, ChatAnsweredByReplies
<1>5. ControlOK /\ AuditOK /\ AuditMissesOnlyTheLastCall
  BY <1>1 DEF Init, ControlOK, AuditOK, AuditMissesOnlyTheLastCall
<1>6. QED
  BY <1>3, <1>4, <1>5 DEF TypeInv

\* What holds of a session whatever its frames hold.
LEMMA InductiveTypes == Spec => []TypeInv
<1>1. Init => TypeInv
  BY InitTypes
<1>2. TypeInv /\ [Next]_vars => TypeInv'
  BY TypeStep
<1>3. QED
  BY <1>1, <1>2, PTL DEF Spec

\* The types of the loop, and the rows it writes to the chat history: the user
\* row is answered exactly by the two endings that reply (handle_team_message).
THEOREM LoopTypes == Spec => [](TypeOK /\ ChatAnsweredByReplies)
<1>1. TypeInv => TypeOK /\ ChatAnsweredByReplies
  BY DEF TypeInv
<1>2. QED
  BY <1>1, InductiveTypes, PTL

\* The tool audit lacks only the call that is running or that ended the session:
\* record_tool_call follows each call that returns, before anything else happens.
THEOREM AuditBehindByOne == Spec => []AuditMissesOnlyTheLastCall
<1>1. TypeInv => AuditMissesOnlyTheLastCall
  BY DEF TypeInv
<1>2. QED
  BY <1>1, InductiveTypes, PTL

-----------------------------------------------------------------------------
(* Taint and depth *)

\* The part of the inductive invariant about the frames.
FramesInv == TaintIsTheChain /\ UnguardedUntainted /\ HopIsDepth /\ DepthBounded

\* What the chain of guards above a frame has read depends on the frames up to
\* it alone, and of these on the names and the recorded classes.
LEMMA ChainLocal ==
  ASSUME NEW k \in Nat,
         \A i \in 1..k : stack'[i].name = stack[i].name /\ stack'[i].own = stack[i].own
  PROVE  ChainOwn(k)' = ChainOwn(k)
<1>1. GuardedChain(k)' = GuardedChain(k)
  BY DEF GuardedChain
<1>2. GuardedChain(k) \subseteq 1..k
  BY DEF GuardedChain
<1>3. QED
  BY <1>1, <1>2 DEF ChainOwn

\* Popping frames, and changing fields the invariant is not about, keeps it.
LEMMA FramesKept ==
  ASSUME FramesInv, stack \in Seq(Frame), stack' \in Seq(Frame),
         Len(stack') <= Len(stack),
         \A k \in 1..Len(stack') :
           /\ stack'[k].name = stack[k].name
           /\ stack'[k].hop = stack[k].hop
           /\ stack'[k].taint = stack[k].taint
           /\ stack'[k].own = stack[k].own
  PROVE  FramesInv'
<1>1. \A k \in DOMAIN stack' : k \in DOMAIN stack /\ k \in Nat
  OBVIOUS
<1>2. \A k \in DOMAIN stack' : ChainOwn(k)' = ChainOwn(k)
  BY <1>1, ChainLocal
<1>3. TaintIsTheChain'
  BY <1>1, <1>2 DEF FramesInv, TaintIsTheChain
<1>4. HopIsDepth'
  BY <1>1 DEF FramesInv, HopIsDepth
<1>5. DepthBounded'
  BY DEF FramesInv, DepthBounded
<1>6. UnguardedUntainted'
  BY <1>1 DEF FramesInv, UnguardedUntainted
<1>7. QED
  BY <1>3, <1>4, <1>5, <1>6 DEF FramesInv

\* The tags of the parent's guard are the child's chain: its own frame is empty.
LEMMA FramesDelegate ==
  ASSUME TypeInv, FramesInv, NEW c \in Calls, Delegate(c)
  PROVE  FramesInv'
<1> DEFINE f == NewFrame(Target(c), NextHop, c.returnOn, Top.taint)
<1>0. stack \in Seq(Frame) /\ stack # <<>>
  BY DEF TypeInv, TypeOK, ControlOK, Delegate, Handling
<1> PICK n \in Nat \ {0} : n = Len(stack)
  BY <1>0, TopTyped
<1>1. stack \in Seq(Frame) /\ n = Len(stack) /\ Top \in Frame /\ Top = stack[n]
  BY <1>0, TopTyped
<1>2. f \in Frame
  <2>1. c.returnOn \in BOOLEAN
    BY DEF Delegate, Handling, DelegateCall, ToolCall, BadDelegateCall
  <2>2. NextHop \in {NoHandoff} \cup Nat /\ Top.taint \in SUBSET DataClass
    BY <1>1 DEF NextHop, NoHandoff, Frame
  <2>3. QED
    BY <2>1, <2>2, NewFrameTyped DEF Delegate
<1>3. /\ f.name = Target(c) /\ f.hop = Top.hop + 1 /\ f.own = {}
      /\ f.taint = IF Target(c) \in Guarded THEN Top.taint ELSE {}
  BY DEF NewFrame, NextHop
<1>4. stack' = Append(stack, f)
  BY DEF Delegate
<1> HIDE DEF f
<1>5. /\ Len(stack') = n + 1 /\ stack'[n + 1] = f
      /\ \A k \in 1..n : stack'[k] = stack[k]
      /\ DOMAIN stack' = 1..(n + 1)
  BY <1>1, <1>2, <1>4
<1>6. \A k \in 1..n : ChainOwn(k)' = ChainOwn(k)
  <2> TAKE k \in 1..n
  <2>1. k \in Nat /\ \A i \in 1..k : stack'[i] = stack[i]
    BY <1>1, <1>5
  <2>2. QED
    BY <2>1, ChainLocal
<1>7. Target(c) \in Guarded => ChainOwn(n + 1)' = Top.taint
  <2> SUFFICES ASSUME Target(c) \in Guarded
               PROVE  ChainOwn(n + 1)' = Top.taint
    OBVIOUS
  <2>0. /\ stack'[n + 1].name \in Guarded
        /\ \A i \in 1..n : stack'[i].name = stack[i].name
        /\ \A j \in 1..(n + 1) : j..(n + 1) = j..n \cup {n + 1}
        /\ 1..(n + 1) = 1..n \cup {n + 1}
    BY <1>1, <1>3, <1>5
  <2>1. CASE stack[n].name \in Guarded
    <3>1. GuardedChain(n + 1)' = GuardedChain(n) \cup {n + 1}
      BY <1>1, <2>0 DEF GuardedChain
    <3>2. ChainOwn(n + 1)' = ChainOwn(n) \cup f.own
      <4>1. GuardedChain(n) \subseteq 1..n
        BY DEF GuardedChain
      <4>2. QED
        BY <1>5, <3>1, <4>1 DEF ChainOwn
    <3>3. stack[n].taint = ChainOwn(n)
      BY <1>1, <2>1 DEF FramesInv, TaintIsTheChain
    <3>4. QED
      BY <1>1, <1>3, <3>2, <3>3
  <2>2. CASE stack[n].name \notin Guarded
    <3>1. GuardedChain(n + 1)' = {n + 1}
      BY <1>1, <2>0, <2>2 DEF GuardedChain
    <3>2. ChainOwn(n + 1)' = {}
      BY <1>3, <1>5, <3>1 DEF ChainOwn
    <3>3. Top.taint = {}
      BY <1>1, <2>2 DEF FramesInv, UnguardedUntainted
    <3>4. QED
      BY <3>2, <3>3
  <2>3. QED
    BY <2>1, <2>2
<1>8. TaintIsTheChain'
  <2> SUFFICES ASSUME NEW k \in 1..(n + 1), stack'[k].name \in Guarded
               PROVE  stack'[k].taint = ChainOwn(k)'
    BY <1>5 DEF TaintIsTheChain
  <2>1. CASE k = n + 1
    <3>1. stack'[k] = f /\ f.name \in Guarded
      BY <1>5, <2>1
    <3>2. stack'[k].taint = Top.taint
      BY <1>3, <3>1
    <3>3. QED
      BY <1>3, <1>7, <2>1, <3>1, <3>2
  <2>2. CASE k # n + 1
    <3>1. k \in 1..n /\ k \in DOMAIN stack
      BY <1>1, <2>2
    <3>2. stack[k].taint = ChainOwn(k)
      BY <1>5, <3>1 DEF FramesInv, TaintIsTheChain
    <3>3. QED
      BY <1>5, <1>6, <3>1, <3>2
  <2>3. QED
    BY <2>1, <2>2
<1>9. HopIsDepth' /\ DepthBounded'
  <2>0. n \in DOMAIN stack
    BY <1>1
  <2>1. Top.hop = IF n = 1 THEN NoHandoff ELSE n - 2
    BY <1>1, <2>0 DEF FramesInv, HopIsDepth
  <2>2. f.hop = n - 1 /\ n + 1 # 1
    BY <1>1, <1>3, <2>1 DEF NoHandoff
  <2>3. HopIsDepth'
    BY <1>1, <1>5, <2>2 DEF FramesInv, HopIsDepth
  <2>4. n + 1 <= MaxHops + 2
    BY <1>1, <2>1 DEF Delegate, HopsLeft, NoHandoff
  <2>5. QED
    BY <1>5, <2>3, <2>4 DEF DepthBounded
<1>10. UnguardedUntainted'
  BY <1>1, <1>3, <1>5 DEF FramesInv, UnguardedUntainted
<1>11. QED
  BY <1>8, <1>9, <1>10 DEF FramesInv

\* The guard records in the top frame, the end of its own chain.
LEMMA FramesToolStarts ==
  ASSUME TypeInv, FramesInv, NEW c \in Calls, ToolStarts(c)
  PROVE  FramesInv'
<1>0. stack \in Seq(Frame) /\ stack # <<>>
  BY DEF TypeInv, TypeOK, ControlOK, ToolStarts, Handling
<1> PICK n \in Nat \ {0} : n = Len(stack)
  BY <1>0, TopTyped
<1>1. stack \in Seq(Frame) /\ n = Len(stack) /\ Top \in Frame /\ Top = stack[n]
  BY <1>0, TopTyped
<1>2. CASE ~HasGuard
  <2>1. stack' = stack
    BY <1>0, <1>2, ToolStartsStack
  <2>2. QED
    BY <1>1, <2>1, FramesKept
<1>3. CASE HasGuard
  <2>1. /\ Len(stack') = n /\ DOMAIN stack' = 1..n
        /\ \A k \in 1..n : stack'[k].name = stack[k].name /\ stack'[k].hop = stack[k].hop
        /\ \A k \in 1..(n - 1) : stack'[k] = stack[k]
        /\ stack'[n].taint = Top.taint \cup {TagOf(c.tool)}
        /\ stack'[n].own = Top.own \cup {TagOf(c.tool)}
    BY <1>0, <1>1, <1>3, ToolStartsStack
  <2>2. ChainOwn(n)' = ChainOwn(n) \cup {TagOf(c.tool)}
    <3>1. GuardedChain(n)' = GuardedChain(n)
      BY <2>1 DEF GuardedChain
    <3>2. n \in GuardedChain(n) /\ GuardedChain(n) \subseteq 1..n
      BY <1>1, <1>3 DEF GuardedChain, HasGuard
    <3>3. \A j \in GuardedChain(n) : j # n => stack'[j] = stack[j]
      BY <1>1, <2>1, <3>2
    <3>4. QED
      BY <1>1, <2>1, <3>1, <3>2, <3>3 DEF ChainOwn
  <2>3. \A k \in 1..(n - 1) : ChainOwn(k)' = ChainOwn(k)
    <3> TAKE k \in 1..(n - 1)
    <3>1. k \in Nat /\ \A i \in 1..k : stack'[i] = stack[i]
      BY <1>1, <2>1
    <3>2. QED
      BY <3>1, ChainLocal
  <2>4. TaintIsTheChain'
    <3> SUFFICES ASSUME NEW k \in 1..n, stack'[k].name \in Guarded
                 PROVE  stack'[k].taint = ChainOwn(k)'
      BY <2>1 DEF TaintIsTheChain
    <3>1. stack[k].taint = ChainOwn(k)
      BY <2>1 DEF FramesInv, TaintIsTheChain
    <3>2. CASE k = n
      BY <1>1, <2>1, <2>2, <3>1, <3>2
    <3>3. CASE k # n
      BY <1>1, <2>1, <2>3, <3>1, <3>3
    <3>4. QED
      BY <3>2, <3>3
  <2>5. HopIsDepth' /\ DepthBounded'
    BY <1>1, <2>1 DEF FramesInv, HopIsDepth, DepthBounded
  <2>6. UnguardedUntainted'
    BY <1>1, <1>3, <2>1 DEF FramesInv, UnguardedUntainted, HasGuard
  <2>7. QED
    BY <2>4, <2>5, <2>6 DEF FramesInv
<1>4. QED
  BY <1>2, <1>3

\* Every step keeps the frames as the invariant has them.
LEMMA FramesStep ==
  ASSUME TypeInv, FramesInv, [Next]_vars
  PROVE  FramesInv'
<1>1. stack \in Seq(Frame) /\ stack' \in Seq(Frame)
  BY TypeStep DEF TypeInv, TypeOK
<1>2. CASE stack' = stack
  BY <1>1, <1>2, FramesKept
<1>3. CASE stack' = <<>>
  BY <1>1, <1>3, FramesKept
<1>4. CASE DropExhausted
  BY <1>1, <1>4, BelowTyped, FramesKept DEF DropExhausted
<1>5. CASE AskLLM
  <2>1. Len(stack') = Len(stack)
        /\ \A k \in 1..Len(stack) :
             /\ stack'[k].name = stack[k].name /\ stack'[k].hop = stack[k].hop
             /\ stack'[k].taint = stack[k].taint /\ stack'[k].own = stack[k].own
    BY <1>1, <1>5 DEF AskLLM, Frame
  <2>2. QED
    BY <1>1, <2>1, FramesKept
<1>6. ASSUME NEW r \in {"plain", "returns"}, Reply(r)
      PROVE  FramesInv'
  <2>1. stack # <<>>
    BY <1>6 DEF Reply, TypeInv, ControlOK
  <2>2. QED
    BY <1>1, <1>6, <2>1, BelowTyped, FramesKept DEF Reply
<1>7. ASSUME NEW c \in Calls, HandleCall(c)
      PROVE  FramesInv'
  <2>1. CASE Delegate(c)
    BY <2>1, FramesDelegate
  <2>2. CASE ToolStarts(c)
    BY <2>2, FramesToolStarts
  <2>3. CASE DelegateHopLimit(c) \/ DelegateUnroutable(c) \/ ToolBlocked(c)
    BY <1>2, <2>3 DEF DelegateHopLimit, DelegateUnroutable, ToolBlocked
  <2>4. CASE DelegateMalformed(c) \/ DelegateUnconfigured(c)
    BY <1>3, <2>4 DEF DelegateMalformed, DelegateUnconfigured, End
  <2>5. QED
    BY <1>7, <2>1, <2>2, <2>3, <2>4 DEF HandleCall
<1>8. CASE \/ Finish \/ LLMFails \/ ReplyTerminates
           \/ ToolNeedsAuth \/ ToolFails \/ StatementFails
  BY <1>3, <1>8 DEF Finish, LLMFails, ReplyTerminates, ToolNeedsAuth, ToolFails,
                    StatementFails, End
<1>9. CASE LLMCalls \/ ToolReturns \/ UNCHANGED vars
  BY <1>2, <1>9 DEF LLMCalls, ToolReturns, vars
<1>10. QED
  BY <1>4, <1>5, <1>6, <1>7, <1>8, <1>9 DEF Next

\* The inductive invariant of the loop.
IInv == TypeInv /\ FramesInv

LEMMA Inductive == Spec => []IInv
<1>1. Init => IInv
  <2> SUFFICES ASSUME Init PROVE IInv
    OBVIOUS
  <2>1. TypeInv
    BY InitTypes
  <2> DEFINE f == NewFrame(Starter, NoHandoff, FALSE, {})
  <2>2. /\ stack = <<f>> /\ f \in Frame
        /\ f.own = {} /\ f.taint = {} /\ f.hop = NoHandoff
    BY NewFrameTyped DEF Init, NewFrame
  <2> HIDE DEF f
  <2>3. DOMAIN stack = {1} /\ stack[1] = f /\ Len(stack) = 1
    BY <2>2
  <2>4. ChainOwn(1) = {}
    <3>1. GuardedChain(1) \subseteq {1}
      BY DEF GuardedChain
    <3>2. QED
      BY <2>2, <2>3, <3>1 DEF ChainOwn
  <2>5. TaintIsTheChain /\ UnguardedUntainted
    <3>1. \A k \in DOMAIN stack : k = 1
      BY <2>3
    <3>2. stack[1].taint = {}
      BY <2>2, <2>3
    <3>3. QED
      BY <2>4, <3>1, <3>2 DEF TaintIsTheChain, UnguardedUntainted
  <2>6. HopIsDepth /\ DepthBounded
    BY <2>2, <2>3 DEF HopIsDepth, DepthBounded
  <2>7. QED
    BY <2>1, <2>5, <2>6 DEF IInv, FramesInv
<1>2. IInv /\ [Next]_vars => IInv'
  BY TypeStep, FramesStep DEF IInv
<1>3. QED
  BY <1>1, <1>2, PTL DEF Spec

\* For every team, whichever of its members have guards: what a guard knows is
\* what the unbroken chain of guards above it has read.
THEOREM TaintOfTheChain == Spec => []TaintIsTheChain
<1>1. IInv => TaintIsTheChain
  BY DEF IInv, FramesInv
<1>2. QED
  BY <1>1, Inductive, PTL

\* Delegations nest max_hops + 2 deep at most, and hop_count is the depth.
THEOREM HopsBoundDepth == Spec => [](HopIsDepth /\ DepthBounded)
<1>1. IInv => HopIsDepth /\ DepthBounded
  BY DEF IInv, FramesInv
<1>2. QED
  BY <1>1, Inductive, PTL

\* No guarded frame starts an external write over what its chain of guards has
\* read, for every team, every tool and every tagging of the tools.
THEOREM NoExfil == Spec => NoExfilDownTheChain
<1>1. ASSUME IInv, [Next]_vars
      PROVE  [ \A c \in Calls :
                 (ToolStarts(c) /\ HasGuard /\ TagOf(c.tool) = "external_write")
                   => ~Exfil(ChainOwn(Len(stack))) ]_vars
  <2> SUFFICES ASSUME NEW c \in Calls, ToolStarts(c), HasGuard,
                      TagOf(c.tool) = "external_write"
               PROVE  ~Exfil(ChainOwn(Len(stack)))
    OBVIOUS
  <2>1. stack \in Seq(Frame) /\ stack # <<>>
    BY <1>1 DEF IInv, TypeInv, TypeOK, ControlOK, ToolStarts, Handling
  <2>2. Len(stack) \in DOMAIN stack /\ Top = stack[Len(stack)]
    BY <2>1, TopTyped
  <2>3. Top.taint = ChainOwn(Len(stack))
    BY <1>1, <2>2 DEF IInv, FramesInv, TaintIsTheChain, HasGuard
  <2>4. ~Exfil(Top.taint)
    BY DEF ToolStarts, Refuses
  <2>5. QED
    BY <2>3, <2>4
<1>2. QED
  BY <1>1, Inductive, PTL DEF NoExfilDownTheChain, Spec

-----------------------------------------------------------------------------
(* The refinement: every step of the team loop is a step of                *)
(* SerialDelegation or leaves the members of the session as they are.      *)

Member == [who : Configured, turns : 0..MaxTurns]
Seen(frame) == [who |-> frame.name, turns |-> frame.turns]
Bar(s) == [k \in DOMAIN s |-> Seen(s[k])]

-----------------------------------------------------------------------------
(* What is seen of a stack *)

\* What is seen of a frame is a member.
LEMMA SeenTyped ==
  ASSUME NEW f \in Frame
  PROVE  Seen(f) \in Member
  BY DEF Seen, Member, Frame

\* A stack shows as many members as it has frames.
LEMMA BarTyped ==
  ASSUME NEW s \in Seq(Frame)
  PROVE  /\ Bar(s) \in Seq(Member)
         /\ Len(Bar(s)) = Len(s)
         /\ \A k \in 1..Len(s) : Bar(s)[k] = Seen(s[k])
<1>1. \A k \in 1..Len(s) : Seen(s[k]) \in Member
  BY SeenTyped
<1>2. Bar(s) = [k \in 1..Len(s) |-> Seen(s[k])]
  BY DEF Bar
<1> HIDE DEF Member, Seen
<1>3. QED
  BY <1>1, <1>2

\* No frames, no members.
LEMMA BarEmpty ==
  ASSUME NEW s \in Seq(Frame)
  PROVE  s = <<>> <=> Bar(s) = <<>>
<1>1. Len(Bar(s)) = Len(s) /\ Bar(s) \in Seq(Member)
  BY BarTyped
<1>2. QED
  BY <1>1, EmptySeq

\* A frame more is a member more.
LEMMA BarAppend ==
  ASSUME NEW s \in Seq(Frame), NEW f \in Frame
  PROVE  Bar(Append(s, f)) = Append(Bar(s), Seen(f))
<1> DEFINE t == Append(s, f)
           a == Append(Bar(s), Seen(f))
<1>1. /\ t \in Seq(Frame) /\ Len(t) = Len(s) + 1
      /\ \A k \in 1..Len(s) : t[k] = s[k]
      /\ t[Len(s) + 1] = f
  OBVIOUS
<1>2. Seen(f) \in Member
  BY SeenTyped
<1>3. /\ a \in Seq(Member) /\ Len(a) = Len(s) + 1
      /\ \A k \in 1..Len(s) : a[k] = Seen(s[k])
      /\ a[Len(s) + 1] = Seen(f)
  BY <1>2, BarTyped
<1> HIDE DEF t, a
<1>4. /\ Bar(t) \in Seq(Member) /\ Len(Bar(t)) = Len(t)
      /\ \A k \in 1..Len(t) : Bar(t)[k] = Seen(t[k])
  BY <1>1, BarTyped
<1>5. Len(Bar(t)) = Len(a)
  BY <1>1, <1>3, <1>4
<1>6. ASSUME NEW k \in 1..Len(Bar(t))
      PROVE  Bar(t)[k] = a[k]
  <2>1. k \in 1..Len(t) /\ Bar(t)[k] = Seen(t[k])
    BY <1>4
  <2>2. k \in 1..Len(s) \/ k = Len(s) + 1
    <3>1. Len(s) \in Nat /\ k \in 1..(Len(s) + 1)
      BY <2>1, <1>1
    <3>2. QED
      BY <3>1
  <2>3. CASE k \in 1..Len(s)
    <3>1. t[k] = s[k]
      BY <1>1, <2>3
    <3>2. a[k] = Seen(s[k])
      BY <1>3, <2>3
    <3>3. QED
      BY <2>1, <3>1, <3>2
  <2>4. CASE k = Len(s) + 1
    <3>1. t[k] = f
      BY <1>1, <2>4
    <3>2. a[k] = Seen(f)
      BY <1>3, <2>4
    <3>3. QED
      BY <2>1, <3>1, <3>2
  <2>5. QED
    BY <2>2, <2>3, <2>4
<1>7. Bar(t) = a
  BY <1>3, <1>4, <1>5, <1>6, SeqEqual
<1>8. QED
  BY <1>7 DEF t, a

\* Popping a frame takes its member away.
LEMMA BarBelow ==
  ASSUME stack \in Seq(Frame), stack # <<>>
  PROVE  Bar(Below) = SubSeq(Bar(stack), 1, Len(Bar(stack)) - 1)
<1> DEFINE n == Len(stack) - 1
           b == SubSeq(Bar(stack), 1, n)
<1>1. /\ n \in Nat /\ n <= Len(stack)
      /\ Below \in Seq(Frame) /\ Len(Below) = n
      /\ \A k \in 1..n : Below[k] = stack[k]
  BY TopTyped, BelowTyped
<1>2. /\ Bar(stack) \in Seq(Member) /\ Len(Bar(stack)) = Len(stack)
      /\ \A k \in 1..Len(stack) : Bar(stack)[k] = Seen(stack[k])
  BY BarTyped
<1> HIDE DEF n
<1>3. \A k \in 1..n : Bar(stack)[k] \in Member /\ Bar(stack)[k] = Seen(stack[k])
  BY <1>1, <1>2
<1>4. Len(b) = n
  BY <1>1, <1>2
<1>5. b \in Seq(Member)
  BY <1>1, <1>3, SubSeqProperties
<1>6. \A k \in 1..n : b[k] = Seen(stack[k])
  BY <1>1, <1>2, <1>3
<1> HIDE DEF b
<1>7. /\ Bar(Below) \in Seq(Member) /\ Len(Bar(Below)) = n
      /\ \A k \in 1..n : Bar(Below)[k] = Seen(stack[k])
  BY <1>1, BarTyped
<1>8. Bar(Below) = b
  BY <1>4, <1>5, <1>6, <1>7, SeqEqual
<1>9. QED
  BY <1>2, <1>8 DEF b, n

\* A stack of the same names and turns shows the same members.
LEMMA BarSame ==
  ASSUME NEW s \in Seq(Frame), NEW t \in Seq(Frame), Len(s) = Len(t),
         \A k \in 1..Len(s) : s[k].name = t[k].name /\ s[k].turns = t[k].turns
  PROVE  Bar(s) = Bar(t)
<1>1. \A k \in 1..Len(s) : Seen(s[k]) = Seen(t[k])
  BY DEF Seen
<1>2. DOMAIN s = 1..Len(s) /\ DOMAIN t = 1..Len(s)
  OBVIOUS
<1>3. QED
  BY <1>1, <1>2 DEF Bar

-----------------------------------------------------------------------------
(* The steps *)

\* What the mapping makes of the state before and after a step.
LEMMA Mapped ==
  ASSUME IInv, IInv'
  PROVE  /\ FramesBar = Bar(stack) /\ FramesBar' = Bar(stack')
         /\ FramesBar \in Seq(Member) /\ Len(FramesBar) = Len(stack)
         /\ stack = <<>> <=> FramesBar = <<>>
         /\ stack' = <<>> <=> FramesBar' = <<>>
<1>1. stack \in Seq(Frame) /\ stack' \in Seq(Frame)
  BY DEF IInv, TypeInv, TypeOK
<1>2. FramesBar = Bar(stack) /\ FramesBar' = Bar(stack')
  BY DEF FramesBar, Bar, Seen
<1>3. QED
  BY <1>1, <1>2, BarTyped, BarEmpty

\* A session begins with its root alone.
LEMMA SerialInit ==
  ASSUME Init
  PROVE  Serial!Init
<1> DEFINE f == NewFrame(Starter, NoHandoff, FALSE, {})
<1>1. stack = <<f>> /\ f.name = Starter /\ f.turns = MaxTurns
  BY DEF Init, NewFrame
<1> HIDE DEF f
<1>2. FramesBar = <<[who |-> Starter, turns |-> MaxTurns]>>
  BY <1>1 DEF FramesBar
<1>3. QED
  BY <1>2 DEF Init, Serial!Init, Serial!Fresh, WorkingBar, OverBar

\* A step that ends the session: nobody is left, or a member at work ended it.
LEMMA Stops ==
  ASSUME IInv, IInv', pc' = "done", stack' = <<>>,
         pc \in {"llm", "calls", "tool"} \/ (pc = "loop" /\ stack = <<>>)
  PROVE  Serial!Stop
  BY Mapped DEF Serial!Stop, WorkingBar, OverBar

\* A step inside a turn, or the one that ends it.
LEMMA Settles ==
  ASSUME IInv, IInv', stack' = stack, pc \in {"llm", "calls", "tool"},
         pc' \in {"loop", "llm", "calls", "tool"}
  PROVE  Serial!Settle \/ UNCHANGED Serial!vars
  BY Mapped DEF Serial!Settle, Serial!vars, WorkingBar, OverBar

\* A step that pops the top frame.
LEMMA Returns ==
  ASSUME IInv, IInv', stack # <<>>, stack' = Below, pc' = "loop",
         pc = "llm" \/ (pc = "loop" /\ Top.turns = 0)
  PROVE  Serial!Return
<1>1. stack \in Seq(Frame)
  BY DEF IInv, TypeInv, TypeOK
<1>2. FramesBar' = Serial!Callers
  BY <1>1, Mapped, BarBelow DEF Serial!Callers
<1>3. FramesBar # <<>>
  BY Mapped
<1>4. Top.turns = 0 => Serial!Last.turns = 0
  <2>1. Len(stack) \in 1..Len(stack) /\ Top = stack[Len(stack)]
    BY <1>1, TopTyped
  <2>2. Serial!Last = Seen(Top)
    BY <1>1, <2>1, BarTyped, Mapped DEF Serial!Last
  <2>3. QED
    BY <2>2 DEF Seen
<1>5. QED
  BY <1>2, <1>3, <1>4 DEF Serial!Return, WorkingBar, OverBar

\* The top frame spends a turn.
LEMMA Works ==
  ASSUME IInv, IInv', AskLLM
  PROVE  Serial!Work
<1>1. stack \in Seq(Frame) /\ stack' \in Seq(Frame)
  BY DEF IInv, TypeInv, TypeOK
<1>2. Len(stack) \in 1..Len(stack) /\ Top = stack[Len(stack)] /\ Top \in Frame
  BY <1>1, TopTyped DEF AskLLM
<1> DEFINE n == Len(stack)
           f == [Top EXCEPT !.turns = @ - 1]
           m == [Serial!Last EXCEPT !.turns = @ - 1]
<1>3. Serial!Last = Seen(Top) /\ Serial!Last \in Member
  BY <1>1, <1>2, BarTyped, Mapped, SeenTyped DEF Serial!Last
<1>4. Serial!Last.turns = Top.turns /\ Top.turns > 0
  BY <1>3 DEF Seen, AskLLM
<1>5. stack' = [stack EXCEPT ![n] = f] /\ f \in Frame /\ Seen(f) = m
  <2>1. Top.turns - 1 \in 0..MaxTurns
    BY <1>2, <1>4 DEF Frame
  <2>2. stack' = [stack EXCEPT ![n] = f]
    BY <1>2 DEF AskLLM
  <2>3. f \in Frame
    BY <1>2, <2>1 DEF Frame
  <2>4. Seen(f) = m
    BY <1>2, <1>3 DEF Seen, Frame
  <2>5. QED
    BY <2>2, <2>3, <2>4
<1>6. FramesBar' = [FramesBar EXCEPT ![n] = m]
  <2> HIDE DEF f, m, n
  <2>1. n = Len(stack) /\ n \in 1..n
    BY <1>2 DEF n
  <2>2. m \in Member
    BY <1>5, SeenTyped
  <2>3. /\ Len(stack') = n
        /\ \A k \in 1..n : stack'[k] = IF k = n THEN f ELSE stack[k]
    BY <1>1, <1>5, <2>1
  <2>4. /\ FramesBar' \in Seq(Member) /\ Len(FramesBar') = n
        /\ \A k \in 1..n : FramesBar'[k] = Seen(stack'[k])
    BY <1>1, <2>3, BarTyped, Mapped
  <2>5. /\ FramesBar \in Seq(Member) /\ Len(FramesBar) = n
        /\ \A k \in 1..n : FramesBar[k] = Seen(stack[k])
    BY <1>1, <2>1, BarTyped, Mapped
  <2> DEFINE e == [FramesBar EXCEPT ![n] = m]
  <2>6. /\ e \in Seq(Member) /\ Len(e) = n
        /\ \A k \in 1..n : e[k] = IF k = n THEN m ELSE FramesBar[k]
    BY <2>1, <2>2, <2>5, ExceptSeq
  <2> HIDE DEF e
  <2>7. \A k \in 1..n : FramesBar'[k] = e[k]
    BY <1>5, <2>3, <2>4, <2>5, <2>6
  <2>8. FramesBar' = e
    BY <2>4, <2>6, <2>7, SeqEqual
  <2>9. QED
    BY <2>8 DEF e
<1>7. FramesBar' = [FramesBar EXCEPT ![Len(FramesBar)].turns = @ - 1]
  BY <1>2, <1>6, Mapped DEF Serial!Last
<1>8. FramesBar # <<>>
  BY <1>2, Mapped DEF AskLLM
<1>9. QED
  BY <1>4, <1>7, <1>8 DEF Serial!Work, WorkingBar, OverBar, AskLLM

\* A delegation: hop_count is the depth, so the bound on hops is one on frames.
LEMMA CallsMember ==
  ASSUME IInv, IInv', NEW c \in Calls, Delegate(c)
  PROVE  Serial!Call(Target(c))
<1> DEFINE f == NewFrame(Target(c), NextHop, c.returnOn, Top.taint)
<1>1. stack \in Seq(Frame) /\ stack' \in Seq(Frame) /\ stack # <<>>
  BY DEF IInv, TypeInv, TypeOK, ControlOK, Delegate, Handling
<1>2. Len(stack) \in 1..Len(stack) /\ Top = stack[Len(stack)] /\ Top \in Frame
  BY <1>1, TopTyped
<1>3. f \in Frame /\ Seen(f) = Serial!Fresh(Target(c))
  <2>1. c.returnOn \in BOOLEAN /\ Target(c) \in Configured
    BY DEF Delegate, Handling, DelegateCall, ToolCall, BadDelegateCall
  <2>2. NextHop \in {NoHandoff} \cup Nat /\ Top.taint \in SUBSET DataClass
    BY <1>2 DEF NextHop, NoHandoff, Frame
  <2>3. f \in Frame
    BY <2>1, <2>2, NewFrameTyped
  <2>4. QED
    BY <2>3 DEF Seen, NewFrame, Serial!Fresh
<1>4. FramesBar' = Append(FramesBar, Serial!Fresh(Target(c)))
  <2> HIDE DEF f
  <2>1. stack' = Append(stack, f)
    BY DEF Delegate, f
  <2>2. QED
    BY <1>1, <1>3, <2>1, BarAppend, Mapped
<1>5. Len(FramesBar) < MaxHops + 2
  <2>1. Len(stack) \in DOMAIN stack
    BY <1>1, <1>2
  <2>2. Top.hop = IF Len(stack) = 1 THEN NoHandoff ELSE Len(stack) - 2
    BY <1>2, <2>1 DEF IInv, FramesInv, HopIsDepth
  <2>3. Len(stack) < MaxHops + 2
    BY <1>2, <2>2 DEF Delegate, HopsLeft, NoHandoff
  <2>4. QED
    BY <2>3, Mapped
<1>6. QED
  BY <1>4, <1>5 DEF Serial!Call, WorkingBar, OverBar, Delegate, Handling

\* Each branch of the loop is a step of a session, or changes nothing in it.
LEMMA SerialStep ==
  ASSUME IInv, IInv', [Next]_vars
  PROVE  [Serial!Next]_(Serial!vars)
<1> USE DEF Serial!Next
<1>1. CASE DropExhausted
  BY <1>1, Returns DEF DropExhausted
<1>2. CASE AskLLM
  BY <1>2, Works
<1>3. CASE Finish
  BY <1>3, Stops DEF Finish, End
<1>4. CASE LLMFails
  BY <1>4, Stops DEF LLMFails, End
<1>5. CASE LLMCalls
  BY <1>5, Settles DEF LLMCalls
<1>6. CASE ReplyTerminates
  BY <1>6, Stops DEF ReplyTerminates, End
<1>7. ASSUME NEW r \in {"plain", "returns"}, Reply(r)
      PROVE  Serial!Return
  BY <1>7, Returns DEF Reply, IInv, TypeInv, ControlOK
<1>8. ASSUME NEW c \in Calls, HandleCall(c)
      PROVE  [Serial!Next]_(Serial!vars)
  <2>1. CASE DelegateMalformed(c)
    BY <2>1, Stops DEF DelegateMalformed, Handling, End
  <2>2. CASE DelegateHopLimit(c)
    BY <2>2, Settles DEF DelegateHopLimit, Handling, NextCall
  <2>3. CASE DelegateUnroutable(c)
    BY <2>3, Settles DEF DelegateUnroutable, Handling, NextCall
  <2>4. CASE DelegateUnconfigured(c)
    BY <2>4, Stops DEF DelegateUnconfigured, Handling, End
  <2>5. CASE Delegate(c)
    BY <2>5, CallsMember DEF Delegate
  <2>6. CASE ToolBlocked(c)
    BY <2>6, Settles DEF ToolBlocked, Handling, NextCall
  <2>7. CASE ToolStarts(c)
    <3>1. stack \in Seq(Frame) /\ stack # <<>>
      BY <2>7 DEF IInv, TypeInv, TypeOK, ControlOK, ToolStarts, Handling
    <3>2. Bar(stack') = Bar(stack)
      BY <2>7, <3>1, ToolStartsStack, BarSame
    <3>3. FramesBar' = FramesBar
      BY <3>2, Mapped
    <3>4. QED
      BY <2>7, <3>3 DEF ToolStarts, Handling, Serial!vars, WorkingBar, OverBar
  <2>8. QED
    BY <1>8, <2>1, <2>2, <2>3, <2>4, <2>5, <2>6, <2>7 DEF HandleCall
<1>9. CASE ToolReturns
  BY <1>9, Settles DEF ToolReturns, NextCall
<1>10. CASE ToolNeedsAuth
  BY <1>10, Stops DEF ToolNeedsAuth, End
<1>11. CASE ToolFails
  BY <1>11, Stops DEF ToolFails, End
<1>12. CASE StatementFails
  BY <1>12, Stops DEF StatementFails, Handling, End
<1>13. CASE UNCHANGED vars
  BY <1>13, Mapped DEF vars, Serial!vars, WorkingBar, OverBar
<1>14. QED
  BY <1>1, <1>2, <1>3, <1>4, <1>5, <1>6, <1>7, <1>8, <1>9, <1>10, <1>11, <1>12, <1>13
     DEF Next

\* Every behaviour of the loop is a session of nested, serial delegations of
\* bounded depth (handle_team_message), for every team and every policy.
THEOREM SerialSafety == Spec => Serial!Init /\ [][Serial!Next]_(Serial!vars)
<1>1. Init => Serial!Init
  BY SerialInit
<1>2. IInv /\ IInv' /\ [Next]_vars => [Serial!Next]_(Serial!vars)
  BY SerialStep
<1>3. QED
  BY <1>1, <1>2, Inductive, PTL DEF Spec

-----------------------------------------------------------------------------
(* Sessions come to an end: every step lowers the rank of the session, and  *)
(* ranks cannot be lowered for ever.                                        *)

\* One place of a rank for each frame that there may be, one for what the turn that is
\* paid for may still do.
Places == MaxHops + 3

\* A frame counts for as long as it is there, and more the more turns it has left; the
\* turn it is at counts half.
FrameRank(k) ==
  IF k > Len(stack) THEN 0
  ELSE 1 + 2 * stack[k].turns + (IF k = Len(stack) /\ WorkingBar THEN 1 ELSE 0)

\* A call of a batch has one step, or two when it is one of a tool.
TurnRank ==
  CASE pc = "done" -> 0
    [] pc = "loop" -> 1
    [] pc = "llm" -> 2 * MaxBatch + 2
    [] pc = "calls" -> 2 * left + 1
    [] pc = "tool" -> 2 * left

Rank == [k \in 1..Places |-> IF k = Places THEN TurnRank ELSE FrameRank(k)]

\* The first place where two ranks differ tells which is lower.
Lower(r, s) == \E k \in 1..Places : r[k] < s[k] /\ \A j \in 1..k - 1 : r[j] = s[j]

\* The types of what a rank is made of.
LEMMA RankTyped ==
  ASSUME IInv
  PROVE  /\ stack \in Seq(Frame) /\ Len(stack) \in 0..MaxHops + 2
         /\ \A k \in 1..Len(stack) : stack[k].turns \in Nat
         /\ left \in 0..MaxBatch /\ MaxBatch \in Nat /\ Places \in Nat
         /\ \A k \in 1..Places : Rank[k] = IF k = Places THEN TurnRank ELSE FrameRank(k)
         /\ Rank \in [1..Places -> Nat]
<1>1. stack \in Seq(Frame) /\ left \in 0..MaxBatch
  BY DEF IInv, TypeInv, TypeOK
<1>2. Len(stack) \in 0..MaxHops + 2
  BY <1>1 DEF IInv, FramesInv, DepthBounded
<1>3. \A k \in 1..Len(stack) : stack[k].turns \in Nat
  <2>1. \A k \in 1..Len(stack) : stack[k] \in Frame
    BY <1>1
  <2>2. QED
    BY <2>1 DEF Frame
<1>4. MaxBatch \in Nat /\ Places \in Nat
  BY DEF Places
<1>5. \A k \in 1..Places : Rank[k] = IF k = Places THEN TurnRank ELSE FrameRank(k)
  BY DEF Rank
<1>6. TurnRank \in Nat
  BY <1>1, <1>4 DEF IInv, TypeInv, TypeOK, TurnRank
<1>7. ASSUME NEW k \in 1..Places
      PROVE  FrameRank(k) \in Nat
  BY <1>2, <1>3, <1>4 DEF FrameRank
<1>8. Rank \in [1..Places -> Nat]
  BY <1>6, <1>7 DEF Rank
<1>9. QED
  BY <1>1, <1>2, <1>3, <1>4, <1>5, <1>8

\* What a step must do to lower the rank at a frame.
LEMMA LowersAtFrame ==
  ASSUME IInv, IInv', NEW k \in 1..MaxHops + 2, FrameRank(k)' < FrameRank(k),
         \A j \in 1..k - 1 : FrameRank(j)' = FrameRank(j)
  PROVE  Lower(Rank', Rank)
<1>1. k \in 1..Places /\ k # Places /\ \A j \in 1..k - 1 : j \in 1..Places /\ j # Places
  BY DEF Places
<1>2. Rank[k] = FrameRank(k) /\ Rank'[k] = FrameRank(k)'
  BY <1>1 DEF Rank
<1>3. \A j \in 1..k - 1 : Rank[j] = FrameRank(j) /\ Rank'[j] = FrameRank(j)'
  BY <1>1 DEF Rank
<1>4. QED
  BY <1>1, <1>2, <1>3 DEF Lower

\* What it must do to lower it within a turn.
LEMMA LowersInTurn ==
  ASSUME IInv, IInv', TurnRank' < TurnRank,
         \A j \in 1..MaxHops + 2 : FrameRank(j)' = FrameRank(j)
  PROVE  Lower(Rank', Rank)
<1>1. Places \in 1..Places /\ \A j \in 1..Places - 1 : j \in 1..Places /\ j # Places
                                                       /\ j \in 1..MaxHops + 2
  BY DEF Places
<1>2. Rank[Places] = TurnRank /\ Rank'[Places] = TurnRank'
  BY <1>1 DEF Rank
<1>3. \A j \in 1..Places - 1 : Rank[j] = FrameRank(j) /\ Rank'[j] = FrameRank(j)'
  BY <1>1 DEF Rank
<1>4. QED
  BY <1>1, <1>2, <1>3 DEF Lower

\* The top frame is popped.
LEMMA PopLowers ==
  ASSUME IInv, IInv', stack # <<>>, stack' = Below, pc' = "loop"
  PROVE  Lower(Rank', Rank)
<1>1. PICK n \in 1..MaxHops + 2 :
        /\ n = Len(stack) /\ Len(stack') = n - 1
        /\ \A k \in 1..n - 1 : stack'[k] = stack[k]
  BY RankTyped, TopTyped, BelowTyped
<1>2. ~WorkingBar'
  BY DEF WorkingBar
<1>3. FrameRank(n)' = 0 /\ FrameRank(n) >= 1
  BY <1>1, RankTyped DEF FrameRank
<1>4. FrameRank(n)' < FrameRank(n)
  BY <1>1, <1>3, RankTyped DEF FrameRank
<1>5. \A k \in 1..n - 1 : FrameRank(k)' = FrameRank(k)
  BY <1>1, <1>2 DEF FrameRank
<1>6. QED
  BY <1>1, <1>4, <1>5, LowersAtFrame

\* The session ends.
LEMMA EndLowers ==
  ASSUME IInv, IInv', pc' = "done", stack' = <<>>, stack # <<>> \/ pc = "loop"
  PROVE  Lower(Rank', Rank)
<1>1. Len(stack') = 0
  OBVIOUS
<1>2. \A k \in 1..MaxHops + 2 : FrameRank(k)' = 0
  BY <1>1 DEF FrameRank
<1>3. CASE stack = <<>>
  <2>1. \A k \in 1..MaxHops + 2 : FrameRank(k) = 0
    BY <1>3 DEF FrameRank
  <2>2. TurnRank' < TurnRank
    BY <1>3 DEF TurnRank
  <2>3. QED
    BY <1>2, <2>1, <2>2, LowersInTurn
<1>4. CASE stack # <<>>
  <2>1. 1 \in 1..Len(stack) /\ 1 \in 1..MaxHops + 2 /\ 1..0 = {}
    BY <1>4, RankTyped, TopTyped
  <2>2. FrameRank(1) > 0
    BY <2>1, RankTyped DEF FrameRank
  <2>3. QED
    BY <1>2, <2>1, <2>2, LowersAtFrame
<1>5. QED
  BY <1>3, <1>4

\* Something is done within a turn, or the turn ends: the frames keep their turns.
LEMMA TurnLowers ==
  ASSUME IInv, IInv', stack # <<>>, Len(stack') = Len(stack),
         \A k \in 1..Len(stack) : stack'[k].turns = stack[k].turns,
         WorkingBar, pc' = "loop" \/ (WorkingBar' /\ TurnRank' < TurnRank)
  PROVE  Lower(Rank', Rank)
<1>1. PICK n \in 1..MaxHops + 2 : n = Len(stack)
  BY RankTyped, TopTyped
<1>2. CASE pc' = "loop"
  <2>1. ~WorkingBar'
    BY <1>2 DEF WorkingBar
  <2>2. FrameRank(n)' < FrameRank(n)
    BY <1>1, <2>1, RankTyped DEF FrameRank
  <2>3. \A k \in 1..n - 1 : FrameRank(k)' = FrameRank(k)
    BY <1>1, <2>1 DEF FrameRank
  <2>4. QED
    BY <1>1, <2>2, <2>3, LowersAtFrame
<1>3. CASE WorkingBar' /\ TurnRank' < TurnRank
  <2>1. \A k \in 1..MaxHops + 2 : FrameRank(k)' = FrameRank(k)
    BY <1>1, <1>3 DEF FrameRank
  <2>2. QED
    BY <1>3, <2>1, LowersInTurn
<1>4. QED
  BY <1>2, <1>3

\* A turn is paid.
LEMMA AskLowers ==
  ASSUME IInv, IInv', AskLLM
  PROVE  Lower(Rank', Rank)
<1>1. PICK n \in 1..MaxHops + 2 :
        n = Len(stack) /\ Top = stack[n] /\ Top \in Frame /\ stack \in Seq(Frame)
  BY RankTyped, TopTyped DEF AskLLM
<1>2. /\ Len(stack') = n /\ stack'[n].turns = stack[n].turns - 1
      /\ \A k \in 1..n - 1 : stack'[k] = stack[k]
  BY <1>1 DEF AskLLM, Frame
<1>3. ~WorkingBar
  BY DEF AskLLM, WorkingBar
<1>4. FrameRank(n)' < FrameRank(n)
  BY <1>1, <1>2, <1>3, RankTyped DEF FrameRank
<1>5. \A k \in 1..n - 1 : FrameRank(k)' = FrameRank(k)
  BY <1>1, <1>2 DEF FrameRank
<1>6. QED
  BY <1>1, <1>4, <1>5, LowersAtFrame

\* A delegation: the new frame has all its turns, and the turn of its parent is over.
LEMMA DelegateLowers ==
  ASSUME IInv, IInv', NEW c \in Calls, Delegate(c)
  PROVE  Lower(Rank', Rank)
<1> DEFINE f == NewFrame(Target(c), NextHop, c.returnOn, Top.taint)
<1>1. stack # <<>> /\ pc = "calls" /\ pc' = "loop" /\ stack' = Append(stack, f)
  BY DEF IInv, TypeInv, ControlOK, Delegate, Handling
<1>2. PICK n \in 1..MaxHops + 2 : n = Len(stack) /\ stack \in Seq(Frame)
  BY <1>1, RankTyped, TopTyped
<1> HIDE DEF f
<1>3. Len(stack') = n + 1 /\ \A k \in 1..n : stack'[k] = stack[k]
  BY <1>1, <1>2
<1>4. WorkingBar /\ ~WorkingBar'
  BY <1>1 DEF WorkingBar
<1>5. FrameRank(n)' < FrameRank(n)
  BY <1>2, <1>3, <1>4, RankTyped DEF FrameRank
<1>6. \A k \in 1..n - 1 : FrameRank(k)' = FrameRank(k)
  BY <1>2, <1>3 DEF FrameRank
<1>7. QED
  BY <1>2, <1>5, <1>6, LowersAtFrame

\* A step that leaves the stack as it is, within a turn.
LEMMA SameStackLowers ==
  ASSUME IInv, IInv', pc \in {"llm", "calls", "tool"}, stack' = stack,
         pc' = "loop" \/ (pc' \in {"calls", "tool"} /\ TurnRank' < TurnRank)
  PROVE  Lower(Rank', Rank)
  BY TurnLowers DEF IInv, TypeInv, ControlOK, WorkingBar

\* Every step of the loop lowers the rank.
LEMMA StepLowers ==
  ASSUME IInv, IInv', Next
  PROVE  Lower(Rank', Rank)
<1>1. CASE DropExhausted
  BY <1>1, PopLowers DEF DropExhausted
<1>2. CASE AskLLM
  BY <1>2, AskLowers
<1>3. CASE \/ Finish \/ LLMFails \/ ReplyTerminates
           \/ ToolNeedsAuth \/ ToolFails \/ StatementFails
  <2>1. pc' = "done" /\ stack' = <<>> /\ pc \in {"loop", "llm", "calls", "tool"}
    BY <1>3 DEF Finish, LLMFails, ReplyTerminates, ToolNeedsAuth, ToolFails,
                StatementFails, Handling, End
  <2>2. QED
    BY <2>1, EndLowers DEF IInv, TypeInv, ControlOK
<1>4. CASE LLMCalls
  <2>1. pc = "llm" /\ pc' = "calls" /\ stack' = stack /\ left' \in 1..MaxBatch
    BY <1>4 DEF LLMCalls
  <2>2. TurnRank' < TurnRank
    BY <2>1, RankTyped DEF TurnRank
  <2>3. QED
    BY <2>1, <2>2, SameStackLowers
<1>5. ASSUME NEW r \in {"plain", "returns"}, Reply(r)
      PROVE  Lower(Rank', Rank)
  BY <1>5, PopLowers DEF Reply, IInv, TypeInv, ControlOK
<1>6. ASSUME pc \in {"calls", "tool"}, NextCall, stack' = stack
      PROVE  Lower(Rank', Rank)
  <2>1. left \in 1..MaxBatch
    BY <1>6, RankTyped DEF IInv, TypeInv, ControlOK
  <2>2. pc' = "loop" \/ (pc' = "calls" /\ TurnRank' < TurnRank)
    BY <1>6, <2>1, RankTyped DEF NextCall, TurnRank
  <2>3. QED
    BY <1>6, <2>2, SameStackLowers
<1>7. ASSUME NEW c \in Calls, HandleCall(c)
      PROVE  Lower(Rank', Rank)
  <2>1. CASE DelegateMalformed(c) \/ DelegateUnconfigured(c)
    BY <2>1, EndLowers DEF DelegateMalformed, DelegateUnconfigured, Handling, End,
                           IInv, TypeInv, ControlOK
  <2>2. CASE DelegateHopLimit(c) \/ DelegateUnroutable(c) \/ ToolBlocked(c)
    BY <1>6, <2>2 DEF DelegateHopLimit, DelegateUnroutable, ToolBlocked, Handling
  <2>3. CASE Delegate(c)
    BY <2>3, DelegateLowers
  <2>4. CASE ToolStarts(c)
    <3>1. pc = "calls" /\ pc' = "tool" /\ left' = left /\ stack # <<>>
      BY <2>4 DEF ToolStarts, Handling, IInv, TypeInv, ControlOK
    <3>2. /\ Len(stack') = Len(stack)
          /\ \A k \in 1..Len(stack) : stack'[k].turns = stack[k].turns
      BY <2>4, <3>1, RankTyped, ToolStartsStack
    <3>3. TurnRank' < TurnRank
      BY <3>1, RankTyped DEF TurnRank
    <3>4. WorkingBar /\ WorkingBar'
      BY <3>1 DEF WorkingBar
    <3>5. QED
      BY <3>1, <3>2, <3>3, <3>4, TurnLowers
  <2>5. QED
    BY <1>7, <2>1, <2>2, <2>3, <2>4 DEF HandleCall
<1>8. CASE ToolReturns
  BY <1>6, <1>8 DEF ToolReturns
<1>9. QED
  BY <1>1, <1>2, <1>3, <1>4, <1>5, <1>7, <1>8 DEF Next

\* Whatever the LLM asks for, each step of handle_team_message brings the session nearer
\* to its end: a delegation starts a frame with all its turns, but the turn of its
\* parent is spent, and the parent's place comes first.
THEOREM EveryStepLowers == Spec => [][Lower(Rank', Rank)]_vars
<1>1. IInv /\ IInv' /\ [Next]_vars => [Lower(Rank', Rank)]_vars
  BY StepLowers
<1>2. QED
  BY <1>1, Inductive, PTL DEF Spec

\* A set of numbers has a least one.
LEMMA LeastNumber ==
  ASSUME NEW T, T \subseteq Nat, T # {}
  PROVE  \E x \in T : \A y \in T : x <= y
<1> DEFINE R == OpToRel(<, Nat)
<1>1. IsWellFoundedOn(R, Nat)
  BY NatLessThanWellFounded
<1>2. \A x, y \in Nat : <<x, y>> \in R <=> x < y
  BY DEF OpToRel
<1> HIDE DEF R
<1>3. PICK x \in T : \A y \in T : ~(<<y, x>> \in R)
  BY <1>1, WFMin
<1>4. \A y \in T : x \in Nat /\ y \in Nat /\ ~(y < x)
  BY <1>2, <1>3
<1>5. \A y \in T : x <= y
  BY <1>4
<1>6. QED
  BY <1>5

\* Of any set of ranks one is lowest.
LEMMA LowestRank ==
  ASSUME NEW B, B \subseteq [1..Places -> Nat], B # {}
  PROVE  \E r \in B : \A s \in B : ~Lower(s, r)
<1> DEFINE Differs(s, r, i) == s[i] < r[i] /\ \A j \in 1..i - 1 : s[j] = r[j]
           Lowest(r, k) == \A s \in B : \A i \in 1..k : ~Differs(s, r, i)
           Bad == {k \in 0..Places : \A r \in B : ~Lowest(r, k)}
<1>1. Places \in Nat
  BY DEF Places
<1>2. ASSUME Bad # {}
      PROVE  FALSE
  <2>1. PICK k \in Bad : \A m \in Bad : k <= m
    <3>1. Bad \subseteq Nat
      BY <1>1
    <3> HIDE DEF Bad
    <3>2. QED
      BY <1>2, <3>1, LeastNumber
  <2>2. k # 0
    <3>1. \A r \in B : Lowest(r, 0)
      OBVIOUS
    <3>2. QED
      BY <3>1
  <2>3. k \in 1..Places /\ k - 1 \in 0..Places /\ k - 1 \notin Bad
    <3>1. k \in 0..Places
      OBVIOUS
    <3>2. k \in 1..Places /\ k - 1 \in 0..Places /\ ~(k <= k - 1)
      BY <1>1, <2>2, <3>1
    <3> HIDE DEF Bad
    <3>3. QED
      BY <2>1, <3>2
  <2>4. PICK r \in B : Lowest(r, k - 1)
    BY <2>3
  <2> HIDE DEF Bad
  <2> DEFINE Alike == {s \in B : \A j \in 1..k - 1 : s[j] = r[j]}
             values == {s[k] : s \in Alike}
  <2>5. r \in Alike
    OBVIOUS
  <2>6. values \subseteq Nat /\ values # {}
    <3>1. \A s \in B : s[k] \in Nat
      BY <2>3
    <3>2. \A s \in Alike : s \in B
      OBVIOUS
    <3> HIDE DEF Alike
    <3>3. QED
      BY <2>5, <3>1, <3>2
  <2>7. PICK s \in Alike : \A u \in Alike : s[k] <= u[k]
    <3>1. PICK v \in values : \A w \in values : v <= w
      <4> HIDE DEF values
      <4>1. QED
        BY <2>6, LeastNumber
    <3>2. PICK s \in Alike : v = s[k]
      OBVIOUS
    <3>3. \A u \in Alike : u[k] \in values
      OBVIOUS
    <3> HIDE DEF values, Alike
    <3>4. QED
      BY <3>1, <3>2, <3>3
  <2>8. \A j \in 1..k - 1 : s[j] = r[j]
    OBVIOUS
  <2>9. ASSUME NEW u \in B, NEW i \in 1..k, Differs(u, s, i)
        PROVE  FALSE
    <3>1. CASE i = k
      <4>1. u \in Alike
        BY <2>8, <2>9, <3>1
      <4>2. s[k] <= u[k] /\ u[k] < s[k]
        BY <2>7, <2>9, <3>1, <4>1
      <4>3. s[k] \in Nat /\ u[k] \in Nat
        <5>1. s \in [1..Places -> Nat] /\ u \in [1..Places -> Nat]
          OBVIOUS
        <5>2. QED
          BY <2>3, <5>1
      <4> HIDE DEF Alike
      <4>4. QED
        BY <4>2, <4>3
    <3>2. CASE i # k
      <4>1. i \in 1..k - 1 /\ \A j \in 1..i - 1 : j \in 1..k - 1
        BY <2>3, <3>2
      <4>2. Differs(u, r, i)
        BY <2>8, <2>9, <4>1
      <4>3. QED
        BY <2>4, <4>1, <4>2
    <3>3. QED
      BY <3>1, <3>2
  <2>10. Lowest(s, k) /\ s \in B
    BY <2>9
  <2>11. QED
    BY <2>1, <2>10 DEF Bad
<1>3. Places \in 0..Places /\ Places \notin Bad
  <2>1. Places \in 0..Places
    BY <1>1
  <2>2. Bad = {}
    BY <1>2
  <2> HIDE DEF Bad
  <2>3. QED
    BY <2>1, <2>2
<1>4. PICK r \in B : Lowest(r, Places)
  BY <1>3
<1>5. QED
  BY <1>4 DEF Lower

\* No ranks are each lower than the one before without end: with EveryStepLowers, a
\* session takes finitely many steps, for every policy (handle_team_message).
THEOREM NoEndlessDescent ==
  ~ \E f \in [Nat -> [1..Places -> Nat]] : \A n \in Nat : Lower(f[n + 1], f[n])
<1> SUFFICES ASSUME NEW f \in [Nat -> [1..Places -> Nat]],
                    \A n \in Nat : Lower(f[n + 1], f[n])
             PROVE  FALSE
  OBVIOUS
<1> DEFINE B == {f[n] : n \in Nat}
<1>1. B \subseteq [1..Places -> Nat] /\ B # {}
  OBVIOUS
<1>2. PICK r \in B : \A s \in B : ~Lower(s, r)
  <2> HIDE DEF B
  <2>1. QED
    BY <1>1, LowestRank
<1>3. PICK n \in Nat : r = f[n]
  OBVIOUS
<1>4. f[n + 1] \in B
  OBVIOUS
<1>5. QED
  BY <1>2, <1>3, <1>4
=============================================================================
