-------------------------- MODULE HistoryCompactor --------------------------
(***************************************************************************)
(* The conversation of one agent: the rows of chat_history, the one row of *)
(* chat_summaries, and HistoryCompactor.build, which every message runs to *)
(* make its prompt: the summary, and the newest rows after those it covers *)
(* as far as the token budget goes.  What does not fit is summarised, if   *)
(* the budget is used up well enough; else it is left out.                 *)
(*                                                                         *)
(* build awaits nothing, so inside one process it is one step of the event *)
(* loop; but the bot, the command line and the Studio open the same        *)
(* database, and their builds interleave at each statement.  The messages  *)
(* of one process are handled one after another here.                      *)
(***************************************************************************)
EXTENDS Integers, Sequences, Functions

CONSTANTS
  Procs,         \* processes with a handler of this agent
  KeepVerbatim,  \* keep_verbatim: rows always in the prompt
  Budget,        \* budget_tokens
  TriggerPct,    \* trigger_pct, in percent
  SummaryBudget, \* summary_budget
  RowCosts,      \* tokens of a row
  SummaryCosts,  \* tokens of what the summarizer returns
  MaxRows        \* bound: rows

ASSUME CompactorAssumption ==
         /\ KeepVerbatim \in Nat /\ Budget \in Nat \ {0}
         /\ TriggerPct \in Nat /\ SummaryBudget \in Nat
         /\ RowCosts \subseteq Nat \ {0} /\ SummaryCosts \subseteq Nat \ {0}
         /\ MaxRows \in Nat

VARIABLES
  rows,         \* the tokens of each row of chat_history; its index is its id
  summary,      \* the row of chat_summaries, and what it was made from
  proc,         \* process -> where it is in its message, and what it has read
  prompt        \* process -> the history its LLM last saw

vars == <<rows, summary, proc, prompt>>

\* made: the ids that were summarised into the text, in the order they were.
NoSummary == [covers |-> 0, cost |-> 0, made |-> <<>>]

Interval(i, j) == [k \in 1..(j - i + 1) |-> i + k - 1]

\* read: the summary row the build goes by; last: the newest row it fetched;
\* first: the oldest row that stays verbatim.
Idle == [pc |-> "idle", read |-> NoSummary, first |-> 1, last |-> 0]
NoPrompt == [made |-> <<>>, first |-> 1, last |-> 0, compacted |-> FALSE]

Init ==
  /\ rows = <<>> /\ summary = NoSummary
  /\ proc = [p \in Procs |-> Idle]
  /\ prompt = [p \in Procs |-> NoPrompt]

At(p, pc) == proc[p].pc = pc
Tokens(i, j) == SumFunctionOnSet(rows, i..j)

-----------------------------------------------------------------------------
(* The build *)

\* summary_get.  No message begins when there is no room for its rows (bound).
ReadSummary(p) ==
  /\ At(p, "idle") /\ Len(rows) < MaxRows
  /\ proc' = [proc EXCEPT ![p] = [Idle EXCEPT !.pc = "fetch", !.read = summary]]
  /\ UNCHANGED <<rows, summary, prompt>>

\* The newest KeepVerbatim rows are pinned, or all there are: recent[-0:] too is
\* all of them.
FirstPinned(covers, last) ==
  IF KeepVerbatim > 0 /\ last - covers > KeepVerbatim THEN last - KeepVerbatim + 1 ELSE covers + 1

\* Older rows are added from the newest on while they fit.
Fits(i, read, last) ==
  LET pinned == FirstPinned(read.covers, last)
  IN  \/ i = pinned
      \/ Tokens(i, pinned - 1) <= Budget - read.cost - Tokens(pinned, last)

FirstVerbatim(read, last) ==
  CHOOSE i \in (read.covers + 1)..FirstPinned(read.covers, last) :
    /\ Fits(i, read, last)
    /\ i > read.covers + 1 => ~Fits(i - 1, read, last)

UsedUp(read, first, last) ==
  100 * (read.cost + Tokens(first, last)) >= TriggerPct * Budget

Shows(p, s, first, last, compacted) ==
  prompt' = [prompt EXCEPT ![p] = [made |-> s.made, first |-> first, last |-> last,
                                   compacted |-> compacted]]

\* chat_after, and what to do with the rows that do not fit.
Fetch(p) ==
  LET read == proc[p].read
      last == Len(rows)
      first == FirstVerbatim(read, last)
  IN  /\ At(p, "fetch")
      /\ IF first > read.covers + 1 /\ UsedUp(read, first, last)
           THEN /\ proc' = [proc EXCEPT ![p].pc = "summarize", ![p].first = first,
                                        ![p].last = last]
                /\ UNCHANGED prompt
           ELSE /\ proc' = [proc EXCEPT ![p].pc = "ask"]
                /\ Shows(p, read, first, last, FALSE)
      /\ UNCHANGED <<rows, summary>>

\* Bug: covers every row that is not pinned.
NewSummaryToPinned(s, cost) ==
  [covers |-> s.last - KeepVerbatim, cost |-> cost,
   made |-> s.read.made \o Interval(s.read.covers + 1, s.first - 1)]

\* The rows left out are summarised into the text that was read.
NewSummary(s, cost) ==
  [covers |-> s.first - 1, cost |-> cost,
   made |-> s.read.made \o Interval(s.read.covers + 1, s.first - 1)]

\* Bug: the prompt keeps the text that was read.
CompactShowingOld(p) ==
  /\ At(p, "summarize")
  /\ \E cost \in SummaryCosts : summary' = NewSummary(proc[p], cost)
  /\ proc' = [proc EXCEPT ![p].pc = "ask"]
  /\ Shows(p, proc[p].read, proc[p].first, proc[p].last, TRUE)
  /\ UNCHANGED rows

\* The summarizer answers, a second time when its text is too long, whatever the
\* length of that; summary_set.
Compact(p) ==
  /\ At(p, "summarize")
  /\ \E cost \in SummaryCosts, again \in SummaryCosts :
       summary' = NewSummary(proc[p], IF cost > SummaryBudget THEN again ELSE cost)
  /\ proc' = [proc EXCEPT ![p].pc = "ask"]
  /\ Shows(p, summary', proc[p].first, proc[p].last, TRUE)
  /\ UNCHANGED rows

-----------------------------------------------------------------------------
(* The message *)

\* The summarizer, the LLM or a tool raises: the message ends without a reply.
Breaks(p) ==
  /\ At(p, "summarize") \/ At(p, "reply")
  /\ proc' = [proc EXCEPT ![p] = Idle]
  /\ UNCHANGED <<rows, summary, prompt>>

AppendRow(p, pc) ==
  /\ Len(rows) < MaxRows
  /\ \E cost \in RowCosts : rows' = Append(rows, cost)
  /\ proc' = [proc EXCEPT ![p] = [Idle EXCEPT !.pc = pc]]
  /\ UNCHANGED <<summary, prompt>>

\* The user row, and after the LLM has answered the assistant row.
Ask(p) == At(p, "ask") /\ AppendRow(p, "reply")
Reply(p) == At(p, "reply") /\ AppendRow(p, "idle")

Next ==
  \E p \in Procs :
    \/ ReadSummary(p) \/ Fetch(p) \/ Compact(p)
    \/ Breaks(p) \/ Ask(p) \/ Reply(p)

Spec == Init /\ [][Next]_vars

-----------------------------------------------------------------------------
(* Properties *)

\* The summary is made of the rows up to covers_until_msg_id, each summarised
\* once and in order, and never of the newest keep_verbatim ("Last keep_verbatim turns
\* are NEVER summarized away", test_keep_verbatim_always_pinned): whichever builds
\* interleave, and whichever of them writes its row last, no row is dropped between two
\* summaries or is in one twice.
SummaryIsThePrefix ==
  /\ summary.made = Interval(1, summary.covers)
  /\ summary.covers > 0 => summary.covers <= Len(rows) - KeepVerbatim

\* A prompt repeats no row that its summary covers, and right after a compaction
\* it has every row: the summary ends where the verbatim rows begin.  A prompt that did
\* not compact may leave rows out between the two.
PromptSeamless ==
  \A p \in Procs :
    LET m == Len(prompt[p].made) IN
    /\ prompt[p].made = Interval(1, m)
    /\ m < prompt[p].first
    /\ prompt[p].compacted => prompt[p].first = m + 1
=============================================================================
