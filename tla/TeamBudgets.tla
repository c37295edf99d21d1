---------------------------- MODULE TeamBudgets ----------------------------
(***************************************************************************)
(* What the members of a team may spend.  CapChecker asks the table        *)
(* llm_usage, before a message, what a member spent this day and month.    *)
(* BudgetCascader keeps in memory, after a call, what is left of the       *)
(* team's pool and of the member's share.  The caller that uses both is    *)
(* external; the table survives the process, the cascader does not.        *)
(*                                                                         *)
(* Rows are stamped in UTC, days begin at local midnight, and the two are  *)
(* compared as texts, so that a row is on the day its UTC stamp names.     *)
(* Time is in slots; amounts are whole.                                    *)
(***************************************************************************)
EXTENDS Integers, FiniteSetsExt

CONSTANTS
  Members,
  Notified,     \* members whose cap has on_exceed "notify", the others "halt"
  DailyCap, MonthlyCap,
  Pool, Share,  \* the team's pool, and member -> its part of it
  Policies,     \* policies the cascader may be made with
  Costs,        \* what a call may cost
  DaySlots,     \* slots of a day
  Offset,       \* slots that UTC is ahead of local time
  MonthDays,
  MaxSlot, MaxCalls  \* bounds

Total(f, S) == MapThenSumSet(LAMBDA x : f[x], S)

\* TeamLoader lets shares through that add up to the pool within one per cent.
ASSUME BudgetAssumption ==
         /\ IsFiniteSet(Members) /\ Notified \subseteq Members
         /\ Costs \subseteq Nat \ {0}
         /\ DailyCap \in Nat /\ MonthlyCap \in Nat /\ Pool \in Nat
         /\ Share \in [Members -> Nat]
         /\ 100 * (Total(Share, Members) - Pool) \in -Pool..Pool
         /\ Policies \subseteq {"notify", "halt_member", "borrow_from_pool"}
         /\ DaySlots \in Nat \ {0} /\ MonthDays \in Nat \ {0} /\ Offset \in 0..DaySlots
         /\ MaxSlot \in Nat /\ MaxCalls \in Nat

VARIABLES
  slot,         \* slots gone by
  usage,        \* member -> slot -> what its rows of llm_usage add up to
  message,      \* member -> where its message is: the verdict of the cap, and the
                \* cost that is not yet debited
  policy, spent, halted,   \* the cascader
  calls         \* LLM calls so far

cascader == <<policy, spent, halted>>
budgetVars == <<slot, usage, message, cascader, calls>>

Slots == 0..MaxSlot
NoMessage == [cap |-> "none", due |-> 0]

NothingSpent == [m \in Members |-> 0]

BudgetsInit ==
  /\ slot = 0 /\ calls = 0
  /\ usage = [m \in Members |-> [t \in Slots |-> 0]]
  /\ message = [m \in Members |-> NoMessage]
  /\ policy \in Policies /\ spent = NothingSpent /\ halted = {}

TimePasses ==
  /\ slot < MaxSlot /\ slot' = slot + 1
  /\ UNCHANGED <<usage, message, cascader, calls>>

-----------------------------------------------------------------------------
(* CapChecker *)

LocalDay(t) == t \div DaySlots
UtcDay(t) == (t + Offset) \div DaySlots
MonthStart(day) == day - (day % MonthDays)

\* Bug: only the rows after the first day of the window.
SinceAfter(m, day) == Total(usage[m], {t \in Slots : UtcDay(t) > day})

\* total_usd: the rows stamped from that day on.
Since(m, day) == Total(usage[m], {t \in Slots : UtcDay(t) >= day})

Crossed(m) ==
  \/ Since(m, LocalDay(slot)) >= DailyCap
  \/ Since(m, MonthStart(LocalDay(slot))) >= MonthlyCap

\* check
Ask(m) ==
  /\ message[m].cap # "allowed"
  /\ message' = [message EXCEPT ![m] =
       [cap |-> IF Crossed(m) /\ m \notin Notified THEN "refused" ELSE "allowed", due |-> 0]]
  /\ UNCHANGED <<slot, usage, cascader, calls>>

\* A call of the message is answered: log_call.
Pay(m, cost) ==
  /\ message[m] = [cap |-> "allowed", due |-> 0] /\ calls < MaxCalls
  /\ calls' = calls + 1
  /\ usage' = [usage EXCEPT ![m][slot] = @ + cost]
  /\ message' = [message EXCEPT ![m].due = cost]
  /\ UNCHANGED <<slot, cascader>>

\* The message ends.
End(m) ==
  /\ message[m].cap = "allowed"
  /\ message' = [message EXCEPT ![m] = NoMessage]
  /\ UNCHANGED <<slot, usage, cascader, calls>>

-----------------------------------------------------------------------------
(* BudgetCascader *)

PoolRemaining == Pool - Total(spent, Members)

Within(m, cost) == spent[m] + cost <= Share[m]

\* Bug: the pool is taken for what remains of it.
LendsThePool(cost) == policy = "borrow_from_pool" /\ Pool >= cost

Lends(cost) == policy = "borrow_from_pool" /\ PoolRemaining >= cost

\* check_and_debit, where it does not raise.
Debits(m, cost) ==
  /\ spent' = IF Within(m, cost) \/ Lends(cost) THEN [spent EXCEPT ![m] = @ + cost] ELSE spent
  /\ halted' = IF ~Within(m, cost) /\ policy = "halt_member" THEN halted \cup {m} ELSE halted

\* check_and_debit for the call that was paid.  When it returns False or raises
\* ShareExceeded the caller ends the message.
Debit(m) ==
  LET cost == message[m].due
  IN  /\ cost # 0
      /\ IF m \in halted THEN UNCHANGED <<spent, halted>> ELSE Debits(m, cost)
      /\ message' = [message EXCEPT ![m] =
           IF spent' = spent THEN NoMessage ELSE [@ EXCEPT !.due = 0]]
      /\ UNCHANGED <<slot, usage, policy, calls>>

\* The process is started again, with a new cascader.
Restart ==
  /\ spent' = NothingSpent /\ halted' = {}
  /\ message' = [m \in Members |-> NoMessage]
  /\ UNCHANGED <<slot, usage, policy, calls>>

-----------------------------------------------------------------------------

BudgetsNext ==
  \/ TimePasses \/ Restart
  \/ \E m \in Members :
       Ask(m) \/ End(m) \/ Debit(m) \/ \E cost \in Costs : Pay(m, cost)

BudgetsSpec == BudgetsInit /\ [][BudgetsNext]_budgetVars

-----------------------------------------------------------------------------
(* Properties *)

\* What a member spent on the local days from first to last.
SpentOn(m, first, last) == Total(usage[m], {t \in Slots : LocalDay(t) \in first..last})

\* What its rows with the stamp of the day, or of a later one, come to.
Stamped(m, day) == Total(usage[m], Slots \cap (day * DaySlots - Offset..slot))

\* What the verdict on a message says of what its member spent.
CapHolds(m) ==
  LET today == LocalDay(slot)
      month == MonthStart(today)
  IN  /\ message[m].cap # "allowed" /\ message'[m].cap = "allowed" =>
           SpentOn(m, today, today) < DailyCap /\ SpentOn(m, month, today) < MonthlyCap
      /\ message[m].cap # "refused" /\ message'[m].cap = "refused" =>
           Stamped(m, today) >= DailyCap \/ Stamped(m, month) >= MonthlyCap

\* The rows stamped on a local day are not those of the day: what is spent in its
\* last hours has the stamp of the next.  All the same a member that is halted at
\* its cap begins no message once it has spent the cap of the day or of the month
\* in local time, and it is refused one only for what it spent in the day, or the
\* month, and the few slots before it that have its stamp: also when messages last
\* over midnight or the process has been started again.  This is for UTC ahead of
\* local time (Offset), as in America/Sao_Paulo, the zone of the only call
\* (agent_handler 74); where UTC is behind, a member may spend more.
CapsHoldInLocalTime == [][\A m \in Members \ Notified : CapHolds(m)]_budgetVars

\* The pool may be overspent when one borrows what another still has in its
\* share.  The bound there is: the members over their share have not spent more
\* than the pool together, and there are none unless the policy lends.
OverspentByOthersShares ==
  LET over == {m \in Members : spent[m] > Share[m]}
  IN  Total(spent, over) <= IF policy = "borrow_from_pool" THEN Pool ELSE 0
=============================================================================
