-------------------------- MODULE ConexusScheduler --------------------------
(***************************************************************************)
(* Jobs that send a message once per day or week: cron ticks of the        *)
(* ConexusScheduler, catchup() when the process starts, and the table      *)
(* ping_log that tells whether a message was sent.  Ticks go on while      *)
(* catchup runs its jobs one after the other; the scheduler may be shut    *)
(* down, and the process may die.                                          *)
(*                                                                         *)
(* The jobs themselves are external.  They ask ping_was_sent, write        *)
(* ping_mark_pending, work, send, and write ping_mark_sent; each of these  *)
(* may raise, and a job may be cancelled.  A tick is missed when the       *)
(* process is down or its event loop is busy.                              *)
(***************************************************************************)
EXTENDS Integers, Sequences

CONSTANTS
  Jobs,         \* the JobSpecs in the order of add_job, with their windows:
                \* [period, tick, catchable, end], times in hours
  Day,          \* hours of a day
  MaxNow,       \* bound: hours
  MaxBoots      \* bound: starts of the process

Specs == DOMAIN Jobs

ASSUME SchedulerAssumption ==
         /\ Day \in Nat \ {0} /\ MaxNow \in Nat /\ MaxBoots \in Nat
         /\ Jobs \in Seq([period : Nat \ {0}, tick : Nat, catchable : BOOLEAN, end : 0..Day])
         /\ \A j \in Specs : Jobs[j].tick < Jobs[j].period

VARIABLES
  now,          \* hours gone by
  boots,        \* starts of the process
  process,      \* "up", "shut" (it runs, its scheduler is shut down) or "down"
  catchup,      \* the job catchup is at, and now_local as it read it
  run,          \* job and who runs it -> where the run is, and for which ref_id
  pending,      \* rows of ping_log, job and ref_id, without sent_at
  sent,         \* rows of ping_log with sent_at
  delivered,    \* history: job and ref_id of every message sent
  again,        \* history: of those sent once more
  met,          \* history: those that two runs were at together
  cut           \* history: those whose run broke off between sending and ping_mark_sent

ping == <<pending, sent>>
history == <<delivered, again, met, cut>>
vars == <<now, boots, process, catchup, run, ping, history>>

Runs == Specs \X {"cron", "catchup"}

\* current_ref_id: the day or week, here as a number.
RefAt(j, time) == time \div Jobs[j].period
NotRunning == [pc |-> "none", ref |-> 0]
NoCatchup == [at |-> 0, now |-> 0]

Init ==
  /\ now = 0 /\ boots = 0 /\ process = "down"
  /\ catchup = NoCatchup
  /\ run = [r \in Runs |-> NotRunning]
  /\ pending = {} /\ sent = {}
  /\ delivered = {} /\ again = {} /\ met = {} /\ cut = {}

At(r, pc) == run[r].pc = pc
Goes(r, pc) == run' = [run EXCEPT ![r].pc = pc]
RowOf(r) == <<r[1], run[r].ref>>

-----------------------------------------------------------------------------
(* The process *)

\* scheduler.start(), and catchup() reads the time.
Boot ==
  /\ process = "down" /\ boots < MaxBoots
  /\ process' = "up" /\ boots' = boots + 1
  /\ catchup' = [at |-> 1, now |-> now]
  /\ UNCHANGED <<now, run, ping, history>>

\* Runs that end here and now, whatever they are doing.
Stop(runs) ==
  /\ run' = [r \in Runs |-> IF r \in runs THEN NotRunning ELSE run[r]]
  /\ cut' = cut \cup {RowOf(r) : r \in {q \in runs : At(q, "mark")}}

\* shutdown(wait=False) cancels what cron runs; what catchup runs goes on.
Shutdown ==
  /\ process = "up" /\ process' = "shut"
  /\ Stop(Specs \X {"cron"})
  /\ UNCHANGED <<now, boots, catchup, ping, delivered, again, met>>

Crash ==
  /\ process # "down" /\ process' = "down"
  /\ catchup' = NoCatchup
  /\ Stop(Runs)
  /\ UNCHANGED <<now, boots, ping, delivered, again, met>>

\* Cron jobs that are due and that the scheduler gets to start.  A run that is
\* still under way is not doubled (max_instances).
Due(j, time) ==
  process = "up" /\ time % Jobs[j].period = Jobs[j].tick /\ At(<<j, "cron">>, "none")

HourPasses ==
  /\ now < MaxNow /\ now' = now + 1
  /\ \E fired \in SUBSET {j \in Specs : Due(j, now')} :
       run' = [r \in Runs |-> IF r[2] = "cron" /\ r[1] \in fired
                              THEN [pc |-> "check", ref |-> RefAt(r[1], now')] ELSE run[r]]
  /\ UNCHANGED <<boots, process, catchup, ping, history>>

-----------------------------------------------------------------------------
(* catchup *)

\* ping_was_sent
WasSent(row) == row \in sent

\* What catchup runs: catchable, not sent in the current period, and before the
\* end of its window, where 0 is no end.
Missed(j, time) ==
  /\ Jobs[j].catchable
  /\ ~WasSent(<<j, RefAt(j, time)>>)
  /\ Jobs[j].end = 0 \/ time % Day < Jobs[j].end

CatchingUp(j) == catchup.at = j /\ At(<<j, "catchup">>, "none")

\* Bug: one job that need not run ends the loop.
SkipsAll(j) ==
  /\ CatchingUp(j) /\ ~Missed(j, catchup.now)
  /\ catchup' = [catchup EXCEPT !.at = Len(Jobs) + 1]
  /\ UNCHANGED <<now, boots, process, run, ping, history>>

Skips(j) ==
  /\ CatchingUp(j) /\ ~Missed(j, catchup.now)
  /\ catchup' = [catchup EXCEPT !.at = j + 1]
  /\ UNCHANGED <<now, boots, process, run, ping, history>>

\* The job is awaited.  It takes its ref_id from the time it reads itself.
Catches(j) ==
  /\ CatchingUp(j) /\ Missed(j, catchup.now)
  /\ run' = [run EXCEPT ![<<j, "catchup">>] = [pc |-> "check", ref |-> RefAt(j, now)]]
  /\ UNCHANGED <<now, boots, process, catchup, ping, history>>

\* ping_was_sent raises, and so does catchup.
CatchupFails(j) ==
  /\ CatchingUp(j) /\ Jobs[j].catchable
  /\ catchup' = NoCatchup
  /\ UNCHANGED <<now, boots, process, run, ping, history>>

-----------------------------------------------------------------------------
(* A run of a job *)

\* Bug: catchup runs a job again until it finds it sent.
ReturnsToCatchupAgain(r, ok) ==
  catchup' = IF r[2] = "cron" \/ ok THEN catchup ELSE NoCatchup

\* catchup goes on with the next job; when a job raises, so does catchup.
ReturnsToCatchup(r, ok) ==
  catchup' = IF r[2] = "cron" THEN catchup
             ELSE IF ok THEN [catchup EXCEPT !.at = @ + 1] ELSE NoCatchup

Returns(r, ok) ==
  /\ run' = [run EXCEPT ![r] = NotRunning]
  /\ ReturnsToCatchup(r, ok)

AlreadySent(r) ==
  /\ At(r, "check") /\ WasSent(RowOf(r))
  /\ Returns(r, TRUE)
  /\ UNCHANGED <<now, boots, process, ping, history>>

\* ping_mark_pending: ON CONFLICT DO NOTHING.
MarkedPending(row) == pending' = pending \cup ({row} \ sent) /\ UNCHANGED sent

Together(r, q) == RowOf(q) = RowOf(r) /\ (At(q, "work") \/ At(q, "mark"))

\* Between the two statements a task of this process cannot run, and only one
\* process has the scheduler.
MarkPending(r) ==
  /\ At(r, "check") /\ ~WasSent(RowOf(r))
  /\ MarkedPending(RowOf(r))
  /\ Goes(r, "work")
  /\ met' = met \cup {RowOf(r) : q \in {q \in Runs : Together(r, q)}}
  /\ UNCHANGED <<now, boots, process, catchup, delivered, again, cut>>

\* A statement on ping_log, the work or the sending raises, or the task is cancelled.
\* The message may have been delivered by then.
Raises(r) ==
  /\ ~At(r, "none")
  /\ cut' = cut \cup (IF At(r, "mark") THEN {RowOf(r)} ELSE {})
  /\ Returns(r, FALSE)
  /\ UNCHANGED <<now, boots, process, ping, delivered, again, met>>

Sends(r) ==
  /\ At(r, "work")
  /\ delivered' = delivered \cup {RowOf(r)}
  /\ again' = again \cup ({RowOf(r)} \cap delivered)
  /\ Goes(r, "mark")
  /\ UNCHANGED <<now, boots, process, catchup, ping, met, cut>>

\* Bug: ON CONFLICT DO NOTHING, though the row is there already.
MarkedSentIfNew(row) ==
  /\ sent' = sent \cup ({row} \ pending)
  /\ UNCHANGED pending

\* ping_mark_sent: ON CONFLICT DO UPDATE.
MarkedSent(row) == sent' = sent \cup {row} /\ pending' = pending \ {row}

MarkSent(r) ==
  /\ At(r, "mark")
  /\ MarkedSent(RowOf(r))
  /\ Returns(r, TRUE)
  /\ UNCHANGED <<now, boots, process, history>>

RunStep(r) == AlreadySent(r) \/ MarkPending(r) \/ Raises(r) \/ Sends(r) \/ MarkSent(r)

-----------------------------------------------------------------------------

Next ==
  \/ Boot \/ Shutdown \/ Crash \/ HourPasses
  \/ \E j \in Specs : Skips(j) \/ Catches(j) \/ CatchupFails(j)
  \/ \E r \in Runs : RunStep(r)

Spec == Init /\ [][Next]_vars

\* Jobs return or raise, and the event loop runs every task that can go on.
FairSpec ==
  /\ Spec
  /\ \A j \in Specs : WF_vars(Skips(j) \/ Catches(j) \/ CatchupFails(j))
  /\ \A r \in Runs : WF_vars(RunStep(r))

-----------------------------------------------------------------------------
(* Properties *)

\* A message is sent once more only when a tick and catchup were at it together, both
\* having found no row that says sent, or when a run of it had broken off between the
\* delivery and ping_mark_sent: not by a tick that comes after catchup is through with
\* it, nor by the catchup of the next start.
RepeatsExplained == again \subseteq met \cup cut

\* When catchup has gone through its jobs, each one that was missed at the start
\* was delivered: for the period in which catchup began, or for the one in which
\* the job read the time.
CatchupLeavesNothingDue ==
  catchup.at = Len(Jobs) + 1 =>
    \A j \in Specs :
      Missed(j, catchup.now) =>
        \E ref \in RefAt(j, catchup.now)..RefAt(j, now) : <<j, ref>> \in delivered

\* catchup ends: it has gone through its jobs, one of them raised or was cancelled, or
\* the process died.
CatchupEnds == \A j \in Specs : catchup.at = j ~> catchup.at # j
=============================================================================
