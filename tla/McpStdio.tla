------------------------------ MODULE McpStdio ------------------------------
(***************************************************************************)
(* MCP servers run as subprocesses: the backends (McpStdioBackend) that    *)
(* SkillLoader.start_all starts one after the other and stop_all stops in  *)
(* the same order, and tasks that call their tools meanwhile.  A call      *)
(* writes a request and reads lines until its answer comes; a lock keeps   *)
(* the calls of one backend apart.  A task may be cancelled at an await.   *)
(* A step is the code between two awaits, or less.                         *)
(*                                                                         *)
(* The servers are external: they answer in any order, write notifications *)
(* in between, log to stderr, and may die.                                 *)
(***************************************************************************)
EXTENDS Integers, SequencesExt

CONSTANTS
  Order,        \* the backends, in the order in which they were loaded
  Callers,      \* tasks that call execute
  Uses,         \* caller -> the backend it calls
  Loader,       \* the task that runs start_all and stop_all
  MaxCalls,     \* bound: requests to one server
  Chatty        \* servers may write more to stderr than its pipe holds

Backends == {Order[i] : i \in DOMAIN Order}
Tasks == Callers \cup {Loader}

ASSUME StdioAssumption ==
         /\ Order \in Seq(Backends)
         /\ \A i, j \in DOMAIN Order : Order[i] = Order[j] => i = j
         /\ Loader \notin Callers
         /\ Uses \in [Callers -> Backends]
         /\ Chatty \in BOOLEAN

VARIABLES
  proc,         \* backend -> its process, as the operating system sees it
  inited,       \* backend -> _initialized
  queue,        \* the _call_lock of each backend: its holder, then who waits
  asker,        \* backend -> who made each request: the i-th has id i
  call,         \* task -> where its call is, and the id of its request
  loader,       \* what start_all or stop_all is doing, and with which backend
  inbox,        \* requests a server has not answered
  pipe,         \* lines on its stdout: the id of a response, or Noise
  blocked,      \* servers waiting for room on stderr
  results       \* history: what each call asked for, and which response it got

vars == <<proc, inited, queue, asker, call, loader, inbox, pipe, blocked, results>>
server == <<inbox, pipe, blocked>>

\* A notification, or a line that is no JSON.
Noise == 0

Idle == [pc |-> "idle", id |-> 0]
Doing(t, pc) == call[t].pc = pc
Becomes(t, pc, id) == call' = [call EXCEPT ![t] = [pc |-> pc, id |-> id]]

LoaderAt(pc, i) == loader = [pc |-> pc, at |-> i]
LoaderGoes(pc, i) == loader' = [pc |-> pc, at |-> i]

Of(t) == IF t = Loader THEN Order[loader.at] ELSE Uses[t]
Holds(t) == queue[Of(t)] # <<>> /\ Head(queue[Of(t)]) = t

\* The lock is given up, or a place in the line.
Leaves(t) == LET Place(q) == CHOOSE i \in DOMAIN q : q[i] = t IN
  queue' = [queue EXCEPT ![Of(t)] = RemoveAt(@, Place(@))]

Init ==
  /\ proc = [b \in Backends |-> "none"]
  /\ inited = [b \in Backends |-> FALSE]
  /\ queue = [b \in Backends |-> <<>>]
  /\ asker = [b \in Backends |-> <<>>]
  /\ call = [t \in Tasks |-> Idle]
  /\ loader = [pc |-> "loaded", at |-> 1]
  /\ inbox = [b \in Backends |-> {}]
  /\ pipe = [b \in Backends |-> <<>>]
  /\ blocked = {} /\ results = {}

-----------------------------------------------------------------------------
(* A call: _call *)

Enter(t) ==
  /\ Doing(t, "idle")
  /\ queue' = [queue EXCEPT ![Of(t)] = Append(@, t)]
  /\ Becomes(t, "wait", 0)
  /\ UNCHANGED <<proc, inited, asker, loader, results, server>>

\* execute refuses a backend that was not started.
Execute(c) ==
  /\ inited[Uses[c]] /\ Len(asker[Uses[c]]) < MaxCalls
  /\ Enter(c)

Write(t) == LET b == Of(t) IN
  /\ Doing(t, "wait") /\ Holds(t) /\ proc[b] # "none"
  /\ asker' = [asker EXCEPT ![b] = Append(@, t)]
  /\ inbox' = [inbox EXCEPT ![b] = @ \cup {Len(asker[b]) + 1}]
  /\ Becomes(t, "read", Len(asker[b]) + 1)
  /\ UNCHANGED <<proc, inited, queue, loader, pipe, blocked, results>>

\* Bug: _initialized is set as soon as initialize was answered.
LoaderOnEarly(ok) ==
  \/ ~ok /\ LoaderGoes("failed", loader.at) /\ UNCHANGED inited
  \/ /\ ok /\ loader.pc = "initialize" /\ LoaderGoes("list", loader.at)
     /\ inited' = [inited EXCEPT ![Order[loader.at]] = TRUE]
  \/ ok /\ loader.pc = "list" /\ LoaderGoes("start", loader.at + 1) /\ UNCHANGED inited

\* What start does when one of its two calls returns or raises.
LoaderOn(ok) ==
  \/ ~ok /\ LoaderGoes("failed", loader.at) /\ UNCHANGED inited
  \/ ok /\ loader.pc = "initialize" /\ LoaderGoes("list", loader.at) /\ UNCHANGED inited
  \/ /\ ok /\ loader.pc = "list"
     /\ inited' = [inited EXCEPT ![Order[loader.at]] = TRUE]
     /\ LoaderGoes("start", loader.at + 1)

Ends(t, ok) ==
  /\ Leaves(t) /\ Becomes(t, "idle", 0)
  /\ IF t = Loader THEN LoaderOn(ok) ELSE UNCHANGED <<inited, loader>>

\* Bug: the first response is taken, whatever its id.
AnswersAny(t, line) == line # Noise

\* The response with the id of the request.
Answers(t, line) == line = call[t].id

\* The response may be an error, or one that start cannot use.
ReadAnswer(t) == LET b == Of(t) IN
  /\ Doing(t, "read") /\ pipe[b] # <<>> /\ Answers(t, Head(pipe[b]))
  /\ pipe' = [pipe EXCEPT ![b] = Tail(@)]
  /\ results' = results \cup
       {[of |-> b, by |-> t, asked |-> call[t].id, got |-> Head(pipe[b])]}
  /\ \E ok \in BOOLEAN : Ends(t, ok)
  /\ UNCHANGED <<proc, asker, inbox, blocked>>

\* A line that cannot be read, or is JSON but no object, raises.
ReadBreaks(t) == LET b == Of(t) IN
  /\ Doing(t, "read") /\ pipe[b] # <<>> /\ Head(pipe[b]) = Noise
  /\ pipe' = [pipe EXCEPT ![b] = Tail(@)]
  /\ Ends(t, FALSE)
  /\ UNCHANGED <<proc, asker, inbox, blocked, results>>

\* A line that is not the answer is dropped.
ReadOther(t) == LET b == Of(t) IN
  /\ Doing(t, "read") /\ pipe[b] # <<>> /\ ~Answers(t, Head(pipe[b]))
  /\ pipe' = [pipe EXCEPT ![b] = Tail(@)]
  /\ UNCHANGED <<proc, inited, queue, asker, call, loader, inbox, blocked, results>>

\* Bug: the empty line at the end of stdout is dropped like any other.
CallFailsToWrite(t) == LET b == Of(t) IN
  /\ Doing(t, "wait") /\ Holds(t) /\ proc[b] # "running"
  /\ asker' = [asker EXCEPT ![b] = Append(@, t)]
  /\ Ends(t, FALSE)
  /\ UNCHANGED <<proc, results, server>>

\* The write fails, or stdout is at its end, as the server is dead; or _proc is
\* None by now.
CallFails(t) == LET b == Of(t) IN
  /\ Doing(t, "wait") \/ Doing(t, "read")
  /\ Holds(t)
  /\ proc[b] = "none" \/ (proc[b] = "dead" /\ (Doing(t, "read") => pipe[b] = <<>>))
  /\ asker' = [asker EXCEPT ![b] = IF Doing(t, "wait") THEN Append(@, t) ELSE @]
  /\ Ends(t, FALSE)
  /\ UNCHANGED <<proc, results, server>>

\* A task is cancelled: it gives up the lock, or its place in the line.  What it
\* asked for may be answered all the same.
Cancel(t) ==
  /\ ~Doing(t, "idle")
  /\ Ends(t, FALSE)
  /\ UNCHANGED <<proc, asker, results, server>>

-----------------------------------------------------------------------------
(* start_all and stop_all *)

StartAll ==
  /\ loader.pc = "loaded" /\ LoaderGoes("start", 1)
  /\ UNCHANGED <<proc, inited, queue, asker, call, results, server>>

Spawn(i) ==
  /\ LoaderAt("start", i) /\ i \in DOMAIN Order
  /\ proc' = [proc EXCEPT ![Order[i]] = "running"]
  /\ LoaderGoes("initialize", i)
  /\ UNCHANGED <<inited, queue, asker, call, results, server>>

\* There is no such command, or the task is cancelled here.
SpawnFails(i) ==
  /\ LoaderAt("start", i) /\ i \in DOMAIN Order
  /\ LoaderGoes("failed", i)
  /\ UNCHANGED <<proc, inited, queue, asker, call, results, server>>

Handshake == loader.pc \in {"initialize", "list"} /\ Enter(Loader)

\* After start_all has returned or raised.
StopAll ==
  /\ loader.pc = "failed" \/ LoaderAt("start", Len(Order) + 1)
  /\ LoaderGoes("stop", 1)
  /\ UNCHANGED <<proc, inited, queue, asker, call, results, server>>

\* Bug: only backends that were initialised are stopped.
NoProcUninitialised(i) == ~inited[Order[i]]

NoProc(i) == proc[Order[i]] = "none"

\* stop of a backend that has no process.
StopNothing(i) ==
  /\ LoaderAt("stop", i) /\ i \in DOMAIN Order /\ NoProc(i)
  /\ LoaderGoes("stop", i + 1)
  /\ UNCHANGED <<proc, inited, queue, asker, call, results, server>>

Terminate(i) ==
  /\ LoaderAt("stop", i) /\ i \in DOMAIN Order /\ ~NoProc(i)
  /\ LoaderGoes("wait", i)
  /\ UNCHANGED <<proc, inited, queue, asker, call, results, server>>

\* terminate() of a process that asyncio knows to be dead raises ProcessLookupError, and
\* a task may be cancelled while it waits: this leaves stop and stop_all.
StopRaises(i) ==
  /\ \/ LoaderAt("stop", i) /\ i \in DOMAIN Order /\ proc[Order[i]] = "dead"
     \/ LoaderAt("wait", i)
  /\ LoaderGoes("raised", i)
  /\ UNCHANGED <<proc, inited, queue, asker, call, results, server>>

Stopped(i) ==
  /\ LoaderAt("wait", i) /\ proc[Order[i]] = "dead"
  /\ proc' = [proc EXCEPT ![Order[i]] = "none"]
  /\ inited' = [inited EXCEPT ![Order[i]] = FALSE]
  /\ LoaderGoes("stop", i + 1)
  /\ UNCHANGED <<queue, asker, call, results, server>>

-----------------------------------------------------------------------------
(* The servers *)

ServerAnswers(b) ==
  /\ proc[b] = "running" /\ b \notin blocked
  /\ \E id \in inbox[b] :
       /\ inbox' = [inbox EXCEPT ![b] = @ \ {id}]
       /\ pipe' = [pipe EXCEPT ![b] = Append(@, id)]
  /\ UNCHANGED <<proc, inited, queue, asker, call, loader, blocked, results>>

ServerNotifies(b) ==
  /\ proc[b] = "running" /\ b \notin blocked /\ pipe[b] = <<>>
  /\ pipe' = [pipe EXCEPT ![b] = <<Noise>>]
  /\ UNCHANGED <<proc, inited, queue, asker, call, loader, inbox, blocked, results>>

\* stderr is a pipe that nobody reads.
ServerLogs(b) ==
  /\ Chatty /\ proc[b] = "running"
  /\ blocked' = blocked \cup {b}
  /\ UNCHANGED <<proc, inited, queue, asker, call, loader, inbox, pipe, results>>

ServerDies(b) ==
  /\ proc[b] = "running"
  /\ proc' = [proc EXCEPT ![b] = "dead"]
  /\ inbox' = [inbox EXCEPT ![b] = {}]
  /\ blocked' = blocked \ {b}
  /\ UNCHANGED <<inited, queue, asker, call, loader, pipe, results>>

-----------------------------------------------------------------------------

CallStep(t) == Write(t) \/ ReadAnswer(t) \/ ReadOther(t) \/ ReadBreaks(t) \/ CallFails(t)

LoaderStep ==
  \/ StartAll \/ Handshake \/ StopAll
  \/ \E i \in DOMAIN Order :
       \/ Spawn(i) \/ SpawnFails(i)
       \/ StopNothing(i) \/ Terminate(i) \/ StopRaises(i) \/ Stopped(i)

Next ==
  \/ \E c \in Callers : Execute(c)
  \/ \E t \in Tasks : CallStep(t) \/ Cancel(t)
  \/ LoaderStep
  \/ \E b \in Backends :
       ServerAnswers(b) \/ ServerNotifies(b) \/ ServerLogs(b) \/ ServerDies(b)

Spec == Init /\ [][Next]_vars

\* The event loop runs every task that can go on, and a server that can write
\* answers at last.
FairSpec ==
  /\ Spec
  /\ \A t \in Tasks : WF_vars(CallStep(t))
  /\ \A b \in Backends : WF_vars(ServerAnswers(b))

-----------------------------------------------------------------------------
(* Properties *)

\* No call takes the response to another request: not that of a cancelled call,
\* which comes after the lock was released, nor one that overtook it.  The request
\* that it answers was made by the caller itself, and is the one of this call.
AnswerIsOwn == \A r \in results :
  r.got = r.asked /\ r.got \in DOMAIN asker[r.of] /\ asker[r.of][r.got] = r.by

\* The first two requests a server gets are the loader's initialize and
\* tools/list, and no tool is called before both were answered.
HandshakeFirst ==
  \A b \in Backends : \A i \in DOMAIN asker[b] : (asker[b][i] = Loader) <=> i <= 2

\* What stop_all has gone through has no process and is not initialised, be it that it
\* returned or that the stop of a later backend raised: also after a start_all that failed
\* halfway and left a process that runs without having been initialised, and whatever
\* calls were under way.
StopAllLeavesNothing ==
  loader.pc \in {"stop", "wait", "raised"} =>
    \A i \in 1..loader.at - 1 : proc[Order[i]] = "none" /\ ~inited[Order[i]]

\* Every call comes to an end, whatever lines it reads and whichever server dies,
\* unless its server waits for room on stderr, which nobody reads.
CallsEndUnlessBlocked ==
  \A c \in Callers : ~Doing(c, "idle") ~> (Doing(c, "idle") \/ Uses[c] \in blocked)
=============================================================================
