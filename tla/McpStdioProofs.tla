---------------------------- MODULE McpStdioProofs ----------------------------
(***************************************************************************)
(* Theorems about the MCP servers that run as subprocesses, for any number *)
(* of servers, of tasks that call their tools, and of requests.            *)
(***************************************************************************)
EXTENDS McpStdio, SequenceTheorems, TLAPS

CallState == [pc : {"idle", "wait", "read"}, id : Nat]
Result == [of : Backends, by : Tasks, asked : Nat, got : Nat]
Handshaking == {"initialize", "list"}
Starting == {"loaded", "start"} \cup Handshaking
Places == {"loaded", "start", "initialize", "list", "failed", "stop", "wait", "raised"}

TypesOK ==
  /\ proc \in [Backends -> {"none", "running", "dead"}]
  /\ inited \in [Backends -> BOOLEAN]
  /\ queue \in [Backends -> Seq(Tasks)]
  /\ asker \in [Backends -> Seq(Tasks)]
  /\ call \in [Tasks -> CallState]
  /\ loader \in [pc : Places, at : 1..Len(Order) + 1]
  /\ loader.pc \in Handshaking \cup {"wait"} => loader.at \in DOMAIN Order
  /\ inbox \in [Backends -> SUBSET Nat]
  /\ pipe \in [Backends -> Seq(Nat)]
  /\ blocked \subseteq Backends
  /\ results \subseteq Result

\* The lock of a backend has each call of it that is under way, once.
UnderWay(b) == {t \in Tasks : ~Doing(t, "idle") /\ Of(t) = b}
Queues(q, tasks) == q \in Seq(Tasks) /\ IsInjective(q) /\ Range(q) = tasks
LockInv == \A b \in Backends : Queues(queue[b], UnderWay(b))

\* A call that reads has the lock, and waits for the answer to the last request,
\* which it made itself.
Newest(t) == call[t].id = Len(asker[Of(t)]) /\ asker[Of(t)] # <<>> /\ Last(asker[Of(t)]) = t
ReadInv == \A t \in Tasks : Doing(t, "read") => Holds(t) /\ Newest(t)

\* What start_all and stop_all have done so far.
LoaderInv ==
  /\ ~Doing(Loader, "idle") => loader.pc \in Handshaking
  /\ loader.pc = "loaded" => loader.at = 1
  /\ \A b \in Backends : proc[b] = "none" => ~inited[b]
  /\ loader.pc \in Handshaking => proc[Order[loader.at]] # "none"
  /\ loader.pc \in {"stop", "wait", "raised"} =>
       \A j \in DOMAIN Order : j < loader.at => proc[Order[j]] = "none"

\* start_all has yet to start a backend, or is at it.
Ahead(j) == loader.pc \in Starting /\ j >= loader.at
Untouched(j) == Ahead(j) /\ (loader.pc \in Handshaking => j > loader.at)
Asked == (IF loader.pc = "list" THEN 1 ELSE 0) + (IF Doing(Loader, "read") THEN 1 ELSE 0)

AskedInv ==
  /\ \A j \in DOMAIN Order : Ahead(j) =>
       ~inited[Order[j]] /\ \A c \in Callers : Uses[c] = Order[j] => Doing(c, "idle")
  /\ \A j \in DOMAIN Order : Untouched(j) => asker[Order[j]] = <<>>
  /\ loader.pc \in Handshaking => Len(asker[Order[loader.at]]) = Asked
  /\ \A b \in Backends : inited[b] => Len(asker[b]) >= 2
  /\ \A c \in Callers : ~Doing(c, "idle") => Len(asker[Uses[c]]) >= 2

IInv ==
  /\ TypesOK /\ LockInv /\ ReadInv /\ LoaderInv /\ AskedInv
  /\ AnswerIsOwn /\ HandshakeFirst

-----------------------------------------------------------------------------
(* Sequences *)

\* RemoveAt takes one place out of a sequence and leaves the others in order.
LEMMA RemoveAtPlaces ==
  ASSUME NEW S, NEW s \in Seq(S), NEW k \in 1..Len(s)
  PROVE  /\ RemoveAt(s, k) \in Seq(S)
         /\ Len(RemoveAt(s, k)) = Len(s) - 1
         /\ \A i \in 1..Len(s) - 1 : RemoveAt(s, k)[i] = IF i < k THEN s[i] ELSE s[i + 1]
<1> DEFINE a == SubSeq(s, 1, k - 1)
           b == SubSeq(s, k + 1, Len(s))
<1>1. Len(s) \in Nat /\ k \in Nat
  BY LenProperties
<1>2. /\ a \in Seq(S) /\ Len(a) = k - 1
      /\ \A i \in 1..k - 1 : a[i] = s[i]
  <2>1. \A i \in 1..k - 1 : s[i] \in S
    BY <1>1, ElementOfSeq
  <2>2. QED
    BY <1>1, <2>1, SubSeqProperties
<1>3. /\ b \in Seq(S) /\ Len(b) = Len(s) - k
      /\ \A i \in 1..Len(s) - k : b[i] = s[k + i]
  <2>1. \A i \in k + 1..Len(s) : s[i] \in S
    BY <1>1, ElementOfSeq
  <2>2. QED
    BY <1>1, <2>1, SubSeqProperties
<1> HIDE DEF a, b
<1>4. /\ a \o b \in Seq(S) /\ Len(a \o b) = Len(s) - 1
      /\ \A i \in 1..Len(s) - 1 : (a \o b)[i] = IF i <= k - 1 THEN a[i] ELSE b[i - (k - 1)]
  <2>1. Len(a) + Len(b) = Len(s) - 1
    BY <1>1, <1>2, <1>3
  <2>2. /\ a \o b \in Seq(S) /\ Len(a \o b) = Len(a) + Len(b)
        /\ \A i \in 1..Len(a) + Len(b) :
             (a \o b)[i] = IF i <= Len(a) THEN a[i] ELSE b[i - Len(a)]
    BY <1>2, <1>3, ConcatProperties
  <2>3. QED
    BY <1>2, <2>1, <2>2
<1>5. ASSUME NEW i \in 1..Len(s) - 1
      PROVE  (a \o b)[i] = IF i < k THEN s[i] ELSE s[i + 1]
  <2>1. CASE i < k
    BY <1>1, <1>2, <1>4, <2>1
  <2>2. CASE ~(i < k)
    <3>1. i - (k - 1) \in 1..Len(s) - k /\ k + (i - (k - 1)) = i + 1
      BY <1>1, <2>2
    <3>2. b[i - (k - 1)] = s[i + 1]
      BY <1>3, <3>1
    <3>3. ~(i <= k - 1)
      BY <1>1, <2>2
    <3>4. QED
      BY <1>4, <2>2, <3>2, <3>3
  <2>3. QED
    BY <2>1, <2>2
<1>6. RemoveAt(s, k) = a \o b
  BY DEF RemoveAt, a, b
<1>7. QED
  BY <1>4, <1>5, <1>6

\* Taking an element out of a sequence without duplicates.
LEMMA RemoveAtElements ==
  ASSUME NEW S, NEW s \in Seq(S), IsInjective(s), NEW k \in DOMAIN s
  PROVE  /\ IsInjective(RemoveAt(s, k))
         /\ Range(RemoveAt(s, k)) = Range(s) \ {s[k]}
<1> DEFINE r == RemoveAt(s, k)
<1>1. Len(s) \in Nat /\ DOMAIN s = 1..Len(s) /\ k \in Nat
  BY LenProperties
<1>2. /\ r \in Seq(S) /\ DOMAIN r = 1..Len(s) - 1
      /\ \A i \in 1..Len(s) - 1 : r[i] = IF i < k THEN s[i] ELSE s[i + 1]
  <2>1. /\ r \in Seq(S) /\ Len(r) = Len(s) - 1
        /\ \A i \in 1..Len(s) - 1 : r[i] = IF i < k THEN s[i] ELSE s[i + 1]
    BY <1>1, RemoveAtPlaces
  <2> HIDE DEF r
  <2>2. QED
    BY <2>1, LenProperties
<1> HIDE DEF r
<1>3. \A i, j \in 1..Len(s) : s[i] = s[j] => i = j
  BY <1>1 DEF IsInjective
<1>4. IsInjective(r)
  <2> SUFFICES ASSUME NEW i \in 1..Len(s) - 1, NEW j \in 1..Len(s) - 1, r[i] = r[j]
               PROVE  i = j
    BY <1>2 DEF IsInjective
  <2> DEFINE at(n) == IF n < k THEN n ELSE n + 1
  <2>1. at(i) \in 1..Len(s) /\ at(j) \in 1..Len(s)
    BY <1>1
  <2>2. s[at(i)] = s[at(j)]
    BY <1>2
  <2>3. at(i) = at(j)
    BY <1>3, <2>1, <2>2
  <2>4. QED
    BY <1>1, <2>3
<1>5. ASSUME NEW i \in DOMAIN r
      PROVE  \E j \in 1..Len(s) : r[i] = s[j] /\ j # k
  <2>1. CASE i < k
    BY <1>1, <1>2, <2>1
  <2>2. CASE i >= k
    BY <1>1, <1>2, <2>2
  <2>3. QED
    BY <1>1, <1>2, <2>1, <2>2
<1>6. ASSUME NEW j \in 1..Len(s), j # k
      PROVE  \E i \in DOMAIN r : r[i] = s[j]
  <2>1. CASE j < k
    BY <1>1, <1>2, <2>1
  <2>2. CASE j > k
    <3>1. j - 1 \in 1..Len(s) - 1 /\ ~(j - 1 < k) /\ (j - 1) + 1 = j
      BY <1>1, <2>2
    <3>2. QED
      BY <1>2, <3>1
  <2>3. QED
    BY <1>1, <1>6, <2>1, <2>2
<1>7. Range(r) = Range(s) \ {s[k]}
  <2>1. ASSUME NEW x \in Range(r)
        PROVE  x \in Range(s) \ {s[k]}
    BY <1>1, <1>3, <1>5, <2>1 DEF Range
  <2>2. ASSUME NEW x \in Range(s) \ {s[k]}
        PROVE  x \in Range(r)
    BY <1>1, <1>6, <2>2 DEF Range
  <2>3. QED
    BY <2>1, <2>2
<1>8. QED
  BY <1>4, <1>7 DEF r

\* Appending what is not there.
LEMMA AppendElements ==
  ASSUME NEW S, NEW s \in Seq(S), IsInjective(s), NEW x \in S, x \notin Range(s)
  PROVE  /\ Append(s, x) \in Seq(S)
         /\ IsInjective(Append(s, x))
         /\ Range(Append(s, x)) = Range(s) \cup {x}
<1> DEFINE r == Append(s, x)
<1>1. Len(s) \in Nat /\ DOMAIN s = 1..Len(s)
  BY LenProperties
<1>2. /\ r \in Seq(S) /\ DOMAIN r = 1..Len(s) + 1
      /\ \A i \in 1..Len(s) + 1 : r[i] = IF i = Len(s) + 1 THEN x ELSE s[i]
  BY <1>1
<1> HIDE DEF r
<1>3. \A i \in 1..Len(s) : s[i] # x
  BY <1>1 DEF Range
<1>4. IsInjective(r)
  BY <1>1, <1>2, <1>3 DEF IsInjective
<1>5. Range(r) = Range(s) \cup {x}
  <2>1. ASSUME NEW y \in Range(r)
        PROVE  y \in Range(s) \cup {x}
    BY <1>1, <1>2, <2>1 DEF Range
  <2>2. ASSUME NEW y \in Range(s)
        PROVE  y \in Range(r)
    BY <1>1, <1>2, <2>2 DEF Range
  <2>3. x \in Range(r)
    BY <1>1, <1>2 DEF Range
  <2>4. QED
    BY <2>1, <2>2, <2>3
<1>6. QED
  BY <1>2, <1>4, <1>5 DEF r

\* What a queue of tasks is, when one leaves it: in line, the others keep their
\* order, and who is at the head stays there.
LEMMA QueueLeft ==
  ASSUME NEW q, NEW tasks, Queues(q, tasks), NEW t \in tasks, NEW k \in DOMAIN q, q[k] = t
  PROVE  /\ Queues(RemoveAt(q, k), tasks \ {t})
         /\ q[1] # t => RemoveAt(q, k) # <<>> /\ RemoveAt(q, k)[1] = q[1]
<1>1. q \in Seq(Tasks) /\ IsInjective(q) /\ Range(q) = tasks
  BY DEF Queues
<1>2. Len(q) \in Nat /\ DOMAIN q = 1..Len(q) /\ k \in 1..Len(q)
  BY <1>1, LenProperties
<1>3. /\ RemoveAt(q, k) \in Seq(Tasks) /\ Len(RemoveAt(q, k)) = Len(q) - 1
      /\ \A i \in 1..Len(q) - 1 : RemoveAt(q, k)[i] = IF i < k THEN q[i] ELSE q[i + 1]
  BY <1>1, <1>2, RemoveAtPlaces
<1>4. Queues(RemoveAt(q, k), tasks \ {t})
  BY <1>1, <1>3, RemoveAtElements DEF Queues
<1>5. ASSUME q[1] # t
      PROVE  RemoveAt(q, k) # <<>> /\ RemoveAt(q, k)[1] = q[1]
  <2>1. k # 1
    BY <1>5
  <2>2. 1 \in 1..Len(q) - 1 /\ 1 < k
    BY <1>2, <2>1
  <2>3. Len(RemoveAt(q, k)) # 0
    BY <1>2, <1>3, <2>2
  <2>4. QED
    BY <1>3, <2>2, <2>3
<1>6. QED
  BY <1>4, <1>5

\* What it is when one joins it: the others keep their places.
LEMMA QueueJoined ==
  ASSUME NEW q, NEW tasks, Queues(q, tasks), NEW t \in Tasks, t \notin tasks
  PROVE  /\ Queues(Append(q, t), tasks \cup {t})
         /\ q # <<>> => Append(q, t) # <<>> /\ Append(q, t)[1] = q[1]
<1>1. q \in Seq(Tasks) /\ IsInjective(q) /\ Range(q) = tasks
  BY DEF Queues
<1>2. Queues(Append(q, t), tasks \cup {t})
  BY <1>1, AppendElements DEF Queues
<1>3. ASSUME q # <<>>
      PROVE  Append(q, t) # <<>> /\ Append(q, t)[1] = q[1]
  <2>1. Len(q) \in Nat /\ Len(q) # 0
    BY <1>1, <1>3, EmptySeq, LenProperties
  <2>2. QED
    BY <1>1, <2>1
<1>4. QED
  BY <1>2, <1>3

-----------------------------------------------------------------------------
(* A call *)

\* Where the loader's calls go, as long as it has one.
LEMMA OfTyped ==
  ASSUME TypesOK, LoaderInv, NEW t \in Tasks, ~Doing(t, "idle") \/ t # Loader
  PROVE  Of(t) \in Backends
<1>1. CASE t = Loader
  <2>1. loader.at \in DOMAIN Order
    BY <1>1 DEF TypesOK, LoaderInv
  <2>2. QED
    BY <1>1, <2>1 DEF Of, Backends
<1>2. CASE t # Loader
  BY <1>2, StdioAssumption DEF Of, Tasks
<1>3. QED
  BY <1>1, <1>2

\* What a call is after a step of it, and that those of the others are as before.
LEMMA Become ==
  ASSUME TypesOK, NEW t \in Tasks, NEW p \in {"idle", "wait", "read"}, NEW i \in Nat,
         Becomes(t, p, i)
  PROVE  /\ call' \in [Tasks -> CallState]
         /\ call'[t].pc = p /\ call'[t].id = i
         /\ \A u \in Tasks : u # t => call'[u] = call[u]
<1>1. [pc |-> p, id |-> i] \in CallState
  BY DEF CallState
<1>2. call' = [call EXCEPT ![t] = [pc |-> p, id |-> i]]
  BY DEF Becomes
<1>3. QED
  BY <1>1, <1>2 DEF TypesOK

\* A call that leaves the lock: the others keep their order, and who has it.
LEMMA LeavesLock ==
  ASSUME TypesOK, LockInv, LoaderInv, NEW t \in Tasks, ~Doing(t, "idle"), Leaves(t)
  PROVE  /\ queue' \in [Backends -> Seq(Tasks)]
         /\ \A b \in Backends : b # Of(t) => queue'[b] = queue[b]
         /\ Queues(queue'[Of(t)], UnderWay(Of(t)) \ {t})
         /\ Head(queue[Of(t)]) # t =>
              queue'[Of(t)] # <<>> /\ Head(queue'[Of(t)]) = Head(queue[Of(t)])
<1> DEFINE q == queue[Of(t)]
           k == CHOOSE i \in DOMAIN q : q[i] = t
<1>1. Of(t) \in Backends
  BY OfTyped
<1>2. queue \in [Backends -> Seq(Tasks)]
  BY DEF TypesOK
<1>3. Queues(q, UnderWay(Of(t)))
  BY <1>1 DEF LockInv
<1>4. t \in UnderWay(Of(t))
  BY DEF UnderWay
<1>5. k \in DOMAIN q /\ q[k] = t
  BY <1>3, <1>4 DEF Queues, Range
<1>6. queue' = [queue EXCEPT ![Of(t)] = RemoveAt(q, k)]
  BY DEF Leaves
<1> HIDE DEF k
<1>7. /\ Queues(RemoveAt(q, k), UnderWay(Of(t)) \ {t})
      /\ q[1] # t => RemoveAt(q, k) # <<>> /\ RemoveAt(q, k)[1] = q[1]
  BY <1>3, <1>4, <1>5, QueueLeft
<1>8. queue'[Of(t)] = RemoveAt(q, k)
  BY <1>1, <1>2, <1>6
<1>9. RemoveAt(q, k) \in Seq(Tasks)
  BY <1>7 DEF Queues
<1>10. QED
  BY <1>1, <1>2, <1>6, <1>7, <1>8, <1>9

\* A step of a call with these effects: it comes to the line of its backend, it has
\* written its request, or it ends.
Comes(t) ==
  /\ Doing(t, "idle") /\ Becomes(t, "wait", 0) /\ Of(t) \in Backends
  /\ queue' = [queue EXCEPT ![Of(t)] = Append(@, t)]
  /\ UNCHANGED <<asker, loader>>

Asks(t) ==
  /\ Doing(t, "wait") /\ Holds(t) /\ Becomes(t, "read", Len(asker[Of(t)]) + 1)
  /\ asker' = [asker EXCEPT ![Of(t)] = Append(@, t)]
  /\ UNCHANGED <<queue, loader>>

Goes(t) ==
  /\ ~Doing(t, "idle") /\ Becomes(t, "idle", 0) /\ Leaves(t)
  /\ \/ asker' = asker
     \/ Holds(t) /\ asker' = [asker EXCEPT ![Of(t)] = Append(@, t)]
  /\ t # Loader => UNCHANGED loader

\* A step of no call.
Quiet ==
  /\ UNCHANGED <<queue, asker, call>>
  /\ loader' = loader \/ Doing(Loader, "idle")

\* What the request of a call changes.
LEMMA OneMore ==
  ASSUME TypesOK, NEW t \in Tasks, Of(t) \in Backends,
         asker' = [asker EXCEPT ![Of(t)] = Append(@, t)]
  PROVE  /\ asker' \in [Backends -> Seq(Tasks)]
         /\ \A b \in Backends : b # Of(t) => asker'[b] = asker[b]
         /\ Len(asker[Of(t)]) \in Nat
         /\ Len(asker'[Of(t)]) = Len(asker[Of(t)]) + 1
         /\ \A i \in DOMAIN asker'[Of(t)] :
              /\ i \in 1..Len(asker[Of(t)]) + 1
              /\ asker'[Of(t)][i] = IF i = Len(asker[Of(t)]) + 1 THEN t ELSE asker[Of(t)][i]
         /\ asker'[Of(t)] # <<>> /\ Last(asker'[Of(t)]) = t
<1> DEFINE a == asker[Of(t)]
<1>1. asker \in [Backends -> Seq(Tasks)] /\ a \in Seq(Tasks)
  BY DEF TypesOK
<1>2. asker'[Of(t)] = Append(a, t) /\ \A b \in Backends : b # Of(t) => asker'[b] = asker[b]
  BY <1>1
<1> HIDE DEF a
<1>3. /\ Len(a) \in Nat /\ Append(a, t) \in Seq(Tasks) /\ Len(Append(a, t)) = Len(a) + 1
      /\ DOMAIN Append(a, t) = 1..Len(a) + 1
      /\ \A i \in 1..Len(a) + 1 : Append(a, t)[i] = IF i = Len(a) + 1 THEN t ELSE a[i]
  BY <1>1
<1>4. Append(a, t) # <<>> /\ Last(Append(a, t)) = t
  BY <1>3 DEF Last
<1>5. asker' \in [Backends -> Seq(Tasks)]
  BY <1>1, <1>3 DEF a
<1>6. QED
  BY <1>2, <1>3, <1>4, <1>5 DEF a

\* Other calls are where they were.
LEMMA OfStays ==
  ASSUME NEW t \in Tasks, NEW u \in Tasks, u # t, loader' = loader \/ t = Loader
  PROVE  Of(u)' = Of(u)
  BY DEF Of

\* The lock and the newest request, when a call comes.
LEMMA ComesLock ==
  ASSUME TypesOK, LockInv, ReadInv, LoaderInv, NEW t \in Tasks, Comes(t)
  PROVE  LockInv' /\ ReadInv'
<1>1. /\ call'[t].pc = "wait"
      /\ \A u \in Tasks : u # t => call'[u] = call[u]
  BY Become DEF Comes
<1>2. \A u \in Tasks : Of(u)' = Of(u)
  BY DEF Of, Comes
<1>3. Of(t) \in Backends /\ queue \in [Backends -> Seq(Tasks)]
  BY DEF Comes, TypesOK
<1>4. /\ queue'[Of(t)] = Append(queue[Of(t)], t)
      /\ \A b \in Backends : b # Of(t) => queue'[b] = queue[b]
  BY <1>3 DEF Comes
<1>5. /\ Queues(queue'[Of(t)], UnderWay(Of(t)) \cup {t})
      /\ queue[Of(t)] # <<>> => queue'[Of(t)] # <<>> /\ queue'[Of(t)][1] = queue[Of(t)][1]
  <2>1. Queues(queue[Of(t)], UnderWay(Of(t))) /\ t \notin UnderWay(Of(t))
    BY <1>3 DEF LockInv, UnderWay, Comes
  <2>2. QED
    BY <1>4, <2>1, QueueJoined
<1>6. ASSUME NEW b \in Backends
      PROVE  UnderWay(b)' = IF b = Of(t) THEN UnderWay(b) \cup {t} ELSE UnderWay(b)
  BY <1>1, <1>2 DEF UnderWay, Doing, Comes
<1>7. LockInv'
  <2> SUFFICES ASSUME NEW b \in Backends
               PROVE  Queues(queue'[b], UnderWay(b)')
    BY DEF LockInv, Queues
  <2>1. QED
    BY <1>4, <1>5, <1>6 DEF LockInv
<1>8. ASSUME NEW u \in Tasks, Doing(u, "read")'
      PROVE  Holds(u)' /\ Newest(u)'
  <2>1. u # t /\ Doing(u, "read")
    BY <1>1, <1>8 DEF Doing
  <2>2. Holds(u) /\ Newest(u) /\ Of(u) \in Backends
    BY <2>1, OfTyped DEF ReadInv, Doing
  <2>3. Holds(u)'
    BY <1>2, <1>4, <1>5, <2>2 DEF Holds
  <2>4. Newest(u)'
    BY <1>1, <1>2, <2>1, <2>2 DEF Newest, Comes
  <2>5. QED
    BY <2>3, <2>4
<1>9. QED
  BY <1>7, <1>8 DEF ReadInv

\* The same, when one writes its request: only who has the lock does.
LEMMA AsksLock ==
  ASSUME TypesOK, LockInv, ReadInv, LoaderInv, NEW t \in Tasks, Asks(t)
  PROVE  LockInv' /\ ReadInv'
<1>1. /\ call'[t].pc = "read" /\ call'[t].id = Len(asker[Of(t)]) + 1
      /\ \A u \in Tasks : u # t => call'[u] = call[u]
  <2>1. Of(t) \in Backends
    BY OfTyped DEF Asks, Doing
  <2>2. Len(asker[Of(t)]) + 1 \in Nat
    BY <2>1, LenProperties DEF TypesOK
  <2>3. QED
    BY <2>2, Become DEF Asks
<1>2. \A u \in Tasks : Of(u)' = Of(u)
  BY DEF Of, Asks
<1>3. Of(t) \in Backends
  BY OfTyped DEF Asks, Doing
<1>4. UnderWay(Of(t))' = UnderWay(Of(t)) /\ \A b \in Backends : UnderWay(b)' = UnderWay(b)
  BY <1>1, <1>2 DEF UnderWay, Doing, Asks
<1>5. LockInv'
  BY <1>4 DEF LockInv, Queues, Asks
<1>6. ASSUME NEW u \in Tasks, Doing(u, "read")'
      PROVE  Holds(u)' /\ Newest(u)'
  <2>1. CASE u = t
    <3>1. Holds(t)'
      BY <1>2 DEF Asks, Holds
    <3>2. Newest(t)'
      BY <1>1, <1>2, <1>3, OneMore DEF Asks, Newest
    <3>3. QED
      BY <2>1, <3>1, <3>2
  <2>2. CASE u # t
    <3>1. Doing(u, "read")
      BY <1>1, <1>6, <2>2 DEF Doing
    <3>2. Holds(u) /\ Newest(u) /\ Of(u) \in Backends
      BY <3>1, OfTyped DEF ReadInv, Doing
    <3>3. Of(u) # Of(t)
      BY <2>2, <3>2 DEF Asks, Holds
    <3>4. asker'[Of(u)] = asker[Of(u)]
      BY <1>3, <3>2, <3>3, OneMore DEF Asks
    <3>5. QED
      BY <1>1, <1>2, <2>2, <3>2, <3>4 DEF Asks, Holds, Newest
  <2>3. QED
    BY <2>1, <2>2
<1>7. QED
  BY <1>5, <1>6 DEF ReadInv

\* The same, when one ends or is cancelled.
LEMMA GoesLock ==
  ASSUME TypesOK, LockInv, ReadInv, LoaderInv, NEW t \in Tasks, Goes(t)
  PROVE  LockInv' /\ ReadInv'
<1>1. /\ call'[t].pc = "idle"
      /\ \A u \in Tasks : u # t => call'[u] = call[u]
  BY Become DEF Goes
<1>2. \A u \in Tasks : u # t => Of(u)' = Of(u)
  BY DEF Of, Goes
<1>3. Of(t) \in Backends
  BY OfTyped DEF Goes
<1>4. /\ \A b \in Backends : b # Of(t) => queue'[b] = queue[b]
      /\ Queues(queue'[Of(t)], UnderWay(Of(t)) \ {t})
      /\ Head(queue[Of(t)]) # t =>
           queue'[Of(t)] # <<>> /\ Head(queue'[Of(t)]) = Head(queue[Of(t)])
  BY LeavesLock DEF Goes
<1>5. ASSUME NEW b \in Backends
      PROVE  UnderWay(b)' = IF b = Of(t) THEN UnderWay(b) \ {t} ELSE UnderWay(b)
  BY <1>1, <1>2 DEF UnderWay, Doing
<1>6. LockInv'
  <2> SUFFICES ASSUME NEW b \in Backends
               PROVE  Queues(queue'[b], UnderWay(b)')
    BY DEF LockInv, Queues
  <2>1. QED
    BY <1>4, <1>5 DEF LockInv
<1>7. ASSUME NEW u \in Tasks, Doing(u, "read")'
      PROVE  Holds(u)' /\ Newest(u)'
  <2>1. u # t /\ Doing(u, "read")
    BY <1>1, <1>7 DEF Doing
  <2>2. Holds(u) /\ Newest(u) /\ Of(u) \in Backends /\ Of(u)' = Of(u)
    BY <1>2, <2>1, OfTyped DEF ReadInv, Doing
  <2>3. queue'[Of(u)] # <<>> /\ Head(queue'[Of(u)]) = u
    BY <1>4, <2>1, <2>2 DEF Holds
  <2>4. asker'[Of(u)] = asker[Of(u)]
    <3>1. CASE asker' = asker
      BY <3>1
    <3>2. CASE Holds(t) /\ asker' = [asker EXCEPT ![Of(t)] = Append(@, t)]
      <4>1. Of(u) # Of(t)
        BY <2>1, <2>2, <3>2 DEF Holds
      <4>2. QED
        BY <1>3, <2>2, <3>2, <4>1, OneMore
    <3>3. QED
      BY <3>1, <3>2 DEF Goes
  <2>5. QED
    BY <1>1, <2>1, <2>2, <2>3, <2>4 DEF Holds, Newest
<1>8. QED
  BY <1>6, <1>7 DEF ReadInv

\* The same, when no call moves.
LEMMA QuietLock ==
  ASSUME TypesOK, LockInv, ReadInv, LoaderInv, Quiet
  PROVE  LockInv' /\ ReadInv'
<1>1. \A u \in Tasks : Doing(u, "idle") \/ Of(u)' = Of(u)
  BY DEF Of, Quiet
<1>2. \A b \in Backends : UnderWay(b)' = UnderWay(b)
  BY <1>1 DEF UnderWay, Doing, Quiet
<1>3. LockInv'
  BY <1>2 DEF LockInv, Queues, Quiet
<1>4. ASSUME NEW u \in Tasks, Doing(u, "read")'
      PROVE  Holds(u)' /\ Newest(u)'
  <2>1. Doing(u, "read") /\ Of(u)' = Of(u)
    BY <1>1, <1>4 DEF Doing, Quiet
  <2>2. QED
    BY <2>1 DEF ReadInv, Holds, Newest, Quiet
<1>5. QED
  BY <1>3, <1>4 DEF ReadInv

-----------------------------------------------------------------------------
(* Steps *)

\* A step that leaves calls, requests and locks alone, and may move the loader on.
LoaderMoves ==
  \/ StartAll \/ StopAll
  \/ \E i \in DOMAIN Order :
       \/ Spawn(i) \/ SpawnFails(i)
       \/ StopNothing(i) \/ Terminate(i) \/ StopRaises(i) \/ Stopped(i)

ServerMoves == \E b \in Backends :
  ServerAnswers(b) \/ ServerNotifies(b) \/ ServerLogs(b) \/ ServerDies(b)

\* A call that raises without another change.
BreaksOff(t) == ReadBreaks(t) \/ Cancel(t)

\* The steps of Next, by what they do to a call.
LEMMA StepCases ==
  ASSUME [Next]_vars
  PROVE  \/ \E t \in Tasks : \/ /\ Enter(t)
                                /\ t = Loader => loader.pc \in Handshaking
                                /\ t # Loader => inited[Uses[t]]
                             \/ Write(t) \/ ReadAnswer(t) \/ ReadOther(t) \/ CallFails(t)
                             \/ BreaksOff(t)
         \/ LoaderMoves \/ ServerMoves \/ UNCHANGED vars
<1>1. CASE \E c \in Callers : Execute(c)
  BY <1>1, StdioAssumption DEF Execute, Tasks
<1>2. CASE Handshake
  BY <1>2 DEF Handshake, Handshaking, Tasks
<1>3. QED
  BY <1>1, <1>2 DEF Next, CallStep, LoaderStep, LoaderMoves, ServerMoves, BreaksOff

\* A call that comes to the line of its backend.
LEMMA EnterComes ==
  ASSUME TypesOK, LoaderInv, NEW t \in Tasks, Enter(t),
         t = Loader => loader.pc \in Handshaking
  PROVE  Comes(t)
<1>1. Of(t) \in Backends
  <2>1. CASE t = Loader
    BY <2>1 DEF TypesOK, Of, Backends
  <2>2. CASE t # Loader
    BY <2>2, OfTyped
  <2>3. QED
    BY <2>1, <2>2
<1>2. QED
  BY <1>1 DEF Enter, Comes

\* A call that ends, its request made before or just now.
LEMMA EndsGoes ==
  ASSUME TypesOK, LoaderInv, NEW t \in Tasks, NEW ok \in BOOLEAN, ~Doing(t, "idle"),
         Ends(t, ok),
         \/ asker' = asker
         \/ Holds(t) /\ asker' = [asker EXCEPT ![Of(t)] = Append(@, t)]
  PROVE  Goes(t)
  BY DEF Ends, Goes

\* A call that fails, its request made or not.
LEMMA CallFailsGoes ==
  ASSUME TypesOK, LoaderInv, NEW t \in Tasks, CallFails(t)
  PROVE  Goes(t)
<1>1. ~Doing(t, "idle") /\ Holds(t)
  BY DEF CallFails, Doing
<1>2. CASE Doing(t, "wait")
  BY <1>1, <1>2, EndsGoes DEF CallFails
<1>3. CASE ~Doing(t, "wait")
  <2>1. asker' = asker
    BY <1>3 DEF CallFails, TypesOK
  <2>2. QED
    BY <1>1, <2>1, EndsGoes DEF CallFails
<1>4. QED
  BY <1>2, <1>3

\* One that breaks off: its request was made before or never is.
LEMMA BreaksOffEnds ==
  ASSUME NEW t \in Tasks, BreaksOff(t)
  PROVE  ~Doing(t, "idle") /\ Ends(t, FALSE) /\ UNCHANGED <<proc, asker, results>>
  BY DEF BreaksOff, ReadBreaks, Cancel, Doing

\* In every step a call comes, asks or goes, or nothing happens to any.
LEMMA Moves ==
  ASSUME TypesOK, LoaderInv, [Next]_vars
  PROVE  (\E t \in Tasks : Comes(t) \/ Asks(t) \/ Goes(t)) \/ Quiet
<1>1. ASSUME NEW t \in Tasks, Enter(t), t = Loader => loader.pc \in Handshaking
      PROVE  Comes(t)
  BY <1>1, EnterComes
<1>2. ASSUME NEW t \in Tasks, Write(t)
      PROVE  Asks(t)
  BY <1>2 DEF Write, Asks
<1>3. ASSUME NEW t \in Tasks, ReadAnswer(t)
      PROVE  Goes(t)
  BY <1>3, EndsGoes DEF ReadAnswer, Doing
<1>4. ASSUME NEW t \in Tasks, ReadOther(t)
      PROVE  Quiet
  BY <1>4 DEF ReadOther, Quiet
<1>5. ASSUME NEW t \in Tasks, BreaksOff(t)
      PROVE  Goes(t)
  BY <1>5, BreaksOffEnds, EndsGoes
<1>6. CASE LoaderMoves
  <2>1. loader.pc \notin Handshaking
    BY <1>6 DEF LoaderMoves, StartAll, StopAll, Spawn, SpawnFails, StopNothing,
                Terminate, StopRaises, Stopped, LoaderAt, Handshaking
  <2>2. UNCHANGED <<queue, asker, call>>
    BY <1>6 DEF LoaderMoves, StartAll, StopAll, Spawn, SpawnFails, StopNothing,
                Terminate, StopRaises, Stopped
  <2>3. QED
    BY <2>1, <2>2 DEF LoaderInv, Quiet
<1>7. CASE ServerMoves
  BY <1>7 DEF ServerMoves, ServerAnswers, ServerNotifies, ServerLogs, ServerDies, Quiet
<1>8. CASE UNCHANGED vars
  BY <1>8 DEF vars, Quiet
<1>9. QED
  BY <1>1, <1>2, <1>3, <1>4, <1>5, <1>6, <1>7, <1>8, CallFailsGoes, StepCases

\* The types of what calls change.
LEMMA MovesTyped ==
  ASSUME TypesOK, LockInv, LoaderInv, [Next]_vars
  PROVE  /\ queue' \in [Backends -> Seq(Tasks)]
         /\ asker' \in [Backends -> Seq(Tasks)]
         /\ call' \in [Tasks -> CallState]
<1>1. ASSUME NEW t \in Tasks, Comes(t)
      PROVE  /\ queue' \in [Backends -> Seq(Tasks)]
             /\ asker' \in [Backends -> Seq(Tasks)]
             /\ call' \in [Tasks -> CallState]
  <2>1. call' \in [Tasks -> CallState]
    BY <1>1, Become DEF Comes
  <2>2. /\ queue' = [queue EXCEPT ![Of(t)] = Append(queue[Of(t)], t)]
        /\ asker' = asker /\ Of(t) \in Backends
    BY <1>1 DEF Comes
  <2>3. queue \in [Backends -> Seq(Tasks)] /\ asker \in [Backends -> Seq(Tasks)]
    BY DEF TypesOK
  <2>4. Append(queue[Of(t)], t) \in Seq(Tasks)
    BY <2>2, <2>3
  <2>5. QED
    BY <2>1, <2>2, <2>3, <2>4
<1>2. ASSUME NEW t \in Tasks, Asks(t)
      PROVE  /\ queue' \in [Backends -> Seq(Tasks)]
             /\ asker' \in [Backends -> Seq(Tasks)]
             /\ call' \in [Tasks -> CallState]
  <2>1. Of(t) \in Backends
    BY <1>2, OfTyped DEF Asks, Doing
  <2>2. asker' \in [Backends -> Seq(Tasks)] /\ Len(asker[Of(t)]) \in Nat
    BY <1>2, <2>1, OneMore DEF Asks
  <2>3. call' \in [Tasks -> CallState]
    BY <1>2, <2>2, Become DEF Asks
  <2>4. QED
    BY <1>2, <2>2, <2>3 DEF Asks, TypesOK
<1>3. ASSUME NEW t \in Tasks, Goes(t)
      PROVE  /\ queue' \in [Backends -> Seq(Tasks)]
             /\ asker' \in [Backends -> Seq(Tasks)]
             /\ call' \in [Tasks -> CallState]
  <2>1. Of(t) \in Backends
    BY <1>3, OfTyped DEF Goes
  <2>2. queue' \in [Backends -> Seq(Tasks)]
    BY <1>3, LeavesLock DEF Goes
  <2>3. call' \in [Tasks -> CallState]
    BY <1>3, Become DEF Goes
  <2>4. asker' \in [Backends -> Seq(Tasks)]
    <3>1. CASE asker' = asker
      BY <3>1 DEF TypesOK
    <3>2. CASE asker' = [asker EXCEPT ![Of(t)] = Append(@, t)]
      BY <2>1, <3>2, OneMore
    <3>3. QED
      BY <1>3, <3>1, <3>2 DEF Goes
  <2>5. QED
    BY <2>2, <2>3, <2>4
<1>4. CASE Quiet
  BY <1>4 DEF Quiet, TypesOK
<1>5. QED
  BY <1>1, <1>2, <1>3, <1>4, Moves

\* What the end of a call does to the loader.
LEMMA EndCases ==
  ASSUME TypesOK, LoaderInv, NEW t \in Tasks, NEW ok \in BOOLEAN, ~Doing(t, "idle"),
         Ends(t, ok)
  PROVE  \/ t # Loader /\ UNCHANGED <<inited, loader>>
         \/ /\ t = Loader /\ loader.pc \in Handshaking /\ loader.at \in DOMAIN Order
            /\ \/ LoaderGoes("failed", loader.at) /\ UNCHANGED inited
               \/ /\ loader.pc = "initialize" /\ LoaderGoes("list", loader.at)
                  /\ UNCHANGED inited /\ ok
               \/ /\ loader.pc = "list" /\ LoaderGoes("start", loader.at + 1)
                  /\ inited' = [inited EXCEPT ![Order[loader.at]] = TRUE] /\ ok
<1>1. CASE t # Loader
  BY <1>1 DEF Ends
<1>2. CASE t = Loader
  <2>1. loader.pc \in Handshaking /\ loader.at \in DOMAIN Order
    BY <1>2 DEF LoaderInv, TypesOK
  <2>2. LoaderOn(ok)
    BY <1>2 DEF Ends
  <2>3. QED
    BY <1>2, <2>1, <2>2 DEF LoaderOn
<1>3. QED
  BY <1>1, <1>2

\* What the loader is after a step of it.
LEMMA Loaded ==
  ASSUME TypesOK, NEW p \in Places, NEW i \in 1..Len(Order) + 1, LoaderGoes(p, i)
  PROVE  /\ loader' \in [pc : Places, at : 1..Len(Order) + 1]
         /\ loader'.pc = p /\ loader'.at = i
  BY DEF LoaderGoes

\* Places of the order.
LEMMA OrderPlaces ==
  /\ Len(Order) \in Nat /\ DOMAIN Order = 1..Len(Order)
  /\ \A i \in DOMAIN Order : i \in Nat /\ i \in 1..Len(Order) + 1 /\ i + 1 \in 1..Len(Order) + 1
  /\ \A i \in DOMAIN Order : Order[i] \in Backends
  /\ \A i, j \in DOMAIN Order : Order[i] = Order[j] => i = j
<1>1. Len(Order) \in Nat /\ DOMAIN Order = 1..Len(Order)
  BY StdioAssumption, LenProperties
<1>2. QED
  BY <1>1, StdioAssumption DEF Backends

\* What the steps of the loader alone do to it and to the processes.
LEMMA LoaderCases ==
  ASSUME TypesOK, LoaderMoves
  PROVE  \/ loader.pc = "loaded" /\ LoaderGoes("start", 1) /\ UNCHANGED <<proc, inited>>
         \/ /\ loader.pc \in {"failed", "start"} /\ LoaderGoes("stop", 1)
            /\ UNCHANGED <<proc, inited>>
         \/ /\ loader.at \in DOMAIN Order /\ loader.pc = "start"
            /\ LoaderGoes("initialize", loader.at)
            /\ proc' = [proc EXCEPT ![Order[loader.at]] = "running"] /\ UNCHANGED inited
         \/ /\ loader.at \in DOMAIN Order /\ loader.pc = "start"
            /\ LoaderGoes("failed", loader.at) /\ UNCHANGED <<proc, inited>>
         \/ /\ loader.at \in DOMAIN Order /\ loader.pc = "wait"
            /\ LoaderGoes("raised", loader.at) /\ UNCHANGED <<proc, inited>>
         \/ /\ loader.at \in DOMAIN Order /\ loader.pc = "stop"
            /\ \/ LoaderGoes("stop", loader.at + 1) /\ proc[Order[loader.at]] = "none"
               \/ LoaderGoes("wait", loader.at) \/ LoaderGoes("raised", loader.at)
            /\ UNCHANGED <<proc, inited>>
         \/ /\ loader.at \in DOMAIN Order /\ loader.pc = "wait"
            /\ LoaderGoes("stop", loader.at + 1)
            /\ proc' = [proc EXCEPT ![Order[loader.at]] = "none"]
            /\ inited' = [inited EXCEPT ![Order[loader.at]] = FALSE]
<1>1. \A p, i : LoaderAt(p, i) => loader.pc = p /\ loader.at = i
  BY DEF LoaderAt
<1>2. CASE StartAll \/ StopAll
  BY <1>1, <1>2 DEF StartAll, StopAll
<1>3. ASSUME NEW i \in DOMAIN Order, Spawn(i)
      PROVE  /\ loader.at = i /\ loader.pc = "start" /\ LoaderGoes("initialize", i)
             /\ proc' = [proc EXCEPT ![Order[i]] = "running"] /\ UNCHANGED inited
  BY <1>1, <1>3 DEF Spawn
<1>4. ASSUME NEW i \in DOMAIN Order, StopNothing(i) \/ Terminate(i) \/ StopRaises(i)
      PROVE  /\ loader.at = i /\ UNCHANGED <<proc, inited>>
             /\ \/ /\ loader.pc = "stop"
                   /\ \/ LoaderGoes("stop", i + 1) /\ proc[Order[i]] = "none"
                      \/ LoaderGoes("wait", i) \/ LoaderGoes("raised", i)
                \/ loader.pc = "wait" /\ LoaderGoes("raised", i)
  BY <1>1, <1>4 DEF StopNothing, Terminate, StopRaises, NoProc
<1>5. ASSUME NEW i \in DOMAIN Order, Stopped(i)
      PROVE  /\ loader.at = i /\ loader.pc = "wait" /\ LoaderGoes("stop", i + 1)
             /\ proc' = [proc EXCEPT ![Order[i]] = "none"]
             /\ inited' = [inited EXCEPT ![Order[i]] = FALSE]
  BY <1>1, <1>5 DEF Stopped
<1>6. ASSUME NEW i \in DOMAIN Order, SpawnFails(i)
      PROVE  /\ loader.at = i /\ loader.pc = "start" /\ LoaderGoes("failed", i)
             /\ UNCHANGED <<proc, inited>>
  BY <1>1, <1>6 DEF SpawnFails
<1>7. QED
  BY <1>2, <1>3, <1>4, <1>5, <1>6 DEF LoaderMoves

\* The variables keep their types.
LEMMA TypesKept ==
  ASSUME TypesOK, LockInv, LoaderInv, [Next]_vars
  PROVE  TypesOK'
<1>1. /\ queue' \in [Backends -> Seq(Tasks)]
      /\ asker' \in [Backends -> Seq(Tasks)]
      /\ call' \in [Tasks -> CallState]
  BY MovesTyped
<1> DEFINE Kept == /\ proc' \in [Backends -> {"none", "running", "dead"}]
                   /\ inited' \in [Backends -> BOOLEAN]
                   /\ loader' \in [pc : Places, at : 1..Len(Order) + 1]
                   /\ loader'.pc \in Handshaking \cup {"wait"} => loader'.at \in DOMAIN Order
           Lines == /\ inbox' \in [Backends -> SUBSET Nat]
                    /\ pipe' \in [Backends -> Seq(Nat)]
                    /\ blocked' \subseteq Backends
                    /\ results' \subseteq Result
<1>2. ASSUME UNCHANGED <<proc, inited, loader>>
      PROVE  Kept
  BY <1>2 DEF TypesOK
<1>3. ASSUME UNCHANGED <<inbox, pipe, blocked, results>>
      PROVE  Lines
  BY <1>3 DEF TypesOK
<1>4. ASSUME NEW t \in Tasks, NEW ok \in BOOLEAN, ~Doing(t, "idle"), Ends(t, ok),
             UNCHANGED proc
      PROVE  Kept
  <2>1. CASE UNCHANGED <<inited, loader>>
    BY <1>2, <1>4, <2>1
  <2>2. CASE loader.at \in DOMAIN Order /\ LoaderGoes("failed", loader.at) /\ UNCHANGED inited
    BY <1>4, <2>2, Loaded, OrderPlaces DEF TypesOK, Places, Handshaking
  <2>3. CASE loader.at \in DOMAIN Order /\ LoaderGoes("list", loader.at) /\ UNCHANGED inited
    BY <1>4, <2>3, Loaded, OrderPlaces DEF TypesOK, Places
  <2>4. CASE /\ loader.at \in DOMAIN Order /\ LoaderGoes("start", loader.at + 1)
             /\ inited' = [inited EXCEPT ![Order[loader.at]] = TRUE]
    <3>1. inited' \in [Backends -> BOOLEAN]
      BY <2>4 DEF TypesOK
    <3>2. QED
      BY <1>4, <2>4, <3>1, Loaded, OrderPlaces DEF TypesOK, Places, Handshaking
  <2>5. QED
    BY <1>4, <2>1, <2>2, <2>3, <2>4, EndCases
<1>5. CASE LoaderMoves
  <2>1. UNCHANGED <<inbox, pipe, blocked, results>>
    BY <1>5 DEF LoaderMoves, StartAll, StopAll, Spawn, SpawnFails, StopNothing,
                Terminate, StopRaises, Stopped, server
  <2>2. /\ proc' \in [Backends -> {"none", "running", "dead"}]
        /\ inited' \in [Backends -> BOOLEAN]
    BY <1>5, LoaderCases DEF TypesOK
  <2>3. \E p \in Places, i \in 1..Len(Order) + 1 :
          LoaderGoes(p, i) /\ (p \in Handshaking \cup {"wait"} => i \in DOMAIN Order)
    BY <1>5, LoaderCases, OrderPlaces DEF Places, Handshaking
  <2>4. Kept
    BY <2>2, <2>3, Loaded
  <2>5. QED
    BY <1>1, <1>3, <2>1, <2>4 DEF TypesOK
<1>6. ASSUME NEW t \in Tasks, Enter(t) \/ Write(t)
      PROVE  TypesOK'
  <2>1. Kept
    BY <1>2, <1>6 DEF Enter, Write
  <2>2. inbox' \in [Backends -> SUBSET Nat]
    <3>1. CASE Enter(t)
      BY <3>1 DEF Enter, server, TypesOK
    <3>2. CASE Write(t)
      <4>1. Of(t) \in Backends
        BY <3>2, OfTyped DEF Write, Doing
      <4>2. Len(asker[Of(t)]) + 1 \in Nat
        BY <4>1, LenProperties DEF TypesOK
      <4>3. inbox' = [inbox EXCEPT ![Of(t)] = @ \cup {Len(asker[Of(t)]) + 1}]
        BY <3>2 DEF Write
      <4>4. QED
        BY <4>1, <4>2, <4>3 DEF TypesOK
    <3>3. QED
      BY <1>6, <3>1, <3>2
  <2>3. UNCHANGED <<pipe, blocked, results>>
    BY <1>6 DEF Enter, Write, server
  <2>4. QED
    BY <1>1, <2>1, <2>2, <2>3 DEF TypesOK
<1>7. ASSUME NEW t \in Tasks, ReadAnswer(t) \/ ReadOther(t)
      PROVE  TypesOK'
  <2>1. ~Doing(t, "idle") /\ Of(t) \in Backends
    BY <1>7, OfTyped DEF ReadAnswer, ReadOther, Doing
  <2>2. pipe[Of(t)] \in Seq(Nat) /\ pipe[Of(t)] # <<>>
    BY <1>7, <2>1 DEF TypesOK, ReadAnswer, ReadOther
  <2>3. Tail(pipe[Of(t)]) \in Seq(Nat) /\ Head(pipe[Of(t)]) \in Nat /\ call[t].id \in Nat
    BY <2>2 DEF TypesOK, CallState
  <2>4. pipe' = [pipe EXCEPT ![Of(t)] = Tail(@)]
    BY <1>7 DEF ReadAnswer, ReadOther
  <2>5. pipe' \in [Backends -> Seq(Nat)]
    BY <2>1, <2>3, <2>4 DEF TypesOK
  <2>6. results' \subseteq Result
    <3> DEFINE r == [of |-> Of(t), by |-> t, asked |-> call[t].id, got |-> Head(pipe[Of(t)])]
    <3>1. r \in Result
      BY <2>1, <2>3 DEF Result
    <3>2. results' = results \/ results' = results \cup {r}
      BY <1>7 DEF ReadAnswer, ReadOther
    <3> HIDE DEF r
    <3>3. QED
      BY <3>1, <3>2 DEF TypesOK
  <2>7. inbox' \in [Backends -> SUBSET Nat] /\ blocked' \subseteq Backends
    BY <1>7 DEF TypesOK, ReadAnswer, ReadOther
  <2>8. Kept
    <3>1. CASE ReadAnswer(t)
      BY <1>4, <2>1, <3>1 DEF ReadAnswer
    <3>2. CASE ReadOther(t)
      BY <1>2, <3>2 DEF ReadOther
    <3>3. QED
      BY <1>7, <3>1, <3>2
  <2>9. QED
    BY <1>1, <2>5, <2>6, <2>7, <2>8 DEF TypesOK
<1>8. ASSUME NEW t \in Tasks, CallFails(t)
      PROVE  TypesOK'
  <2>1. Kept
    BY <1>4, <1>8 DEF CallFails, Doing
  <2>2. Lines
    BY <1>3, <1>8 DEF CallFails, server
  <2>3. QED
    BY <1>1, <2>1, <2>2 DEF TypesOK
<1>9. ASSUME NEW t \in Tasks, BreaksOff(t)
      PROVE  TypesOK'
  <2>1. /\ ~Doing(t, "idle") /\ Ends(t, FALSE) /\ UNCHANGED <<proc, asker, results>>
        /\ Of(t) \in Backends
    BY <1>9, BreaksOffEnds, OfTyped
  <2>2. Kept
    BY <1>4, <2>1
  <2>3. UNCHANGED <<inbox, blocked>>
    BY <1>9 DEF BreaksOff, ReadBreaks, Cancel, server
  <2>4. pipe' \in [Backends -> Seq(Nat)]
    <3>1. CASE ReadBreaks(t)
      <4>1. /\ pipe[Of(t)] \in Seq(Nat) /\ pipe[Of(t)] # <<>>
            /\ pipe' = [pipe EXCEPT ![Of(t)] = Tail(@)]
        BY <2>1, <3>1 DEF ReadBreaks, TypesOK
      <4>2. Tail(pipe[Of(t)]) \in Seq(Nat)
        BY <4>1
      <4>3. QED
        BY <4>1, <4>2 DEF TypesOK
    <3>2. CASE Cancel(t)
      BY <3>2 DEF Cancel, server, TypesOK
    <3>3. QED
      BY <1>9, <3>1, <3>2 DEF BreaksOff
  <2>5. QED
    BY <1>1, <2>1, <2>2, <2>3, <2>4 DEF TypesOK
<1>10. CASE ServerMoves
  <2>1. PICK b \in Backends :
          ServerAnswers(b) \/ ServerNotifies(b) \/ ServerLogs(b) \/ ServerDies(b)
    BY <1>10 DEF ServerMoves
  <2>2. Kept
    <3>1. proc' \in [Backends -> {"none", "running", "dead"}]
      BY <2>1 DEF TypesOK, ServerAnswers, ServerNotifies, ServerLogs, ServerDies
    <3>2. UNCHANGED <<inited, loader>>
      BY <2>1 DEF ServerAnswers, ServerNotifies, ServerLogs, ServerDies
    <3>3. QED
      BY <3>1, <3>2 DEF TypesOK
  <2>3. pipe' \in [Backends -> Seq(Nat)]
    <3>1. CASE ServerAnswers(b)
      <4>1. PICK id \in inbox[b] : pipe' = [pipe EXCEPT ![b] = Append(@, id)]
        BY <3>1 DEF ServerAnswers
      <4>2. id \in Nat /\ pipe[b] \in Seq(Nat)
        BY DEF TypesOK
      <4>3. Append(pipe[b], id) \in Seq(Nat)
        BY <4>2
      <4>4. QED
        BY <4>1, <4>3 DEF TypesOK
    <3>2. CASE ServerNotifies(b)
      BY <3>2 DEF ServerNotifies, TypesOK, Noise
    <3>3. CASE ServerLogs(b) \/ ServerDies(b)
      BY <3>3 DEF ServerLogs, ServerDies, TypesOK
    <3>4. QED
      BY <2>1, <3>1, <3>2, <3>3
  <2>4. /\ inbox' \in [Backends -> SUBSET Nat] /\ blocked' \subseteq Backends
        /\ results' \subseteq Result
    <3>1. inbox' \in [Backends -> SUBSET Nat]
      <4>1. CASE ServerAnswers(b)
        BY <4>1 DEF TypesOK, ServerAnswers
      <4>2. CASE ServerNotifies(b) \/ ServerLogs(b)
        BY <4>2 DEF TypesOK, ServerNotifies, ServerLogs
      <4>3. CASE ServerDies(b)
        BY <4>3 DEF TypesOK, ServerDies
      <4>4. QED
        BY <2>1, <4>1, <4>2, <4>3
    <3>2. blocked' \subseteq Backends
      BY <2>1 DEF TypesOK, ServerAnswers, ServerNotifies, ServerLogs, ServerDies
    <3>3. results' = results
      BY <2>1 DEF ServerAnswers, ServerNotifies, ServerLogs, ServerDies
    <3>4. QED
      BY <3>1, <3>2, <3>3 DEF TypesOK
  <2>5. QED
    BY <1>1, <2>2, <2>3, <2>4 DEF TypesOK
<1>11. CASE UNCHANGED vars
  BY <1>1, <1>2, <1>3, <1>11 DEF TypesOK, vars
<1>12. QED
  BY <1>5, <1>6, <1>7, <1>8, <1>9, <1>10, <1>11, StepCases

-----------------------------------------------------------------------------
(* start_all and stop_all *)

\* The loader calls only while it starts a backend; what has no process is not
\* initialised; what stop_all has passed has no process.
LEMMA LoaderKept ==
  ASSUME TypesOK, LoaderInv, [Next]_vars
  PROVE  LoaderInv'
<1>1. ASSUME UNCHANGED <<loader, inited>>, Doing(Loader, "idle") => Doing(Loader, "idle")' \/ loader.pc \in Handshaking,
             \A b \in Backends : proc'[b] = "none" <=> proc[b] = "none"
      PROVE  LoaderInv'
  <2>1. loader.pc \in Handshaking => Order[loader.at] \in Backends
    BY OrderPlaces DEF TypesOK
  <2>2. QED
    BY <1>1, <2>1, OrderPlaces DEF LoaderInv
<1>2. ASSUME NEW t \in Tasks, NEW ok \in BOOLEAN, ~Doing(t, "idle"), Ends(t, ok),
             UNCHANGED proc
      PROVE  LoaderInv'
  <2>1. /\ call'[t].pc = "idle"
        /\ \A u \in Tasks : u # t => call'[u] = call[u]
    BY <1>2, Become DEF Ends
  <2>2. CASE t # Loader /\ UNCHANGED <<inited, loader>>
    BY <1>1, <1>2, <2>1, <2>2 DEF Doing, Tasks
  <2>3. CASE t = Loader /\ loader.pc \in Handshaking /\ loader.at \in DOMAIN Order
    <3>1. Doing(Loader, "idle")'
      BY <2>1, <2>3 DEF Doing
    <3>2. proc[Order[loader.at]] # "none" /\ \A b \in Backends : proc[b] = "none" => ~inited[b]
      BY <2>3 DEF LoaderInv
    <3>3. CASE LoaderGoes("failed", loader.at) /\ UNCHANGED inited
      BY <1>2, <3>1, <3>2, <3>3 DEF LoaderInv, LoaderGoes, Handshaking
    <3>4. CASE LoaderGoes("list", loader.at) /\ UNCHANGED inited
      BY <1>2, <3>1, <3>2, <3>4 DEF LoaderInv, LoaderGoes, Handshaking
    <3>5. CASE /\ LoaderGoes("start", loader.at + 1)
               /\ inited' = [inited EXCEPT ![Order[loader.at]] = TRUE]
      <4>1. loader'.pc = "start"
        BY <3>5 DEF LoaderGoes
      <4>2. \A b \in Backends : b # Order[loader.at] => inited'[b] = inited[b]
        BY <3>5 DEF TypesOK
      <4>3. \A b \in Backends : proc'[b] = "none" => ~inited'[b]
        BY <1>2, <3>2, <4>2
      <4>4. QED
        BY <3>1, <4>1, <4>3 DEF LoaderInv, Handshaking
    <3>6. QED
      BY <1>2, <2>3, <3>3, <3>4, <3>5, EndCases
  <2>4. QED
    BY <1>2, <2>2, <2>3, EndCases
<1>3. CASE LoaderMoves
  <2>1. loader.pc \notin Handshaking
    BY <1>3, LoaderCases DEF Handshaking
  <2>2. Doing(Loader, "idle")'
    BY <1>3, <2>1 DEF LoaderInv, LoaderMoves, StartAll, StopAll, Spawn, SpawnFails,
                      StopNothing, Terminate, StopRaises, Stopped, Doing
  <2>3. CASE UNCHANGED <<proc, inited>> /\ \E p \in {"start", "failed"}, i \in Nat : LoaderGoes(p, i)
    BY <2>2, <2>3 DEF LoaderInv, LoaderGoes, Handshaking
  <2>4. CASE UNCHANGED <<proc, inited>> /\ LoaderGoes("stop", 1)
    BY <2>2, <2>4, OrderPlaces DEF LoaderInv, LoaderGoes, Handshaking
  <2>5. CASE /\ loader.at \in DOMAIN Order /\ loader.pc = "start"
             /\ LoaderGoes("initialize", loader.at)
             /\ proc' = [proc EXCEPT ![Order[loader.at]] = "running"] /\ UNCHANGED inited
    <3>1. /\ proc'[Order[loader.at]] = "running"
          /\ \A b \in Backends : b # Order[loader.at] => proc'[b] = proc[b]
      BY <2>5, OrderPlaces DEF TypesOK
    <3>2. loader'.pc = "initialize" /\ loader'.at = loader.at
      BY <2>5 DEF LoaderGoes
    <3>3. \A b \in Backends : proc'[b] = "none" => ~inited'[b]
      BY <2>5, <3>1 DEF LoaderInv
    <3>4. QED
      BY <2>2, <3>1, <3>2, <3>3 DEF LoaderInv, Handshaking
  <2>6. CASE /\ loader.at \in DOMAIN Order /\ loader.pc \in {"stop", "wait"}
             /\ UNCHANGED <<proc, inited>>
             /\ \/ LoaderGoes("stop", loader.at + 1) /\ proc[Order[loader.at]] = "none"
                \/ LoaderGoes("wait", loader.at) \/ LoaderGoes("raised", loader.at)
    <3>1. ASSUME NEW j \in DOMAIN Order, j < loader'.at
          PROVE  proc'[Order[j]] = "none"
      <4>1. j < loader.at \/ (j = loader.at /\ proc[Order[loader.at]] = "none")
        BY <2>6, <3>1, OrderPlaces DEF LoaderGoes
      <4>2. QED
        BY <2>6, <4>1 DEF LoaderInv
    <3>2. loader'.pc \in {"stop", "wait", "raised"}
      BY <2>6 DEF LoaderGoes
    <3>3. QED
      BY <2>2, <2>6, <3>1, <3>2 DEF LoaderInv, Handshaking
  <2>7. CASE /\ loader.at \in DOMAIN Order /\ loader.pc = "wait"
             /\ LoaderGoes("stop", loader.at + 1)
             /\ proc' = [proc EXCEPT ![Order[loader.at]] = "none"]
             /\ inited' = [inited EXCEPT ![Order[loader.at]] = FALSE]
    <3>1. /\ proc'[Order[loader.at]] = "none" /\ inited'[Order[loader.at]] = FALSE
          /\ \A b \in Backends : b # Order[loader.at] => proc'[b] = proc[b] /\ inited'[b] = inited[b]
      BY <2>7, OrderPlaces DEF TypesOK
    <3>2. \A b \in Backends : proc'[b] = "none" => ~inited'[b]
      BY <3>1 DEF LoaderInv
    <3>3. loader'.pc = "stop" /\ loader'.at = loader.at + 1
      BY <2>7 DEF LoaderGoes
    <3>4. ASSUME NEW j \in DOMAIN Order, j < loader'.at
          PROVE  proc'[Order[j]] = "none"
      <4>1. j < loader.at \/ j = loader.at
        BY <2>7, <3>3, <3>4, OrderPlaces
      <4>2. j < loader.at => proc[Order[j]] = "none"
        BY <2>7 DEF LoaderInv
      <4>3. QED
        BY <3>1, <4>1, <4>2, OrderPlaces
    <3>5. QED
      BY <2>2, <3>2, <3>3, <3>4 DEF LoaderInv, Handshaking
  <2>8. QED
    <3>1. loader.at \in Nat
      BY OrderPlaces DEF TypesOK
    <3>2. loader.pc = "loaded" \/ loader.pc # "loaded"
      OBVIOUS
    <3>3. QED
      BY <1>3, <2>3, <2>4, <2>5, <2>6, <2>7, <3>1, LoaderCases
<1>4. ASSUME NEW t \in Tasks, Enter(t), t = Loader => loader.pc \in Handshaking
      PROVE  LoaderInv'
  <2>1. \A u \in Tasks : u # t => call'[u] = call[u]
    BY <1>4, Become DEF Enter
  <2>2. UNCHANGED <<loader, inited, proc>>
    BY <1>4 DEF Enter
  <2>3. Doing(Loader, "idle") => Doing(Loader, "idle")' \/ loader.pc \in Handshaking
    BY <1>4, <2>1 DEF Doing, Tasks
  <2>4. QED
    BY <1>1, <2>2, <2>3
<1>5. ASSUME NEW t \in Tasks, Write(t)
      PROVE  LoaderInv'
  <2>1. UNCHANGED <<loader, inited, proc>>
    BY <1>5 DEF Write
  <2>2. call' = [call EXCEPT ![t] = [pc |-> "read", id |-> Len(asker[Of(t)]) + 1]] /\ call[t].pc = "wait"
    BY <1>5 DEF Write, Becomes, Doing
  <2>3. Doing(Loader, "idle") => Doing(Loader, "idle")'
    BY <2>2 DEF Doing, TypesOK
  <2>4. QED
    BY <1>1, <2>1, <2>3
<1>6. ASSUME NEW t \in Tasks, ReadAnswer(t) \/ CallFails(t) \/ BreaksOff(t)
      PROVE  LoaderInv'
  BY <1>2, <1>6, BreaksOffEnds DEF ReadAnswer, CallFails, Doing
<1>7. ASSUME NEW t \in Tasks, ReadOther(t)
      PROVE  LoaderInv'
  BY <1>1, <1>7 DEF ReadOther, Doing
<1>8. CASE ServerMoves
  <2>1. UNCHANGED <<loader, inited, call>>
    BY <1>8 DEF ServerMoves, ServerAnswers, ServerNotifies, ServerLogs, ServerDies
  <2>2. \A b \in Backends : proc'[b] = "none" <=> proc[b] = "none"
    BY <1>8 DEF ServerMoves, ServerAnswers, ServerNotifies, ServerLogs, ServerDies, TypesOK
  <2>3. QED
    BY <1>1, <2>1, <2>2 DEF Doing
<1>9. CASE UNCHANGED vars
  BY <1>1, <1>9 DEF vars, Doing
<1>10. QED
  BY <1>3, <1>4, <1>5, <1>6, <1>7, <1>8, <1>9, StepCases

-----------------------------------------------------------------------------
(* The handshake *)

\* The request of a caller comes after the loader's two, those of the loader are
\* the first two, and what start_all has yet to start is asked nothing.
LEMMA RequestInOrder ==
  ASSUME TypesOK, LoaderInv, AskedInv, HandshakeFirst,
         NEW t \in Tasks, Doing(t, "wait"),
         asker' = [asker EXCEPT ![Of(t)] = Append(@, t)]
  PROVE  /\ HandshakeFirst'
         /\ \A b \in Backends : /\ Len(asker[b]) \in Nat /\ Len(asker'[b]) \in Nat
                                /\ Len(asker'[b]) >= Len(asker[b])
         /\ \A j \in DOMAIN Order : Untouched(j) => asker'[Order[j]] = <<>>
         /\ loader.pc \in Handshaking =>
              Len(asker'[Order[loader.at]]) =
                Len(asker[Order[loader.at]]) + (IF t = Loader THEN 1 ELSE 0)
<1>1. ~Doing(t, "idle") /\ ~Doing(t, "read")
  BY DEF Doing
<1>2. Of(t) \in Backends
  BY <1>1, OfTyped
<1> DEFINE n == Len(asker[Of(t)])
<1>3. /\ asker' \in [Backends -> Seq(Tasks)]
      /\ \A b \in Backends : b # Of(t) => asker'[b] = asker[b]
      /\ n \in Nat /\ Len(asker'[Of(t)]) = n + 1
      /\ \A i \in DOMAIN asker'[Of(t)] :
           /\ i \in 1..n + 1
           /\ asker'[Of(t)][i] = IF i = n + 1 THEN t ELSE asker[Of(t)][i]
  BY <1>2, OneMore
<1>4. DOMAIN asker[Of(t)] = 1..n
  BY <1>2, LenProperties DEF TypesOK
<1> HIDE DEF n
<1>5. CASE t = Loader
  <2>1. loader.pc \in Handshaking /\ loader.at \in DOMAIN Order /\ Of(t) = Order[loader.at]
    BY <1>1, <1>5 DEF LoaderInv, TypesOK, Of
  <2>2. n \in {0, 1}
    <3>1. n = Asked
      BY <2>1 DEF AskedInv, n
    <3>2. Asked \in {0, 1}
      BY <1>1, <1>5 DEF Asked
    <3>3. QED
      BY <3>1, <3>2
  <2>3. \A j \in DOMAIN Order : Untouched(j) => Order[j] # Of(t)
    BY <2>1, OrderPlaces DEF Untouched
  <2>4. \A i \in DOMAIN asker'[Of(t)] : (asker'[Of(t)][i] = Loader) <=> i <= 2
    BY <1>2, <1>3, <1>4, <1>5, <2>2 DEF HandshakeFirst
  <2>5. QED
    BY <1>2, <1>3, <1>5, <2>1, <2>3, <2>4, OrderPlaces, LenProperties
       DEF HandshakeFirst, AskedInv, TypesOK, n
<1>6. CASE t # Loader
  <2>1. t \in Callers /\ Of(t) = Uses[t]
    BY <1>6 DEF Tasks, Of
  <2>2. n >= 2
    BY <1>1, <2>1 DEF AskedInv, n
  <2>3. \A j \in DOMAIN Order : Ahead(j) => Order[j] # Of(t)
    BY <1>1, <2>1 DEF AskedInv
  <2>4. \A i \in DOMAIN asker'[Of(t)] : (asker'[Of(t)][i] = Loader) <=> i <= 2
    BY <1>2, <1>3, <1>4, <1>6, <2>2 DEF HandshakeFirst
  <2>5. loader.pc \in Handshaking => Ahead(loader.at) /\ loader.at \in DOMAIN Order
    BY OrderPlaces DEF Ahead, Starting, TypesOK
  <2>6. \A b \in Backends : Len(asker[b]) \in Nat /\ Len(asker'[b]) \in Nat
    BY <1>3, LenProperties DEF TypesOK
  <2>7. loader.pc \in Handshaking => asker'[Order[loader.at]] = asker[Order[loader.at]]
    BY <1>3, <2>3, <2>5, OrderPlaces
  <2>8. loader.pc \in Handshaking => Len(asker[Order[loader.at]]) \in Nat
    BY <2>5, <2>6, OrderPlaces
  <2>9. \A j \in DOMAIN Order : Untouched(j) => asker'[Order[j]] = <<>>
    BY <1>3, <2>3, OrderPlaces DEF AskedInv, Untouched
  <2>10. HandshakeFirst'
    BY <1>3, <2>4 DEF HandshakeFirst
  <2>11. \A b \in Backends : Len(asker'[b]) >= Len(asker[b])
    BY <1>3, <2>6 DEF n
  <2>12. loader.pc \in Handshaking =>
           Len(asker'[Order[loader.at]]) = Len(asker[Order[loader.at]]) + 0
    <3> SUFFICES ASSUME loader.pc \in Handshaking
                 PROVE  Len(asker'[Order[loader.at]]) = Len(asker[Order[loader.at]]) + 0
      OBVIOUS
    <3>1. \A k \in Nat : k = k + 0
      OBVIOUS
    <3>2. QED
      BY <2>7, <2>8, <3>1, Zenon
  <2>13. QED
    BY <1>6, <2>6, <2>9, <2>10, <2>11, <2>12
<1>7. QED
  BY <1>5, <1>6

\* A step that leaves the requests and the loader as they are keeps AskedInv if the
\* calls that are new use a backend that is initialised.
LEMMA AskedSame ==
  ASSUME TypesOK, AskedInv, HandshakeFirst, UNCHANGED <<asker, loader, inited>>,
         Doing(Loader, "read")' <=> Doing(Loader, "read"),
         \A c \in Callers : ~Doing(c, "idle")' => ~Doing(c, "idle") \/ inited[Uses[c]]
  PROVE  AskedInv' /\ HandshakeFirst'
<1>1. HandshakeFirst'
  BY DEF HandshakeFirst
<1>2. \A j \in DOMAIN Order : (Ahead(j)' <=> Ahead(j)) /\ (Untouched(j)' <=> Untouched(j))
  BY DEF Ahead, Untouched
<1>3. \A c \in Callers : ~Doing(c, "idle")' => Len(asker[Uses[c]]) >= 2
  BY StdioAssumption DEF AskedInv
<1>4. \A j \in DOMAIN Order : Ahead(j) =>
        ~inited[Order[j]] /\ \A c \in Callers : Uses[c] = Order[j] => Doing(c, "idle")'
  BY DEF AskedInv
<1>5. Asked' = Asked
  BY DEF Asked
<1>6. QED
  BY <1>1, <1>2, <1>3, <1>4, <1>5 DEF AskedInv

\* The end of a call, its request made in this step or not.
LEMMA AskedEnds ==
  ASSUME TypesOK, LoaderInv, AskedInv, HandshakeFirst,
         NEW t \in Tasks, NEW ok \in BOOLEAN, ~Doing(t, "idle"), Ends(t, ok),
         ok => Doing(t, "read") /\ asker' = asker,
         \/ asker' = asker
         \/ Doing(t, "wait") /\ asker' = [asker EXCEPT ![Of(t)] = Append(@, t)]
  PROVE  AskedInv' /\ HandshakeFirst'
<1>1. /\ call'[t].pc = "idle"
      /\ \A u \in Tasks : u # t => call'[u] = call[u]
  BY Become DEF Ends
<1>2. /\ HandshakeFirst'
      /\ \A b \in Backends : /\ Len(asker[b]) \in Nat /\ Len(asker'[b]) \in Nat
                             /\ Len(asker'[b]) >= Len(asker[b])
      /\ \A j \in DOMAIN Order : Untouched(j) => asker'[Order[j]] = <<>>
      /\ loader.pc \in Handshaking /\ t # Loader =>
           Len(asker'[Order[loader.at]]) = Len(asker[Order[loader.at]])
  <2>1. CASE asker' = asker
    BY <2>1, LenProperties DEF HandshakeFirst, AskedInv, TypesOK
  <2>2. CASE Doing(t, "wait") /\ asker' = [asker EXCEPT ![Of(t)] = Append(@, t)]
    <3>1. loader.pc \in Handshaking => Order[loader.at] \in Backends
      BY OrderPlaces DEF TypesOK
    <3>2. t # Loader => (IF t = Loader THEN 1 ELSE 0) = 0
      OBVIOUS
    <3>3. /\ HandshakeFirst'
          /\ \A b \in Backends : /\ Len(asker[b]) \in Nat /\ Len(asker'[b]) \in Nat
                                 /\ Len(asker'[b]) >= Len(asker[b])
          /\ \A j \in DOMAIN Order : Untouched(j) => asker'[Order[j]] = <<>>
          /\ loader.pc \in Handshaking =>
               Len(asker'[Order[loader.at]]) =
                 Len(asker[Order[loader.at]]) + (IF t = Loader THEN 1 ELSE 0)
      BY <2>2, RequestInOrder
    <3>4. loader.pc \in Handshaking /\ t # Loader =>
            Len(asker'[Order[loader.at]]) = Len(asker[Order[loader.at]])
      BY <3>1, <3>2, <3>3
    <3>5. QED
      BY <3>3, <3>4
  <2>3. QED
    BY <2>1, <2>2
<1>3. \A c \in Callers : ~Doing(c, "idle")' => ~Doing(c, "idle") /\ Len(asker'[Uses[c]]) >= 2
  <2> SUFFICES ASSUME NEW c \in Callers, ~Doing(c, "idle")'
               PROVE  ~Doing(c, "idle") /\ Len(asker'[Uses[c]]) >= 2
    OBVIOUS
  <2>1. c # t /\ ~Doing(c, "idle") /\ Uses[c] \in Backends
    BY <1>1, StdioAssumption DEF Doing, Tasks
  <2>2. Len(asker[Uses[c]]) >= 2
    BY <2>1 DEF AskedInv
  <2>3. QED
    BY <1>2, <2>1, <2>2
<1>4. CASE t # Loader /\ UNCHANGED <<inited, loader>>
  <2>1. \A j \in DOMAIN Order : (Ahead(j)' <=> Ahead(j)) /\ (Untouched(j)' <=> Untouched(j))
    BY <1>4 DEF Ahead, Untouched
  <2>2. Asked' = Asked
    BY <1>1, <1>4 DEF Asked, Doing, Tasks
  <2>3. \A b \in Backends : inited'[b] => Len(asker'[b]) >= 2
    <3>1. \A b \in Backends : inited[b] => Len(asker[b]) >= 2
      BY DEF AskedInv
    <3>2. QED
      BY <1>2, <1>4, <3>1
  <2>4. \A j \in DOMAIN Order : Ahead(j)' =>
          ~inited'[Order[j]] /\ \A c \in Callers : Uses[c] = Order[j] => Doing(c, "idle")'
    BY <1>3, <1>4, <2>1 DEF AskedInv
  <2>5. loader'.pc \in Handshaking => Len(asker'[Order[loader'.at]]) = Asked'
    BY <1>2, <1>4, <2>2 DEF AskedInv
  <2>6. QED
    BY <1>2, <1>3, <2>1, <2>3, <2>4, <2>5 DEF AskedInv
<1>5. CASE t = Loader /\ loader.pc \in Handshaking /\ loader.at \in DOMAIN Order
  <2>1. \A b \in Backends : inited[b] => Len(asker'[b]) >= 2
    <3>1. \A b \in Backends : inited[b] => Len(asker[b]) >= 2
      BY DEF AskedInv
    <3>2. QED
      BY <1>2, <3>1
  <2>2. \A j \in DOMAIN Order : Ahead(j) =>
          ~inited[Order[j]] /\ \A c \in Callers : Uses[c] = Order[j] => Doing(c, "idle")'
    BY <1>3 DEF AskedInv
  <2>3. CASE LoaderGoes("failed", loader.at) /\ UNCHANGED inited
    <3>1. loader'.pc = "failed"
      BY <2>3 DEF LoaderGoes
    <3>2. QED
      BY <1>2, <1>3, <2>1, <2>3, <3>1
         DEF AskedInv, Ahead, Untouched, Starting, Handshaking
  <2>4. CASE /\ loader.pc = "initialize" /\ LoaderGoes("list", loader.at)
             /\ UNCHANGED inited /\ ok
    <3>1. loader'.pc = "list" /\ loader'.at = loader.at
      BY <2>4 DEF LoaderGoes
    <3>2. \A j \in DOMAIN Order : (Ahead(j)' <=> Ahead(j)) /\ (Untouched(j)' <=> Untouched(j))
      BY <2>4, <3>1 DEF Ahead, Untouched, Starting, Handshaking
    <3>3. Len(asker[Order[loader.at]]) = 1
      BY <1>5, <2>4 DEF AskedInv, Asked
    <3>4. Len(asker'[Order[loader'.at]]) = Asked'
      <4>1. ~Doing(Loader, "read")'
        BY <1>1, <1>5 DEF Doing
      <4>2. Asked' = 1
        BY <3>1, <4>1 DEF Asked
      <4>3. QED
        BY <2>4, <3>1, <3>3, <4>2
    <3>5. \A j \in DOMAIN Order : Untouched(j)' => asker'[Order[j]] = <<>>
      BY <1>2, <3>2
    <3>6. \A j \in DOMAIN Order : Ahead(j)' =>
            ~inited'[Order[j]] /\ \A c \in Callers : Uses[c] = Order[j] => Doing(c, "idle")'
      BY <2>2, <2>4, <3>2
    <3>7. \A b \in Backends : inited'[b] => Len(asker'[b]) >= 2
      BY <2>1, <2>4
    <3>8. QED
      BY <1>2, <1>3, <3>4, <3>5, <3>6, <3>7 DEF AskedInv
  <2>5. CASE /\ loader.pc = "list" /\ LoaderGoes("start", loader.at + 1)
             /\ inited' = [inited EXCEPT ![Order[loader.at]] = TRUE] /\ ok
    <3>1. loader'.pc = "start" /\ loader'.at = loader.at + 1
      BY <2>5 DEF LoaderGoes
    <3>2. \A j \in DOMAIN Order : Ahead(j)' => Ahead(j) /\ j > loader.at
      BY <1>5, <2>5, <3>1, OrderPlaces DEF Ahead, Starting, Handshaking
    <3>3. \A j \in DOMAIN Order : Ahead(j)' => Untouched(j) /\ Order[j] # Order[loader.at]
      BY <1>5, <3>2, OrderPlaces DEF Untouched
    <3>4. \A b \in Backends : b # Order[loader.at] => inited'[b] = inited[b]
      BY <2>5 DEF TypesOK
    <3>5. Len(asker'[Order[loader.at]]) = 2
      BY <1>5, <2>5 DEF AskedInv, Asked
    <3>6. \A b \in Backends : inited'[b] => Len(asker'[b]) >= 2
      <4> SUFFICES ASSUME NEW b \in Backends, inited'[b]
                   PROVE  Len(asker'[b]) >= 2
        OBVIOUS
      <4>1. CASE b = Order[loader.at]
        <5>1. Len(asker'[b]) = 2
          BY <3>5, <4>1
        <5>2. QED
          BY <5>1
      <4>2. CASE b # Order[loader.at]
        BY <2>1, <3>4, <4>2
      <4>3. QED
        BY <4>1, <4>2
    <3>7. \A j \in DOMAIN Order : Ahead(j)' =>
            ~inited'[Order[j]] /\ \A c \in Callers : Uses[c] = Order[j] => Doing(c, "idle")'
      BY <2>2, <3>2, <3>3, <3>4, OrderPlaces
    <3>8. \A j \in DOMAIN Order : Untouched(j)' => asker'[Order[j]] = <<>>
      BY <1>2, <3>3 DEF Untouched
    <3>9. QED
      BY <1>2, <1>3, <3>1, <3>6, <3>7, <3>8 DEF AskedInv, Handshaking
  <2>6. QED
    BY <1>5, <2>3, <2>4, <2>5, EndCases
<1>6. QED
  BY <1>4, <1>5, EndCases

\* The steps of the loader on its own.
LEMMA AskedLoader ==
  ASSUME TypesOK, LoaderInv, AskedInv, HandshakeFirst, LoaderMoves
  PROVE  AskedInv' /\ HandshakeFirst'
<1>1. UNCHANGED <<asker, call>>
  BY DEF LoaderMoves, StartAll, StopAll, Spawn, SpawnFails, StopNothing, Terminate,
         StopRaises, Stopped
<1>2. ~Doing(Loader, "read")
  BY LoaderCases DEF LoaderInv, Doing, Handshaking
<1>3. HandshakeFirst'
  BY <1>1 DEF HandshakeFirst
<1>4. \A c \in Callers : Doing(c, "idle")' <=> Doing(c, "idle")
  BY <1>1 DEF Doing
<1>5. ASSUME loader'.pc \notin Starting, \A b \in Backends : inited'[b] => inited[b]
      PROVE  AskedInv'
  BY <1>1, <1>4, <1>5 DEF AskedInv, Ahead, Untouched, Starting
<1>6. CASE loader.pc = "loaded" /\ LoaderGoes("start", 1) /\ UNCHANGED <<proc, inited>>
  <2>1. loader'.pc = "start" /\ loader'.at = 1 /\ loader.at = 1
    BY <1>6 DEF LoaderGoes, LoaderInv
  <2>2. \A j \in DOMAIN Order : (Ahead(j)' <=> Ahead(j)) /\ (Untouched(j)' <=> Untouched(j))
    BY <1>6, <2>1 DEF Ahead, Untouched, Starting, Handshaking
  <2>3. AskedInv'
    BY <1>1, <1>4, <1>6, <2>1, <2>2 DEF AskedInv, Handshaking
  <2>4. QED
    BY <1>3, <2>3
<1>7. CASE /\ loader.at \in DOMAIN Order /\ loader.pc = "start"
           /\ LoaderGoes("initialize", loader.at)
           /\ proc' = [proc EXCEPT ![Order[loader.at]] = "running"] /\ UNCHANGED inited
  <2>1. loader'.pc = "initialize" /\ loader'.at = loader.at
    BY <1>7 DEF LoaderGoes
  <2>2. \A j \in DOMAIN Order : (Ahead(j)' <=> Ahead(j)) /\ (Untouched(j)' => Untouched(j))
    BY <1>7, <2>1 DEF Ahead, Untouched, Starting, Handshaking
  <2>3. Untouched(loader.at)
    BY <1>7, OrderPlaces DEF Untouched, Ahead, Starting, Handshaking
  <2>4. asker'[Order[loader'.at]] = <<>>
    BY <1>1, <1>7, <2>1, <2>3 DEF AskedInv
  <2>5. Len(asker'[Order[loader'.at]]) = Asked'
    BY <1>1, <1>2, <2>1, <2>4 DEF Asked, Doing
  <2>6. AskedInv'
    BY <1>1, <1>4, <1>7, <2>2, <2>5 DEF AskedInv
  <2>7. QED
    BY <1>3, <2>6
<1>8. CASE /\ loader.pc # "loaded"
           /\ ~(loader.pc = "start" /\ LoaderGoes("initialize", loader.at))
  <2>1. loader'.pc \notin Starting
    BY <1>8, LoaderCases DEF LoaderGoes, Starting, Handshaking
  <2>2. \A b \in Backends : inited'[b] => inited[b]
    BY LoaderCases DEF TypesOK
  <2>3. QED
    BY <1>3, <1>5, <2>1, <2>2
<1>9. QED
  BY <1>6, <1>7, <1>8, LoaderCases DEF LoaderGoes

\* The handshake is first, whatever the step.
LEMMA AskedKept ==
  ASSUME TypesOK, LoaderInv, AskedInv, HandshakeFirst, [Next]_vars
  PROVE  AskedInv' /\ HandshakeFirst'
<1>1. ASSUME NEW t \in Tasks, Enter(t), t # Loader => inited[Uses[t]]
      PROVE  AskedInv' /\ HandshakeFirst'
  <2>1. /\ call'[t].pc = "wait" /\ call[t].pc = "idle"
        /\ \A u \in Tasks : u # t => call'[u] = call[u]
    BY <1>1, Become DEF Enter, Doing
  <2>2. UNCHANGED <<asker, loader, inited>>
    BY <1>1 DEF Enter
  <2>3. Doing(Loader, "read")' <=> Doing(Loader, "read")
    BY <2>1 DEF Doing, Tasks
  <2>4. \A c \in Callers : ~Doing(c, "idle")' => ~Doing(c, "idle") \/ inited[Uses[c]]
    BY <1>1, <2>1, StdioAssumption DEF Doing, Tasks
  <2>5. QED
    BY <2>2, <2>3, <2>4, AskedSame
<1>2. ASSUME NEW t \in Tasks, Write(t)
      PROVE  AskedInv' /\ HandshakeFirst'
  <2>1. /\ Doing(t, "wait") /\ asker' = [asker EXCEPT ![Of(t)] = Append(@, t)]
        /\ UNCHANGED <<loader, inited>>
    BY <1>2 DEF Write
  <2>2. /\ HandshakeFirst'
        /\ \A b \in Backends : /\ Len(asker[b]) \in Nat /\ Len(asker'[b]) \in Nat
                               /\ Len(asker'[b]) >= Len(asker[b])
        /\ \A j \in DOMAIN Order : Untouched(j) => asker'[Order[j]] = <<>>
        /\ loader.pc \in Handshaking =>
             Len(asker'[Order[loader.at]]) =
               Len(asker[Order[loader.at]]) + (IF t = Loader THEN 1 ELSE 0)
    BY <2>1, RequestInOrder
  <2>3. call' = [call EXCEPT ![t] = [pc |-> "read", id |-> Len(asker[Of(t)]) + 1]]
    BY <1>2 DEF Write, Becomes
  <2>4. /\ call'[t].pc = "read" /\ call[t].pc = "wait"
        /\ \A u \in Tasks : u # t => call'[u] = call[u]
    BY <2>1, <2>3 DEF Doing, TypesOK
  <2>5. \A c \in Callers : Doing(c, "idle")' <=> Doing(c, "idle")
    BY <2>4 DEF Doing, Tasks
  <2>6. \A j \in DOMAIN Order : (Ahead(j)' <=> Ahead(j)) /\ (Untouched(j)' <=> Untouched(j))
    BY <2>1 DEF Ahead, Untouched
  <2>7. Asked' = Asked + (IF t = Loader THEN 1 ELSE 0)
    BY <2>1, <2>4 DEF Asked, Doing, Tasks
  <2>8. loader'.pc \in Handshaking => Len(asker'[Order[loader'.at]]) = Asked'
    BY <2>1, <2>2, <2>7 DEF AskedInv
  <2>9. \A b \in Backends : Len(asker[b]) >= 2 => Len(asker'[b]) >= 2
    BY <2>2
  <2>10. QED
    BY <2>1, <2>2, <2>5, <2>6, <2>8, <2>9, StdioAssumption DEF AskedInv
<1>3. ASSUME NEW t \in Tasks, ReadAnswer(t)
      PROVE  AskedInv' /\ HandshakeFirst'
  BY <1>3, AskedEnds DEF ReadAnswer, Doing
<1>4. ASSUME NEW t \in Tasks, CallFails(t)
      PROVE  AskedInv' /\ HandshakeFirst'
  <2>1. ~Doing(t, "idle")
    BY <1>4 DEF CallFails, Doing
  <2>2. \/ asker' = asker
        \/ Doing(t, "wait") /\ asker' = [asker EXCEPT ![Of(t)] = Append(@, t)]
    BY <1>4 DEF CallFails, TypesOK
  <2>3. Ends(t, FALSE)
    BY <1>4 DEF CallFails
  <2>4. QED
    BY <2>1, <2>2, <2>3, AskedEnds
<1>5. ASSUME NEW t \in Tasks, ReadOther(t)
      PROVE  AskedInv' /\ HandshakeFirst'
  BY <1>5, AskedSame DEF ReadOther, Doing
<1>6. ASSUME NEW t \in Tasks, BreaksOff(t)
      PROVE  AskedInv' /\ HandshakeFirst'
  BY <1>6, BreaksOffEnds, AskedEnds
<1>7. CASE ServerMoves
  <2>1. UNCHANGED <<loader, inited, call, asker>>
    BY <1>7 DEF ServerMoves, ServerAnswers, ServerNotifies, ServerLogs, ServerDies
  <2>2. QED
    BY <2>1, AskedSame DEF Doing
<1>8. CASE UNCHANGED vars
  BY <1>8, AskedSame DEF vars, Doing
<1>9. QED
  BY <1>1, <1>2, <1>3, <1>4, <1>5, <1>6, <1>7, <1>8, AskedLoader, StepCases

-----------------------------------------------------------------------------
(* Theorems *)

\* Nothing is loaded or asked at first.
LEMMA Start == Init => IInv
<1> SUFFICES ASSUME Init
             PROVE  IInv
  OBVIOUS
<1>1. /\ \A t \in Tasks : call[t].pc = "idle"
      /\ loader.pc = "loaded" /\ loader.at = 1
      /\ \A b \in Backends : asker[b] = <<>> /\ queue[b] = <<>> /\ ~inited[b]
  BY DEF Init, Idle
<1>2. TypesOK
  <2>1. call \in [Tasks -> CallState]
    BY DEF Init, Idle, CallState
  <2>2. loader \in [pc : Places, at : 1..Len(Order) + 1]
    BY OrderPlaces DEF Init, Places
  <2>3. loader.pc \notin Handshaking \cup {"wait"}
    BY <1>1 DEF Handshaking
  <2>4. <<>> \in Seq(Tasks) /\ <<>> \in Seq(Nat)
    OBVIOUS
  <2>5. QED
    BY <2>1, <2>2, <2>3, <2>4 DEF Init, TypesOK
<1>3. LockInv
  <2>1. \A b \in Backends : UnderWay(b) = {}
    BY <1>1 DEF UnderWay, Doing
  <2>2. Queues(<<>>, {})
    BY DEF Queues, IsInjective, Range
  <2>3. QED
    BY <1>1, <2>1, <2>2 DEF LockInv
<1>4. ReadInv
  BY <1>1 DEF ReadInv, Doing
<1>5. LoaderInv
  <2>1. Doing(Loader, "idle")
    BY <1>1 DEF Doing, Tasks
  <2>2. QED
    BY <1>1, <2>1 DEF LoaderInv, Handshaking
<1>6. AskedInv
  <2>1. \A c \in Callers : Doing(c, "idle")
    BY <1>1 DEF Doing, Tasks
  <2>2. QED
    BY <1>1, <2>1, OrderPlaces DEF AskedInv, Handshaking
<1>7. HandshakeFirst
  BY <1>1 DEF HandshakeFirst
<1>8. AnswerIsOwn
  BY DEF Init, AnswerIsOwn
<1>9. QED
  BY <1>2, <1>3, <1>4, <1>5, <1>6, <1>7, <1>8 DEF IInv

\* The lock, and whose request is the newest, whatever the step.
LEMMA LockKept ==
  ASSUME TypesOK, LockInv, ReadInv, LoaderInv, [Next]_vars
  PROVE  LockInv' /\ ReadInv'
  BY Moves, ComesLock, AsksLock, GoesLock, QuietLock

\* A call returns the response to its request, which is the newest, and a request
\* keeps its id.
LEMMA AnswerKept ==
  ASSUME TypesOK, ReadInv, LoaderInv, AnswerIsOwn, [Next]_vars
  PROVE  AnswerIsOwn'
<1>1. \A b \in Backends : DOMAIN asker[b] = 1..Len(asker[b]) /\ Len(asker[b]) \in Nat
  BY LenProperties DEF TypesOK
<1>2. \A b \in Backends : \A i \in DOMAIN asker[b] :
        i \in DOMAIN asker'[b] /\ asker'[b][i] = asker[b][i]
  <2>1. CASE asker' = asker
    BY <2>1
  <2>2. ASSUME NEW t \in Tasks, Of(t) \in Backends,
               asker' = [asker EXCEPT ![Of(t)] = Append(@, t)]
        PROVE  \A b \in Backends : \A i \in DOMAIN asker[b] :
                 i \in DOMAIN asker'[b] /\ asker'[b][i] = asker[b][i]
    <3>1. /\ \A b \in Backends : b # Of(t) => asker'[b] = asker[b]
          /\ asker' \in [Backends -> Seq(Tasks)]
          /\ Len(asker'[Of(t)]) = Len(asker[Of(t)]) + 1
          /\ \A i \in DOMAIN asker'[Of(t)] :
               asker'[Of(t)][i] = IF i = Len(asker[Of(t)]) + 1 THEN t ELSE asker[Of(t)][i]
      BY <2>2, OneMore
    <3>2. DOMAIN asker'[Of(t)] = 1..Len(asker[Of(t)]) + 1
      BY <2>2, <3>1, LenProperties
    <3>3. \A i \in DOMAIN asker[Of(t)] :
            i \in DOMAIN asker'[Of(t)] /\ asker'[Of(t)][i] = asker[Of(t)][i]
      BY <1>1, <2>2, <3>1, <3>2
    <3>4. QED
      BY <3>1, <3>3
  <2>3. ASSUME NEW t \in Tasks, ~Doing(t, "idle")
        PROVE  Of(t) \in Backends
    BY <2>3, OfTyped
  <2>4. QED
    BY <2>1, <2>2, <2>3, Moves DEF Comes, Asks, Goes, Quiet, Doing
<1>3. \A r \in results : r.of \in Backends
  BY DEF TypesOK, Result
<1>4. \A r \in results :
        r.got = r.asked /\ r.got \in DOMAIN asker'[r.of] /\ asker'[r.of][r.got] = r.by
  BY <1>2, <1>3 DEF AnswerIsOwn
<1>5. ASSUME results' = results
      PROVE  AnswerIsOwn'
  BY <1>4, <1>5 DEF AnswerIsOwn
<1>6. ASSUME NEW t \in Tasks, ReadAnswer(t)
      PROVE  AnswerIsOwn'
  <2> DEFINE b == Of(t)
             r == [of |-> b, by |-> t, asked |-> call[t].id, got |-> Head(pipe[b])]
  <2>1. results' = results \cup {r}
    BY <1>6 DEF ReadAnswer
  <2>2. Doing(t, "read") /\ Head(pipe[b]) = call[t].id
    BY <1>6 DEF ReadAnswer, Answers
  <2>3. b \in Backends /\ Newest(t)
    BY <2>2, OfTyped DEF ReadInv, Doing
  <2>4. call[t].id \in DOMAIN asker[b] /\ asker[b][call[t].id] = t
    <3>1. asker[b] \in Seq(Tasks) /\ asker[b] # <<>>
      BY <2>3 DEF Newest, TypesOK
    <3>2. Len(asker[b]) # 0
      BY <3>1, EmptySeq
    <3>3. QED
      BY <1>1, <2>3, <3>2 DEF Newest, Last
  <2>5. call[t].id \in DOMAIN asker'[b] /\ asker'[b][call[t].id] = t
    BY <1>2, <2>3, <2>4
  <2>6. r.got = r.asked /\ r.got \in DOMAIN asker'[r.of] /\ asker'[r.of][r.got] = r.by
    BY <2>2, <2>5
  <2> HIDE DEF r
  <2>7. QED
    BY <1>4, <2>1, <2>6 DEF AnswerIsOwn
<1>7. CASE LoaderMoves \/ ServerMoves \/ UNCHANGED vars
  BY <1>5, <1>7 DEF LoaderMoves, StartAll, StopAll, Spawn, SpawnFails, StopNothing,
              Terminate, StopRaises, Stopped, ServerMoves, ServerAnswers, ServerNotifies,
              ServerLogs, ServerDies, vars
<1>8. ASSUME NEW t \in Tasks, Enter(t) \/ Write(t) \/ ReadOther(t) \/ CallFails(t)
      PROVE  AnswerIsOwn'
  BY <1>5, <1>8 DEF Enter, Write, ReadOther, CallFails
<1>9. ASSUME NEW t \in Tasks, BreaksOff(t)
      PROVE  AnswerIsOwn'
  BY <1>5, <1>9, BreaksOffEnds
<1>10. QED
  BY <1>6, <1>7, <1>8, <1>9, StepCases

\* The inductive invariant of the stdio backends (McpStdioBackend, SkillLoader).
THEOREM StdioInvariant == Spec => []IInv
<1>1. Init => IInv
  BY Start
<1>2. IInv /\ [Next]_vars => IInv'
  BY TypesKept, LockKept, LoaderKept, AskedKept, AnswerKept DEF IInv
<1>3. QED
  BY <1>1, <1>2, PTL DEF Spec

\* No call takes the response to another request, whoever was cancelled and in
\* whatever order the server answers (_call).
THEOREM AnswersAreOwn == Spec => []AnswerIsOwn
<1>1. IInv => AnswerIsOwn
  BY DEF IInv
<1>2. QED
  BY <1>1, StdioInvariant, PTL

\* A call that reads is the only one of its backend that does, and what it waits
\* for is the answer to a request which it made itself and nobody overtook (the
\* _call_lock around write and read in _call).
OneReader ==
  \A t \in Tasks : Doing(t, "read") =>
    /\ Newest(t)
    /\ \A u \in Tasks : Doing(u, "read") /\ Of(u) = Of(t) => u = t

THEOREM OneReads == Spec => []OneReader
<1>1. IInv => OneReader
  BY DEF IInv, ReadInv, OneReader, Holds
<1>2. QED
  BY <1>1, StdioInvariant, PTL

\* No tool of a server is called before its initialize and tools/list, which are
\* its first two requests (start, execute).
THEOREM HandshakesComeFirst == Spec => []HandshakeFirst
<1>1. IInv => HandshakeFirst
  BY DEF IInv
<1>2. QED
  BY <1>1, StdioInvariant, PTL

\* What stop_all has gone through has no process and would take no call, be it that it
\* returned or that the stop of a later backend raised, and also after a start that failed
\* halfway (start_all, stop_all, start, stop).
THEOREM NothingOutlivesStopAll == Spec => []StopAllLeavesNothing
<1>1. ASSUME IInv
      PROVE  StopAllLeavesNothing
  <2> SUFFICES ASSUME loader.pc \in {"stop", "wait", "raised"}, NEW i \in 1..loader.at - 1
               PROVE  proc[Order[i]] = "none" /\ ~inited[Order[i]]
    BY DEF StopAllLeavesNothing
  <2>1. loader.at \in 1..Len(Order) + 1
    BY <1>1 DEF IInv, TypesOK
  <2>2. i \in DOMAIN Order /\ i < loader.at
    BY <2>1, OrderPlaces
  <2>3. QED
    BY <1>1, <2>2, OrderPlaces DEF IInv, LoaderInv
<1>2. QED
  BY <1>1, StdioInvariant, PTL
===============================================================================
