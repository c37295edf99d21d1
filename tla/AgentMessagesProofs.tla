------------------------ MODULE AgentMessagesProofs ------------------------
(***************************************************************************)
(* Theorems about the messages of an agent and their LLM calls, for any    *)
(* number of tasks, providers, slots, turns and any cap.                   *)
(***************************************************************************)
EXTENDS AgentMessages, FiniteSetTheorems, SequenceTheorems, TLAPS

USE RouterAssumption, MessagesAssumption

Waiting == {"slot", "http"}
Under == Waiting \cup {"pause"}
Ended == {"returned", "raised", "lost"}

CallState == [pc : {"idle"} \cup Under \cup Ended, provider : Nat, attempt : Nat,
              tried : Seq(Nat), cost : BOOLEAN]

TypesOK ==
  /\ acall \in [Tasks -> CallState]
  /\ charged \in Nat
  /\ turns \in [Tasks -> -1..MaxTurns - 1]
  /\ chat \in [user : Nat, assistant : Nat]
  /\ broken \in Nat

\* The semaphore has each task that waits for the slot or for an answer, once, and
\* a task that waits for an answer in one of the first Slots places.
Queues(q, tasks) == q \in Seq(Tasks) /\ IsInjective(q) /\ Range(q) = tasks
Slotted(q, tasks) == \A i \in DOMAIN q : q[i] \in tasks => i <= Slots
In(pcs) == {t \in Tasks : acall[t].pc \in pcs}
SemInv == Queues(sem, In(Waiting)) /\ Slotted(sem, In({"http"}))

UpTo(n) == [i \in 1..n |-> i]

\* The providers before the one in turn have their error row, and no other.
CallInv(r) ==
  /\ r.pc \in Under \cup {"returned"} =>
       r.provider \in 1..Providers /\ r.tried = UpTo(r.provider - 1)
  /\ r.pc = "returned" => r.cost
  /\ r.pc = "raised" => r.tried = UpTo(Providers)

CallsInv == \A t \in Tasks : CallInv(acall[t])

\* A task has a message while it has a call.
BusyInv == \A t \in Tasks : acall[t].pc = "idle" <=> turns[t] = Idle

\* The calls that the messages in hand may still be charged for.
OwedBy(t) ==
  IF turns[t] = Idle THEN 0
  ELSE IF acall[t].pc \in Under THEN turns[t] + 1 ELSE turns[t]
Owed == {x \in Tasks \X (1..MaxTurns) : x[2] <= OwedBy(x[1])}
Most == Cardinality(Tasks) * MaxTurns

CapInv ==
  Halts =>
    \/ charged + Cardinality(Owed) <= Cap - 1 + Most
    \/ charged = 0 /\ Owed = {}

IInv == TypesOK /\ SemInv /\ CallsInv /\ BusyInv /\ EveryUserRowAnswered /\ CapInv

-----------------------------------------------------------------------------
(* Operators *)

\* RemoveAt takes one place out of a sequence and leaves the others in order.
LEMMA RemoveAtPlaces ==
  ASSUME NEW S, NEW s \in Seq(S), NEW k \in 1..Len(s)
  PROVE  /\ RemoveAt(s, k) \in Seq(S)
         /\ Len(RemoveAt(s, k)) = Len(s) - 1
         /\ \A i \in 1..Len(s) - 1 : RemoveAt(s, k)[i] = IF i < k THEN s[i] ELSE s[i + 1]
<1> DEFINE a == SubSeq(s, 1, k - 1)
           b == SubSeq(s, k + 1, Len(s))
<1>1. Len(s) \in Nat /\ k \in Nat
  BY LenProperties
<1>2. /\ a \in Seq(S) /\ Len(a) = k - 1
      /\ \A i \in 1..k - 1 : a[i] = s[i]
  <2>1. \A i \in 1..k - 1 : s[i] \in S
    BY <1>1, ElementOfSeq
  <2>2. QED
    BY <1>1, <2>1, SubSeqProperties
<1>3. /\ b \in Seq(S) /\ Len(b) = Len(s) - k
      /\ \A i \in 1..Len(s) - k : b[i] = s[k + i]
  <2>1. \A i \in k + 1..Len(s) : s[i] \in S
    BY <1>1, ElementOfSeq
  <2>2. QED
    BY <1>1, <2>1, SubSeqProperties
<1> HIDE DEF a, b
<1>4. /\ a \o b \in Seq(S) /\ Len(a \o b) = Len(s) - 1
      /\ \A i \in 1..Len(s) - 1 : (a \o b)[i] = IF i <= k - 1 THEN a[i] ELSE b[i - (k - 1)]
  <2>1. Len(a) + Len(b) = Len(s) - 1
    BY <1>1, <1>2, <1>3
  <2>2. /\ a \o b \in Seq(S) /\ Len(a \o b) = Len(a) + Len(b)
        /\ \A i \in 1..Len(a) + Len(b) :
             (a \o b)[i] = IF i <= Len(a) THEN a[i] ELSE b[i - Len(a)]
    BY <1>2, <1>3, ConcatProperties
  <2>3. QED
    BY <1>2, <2>1, <2>2
<1>5. ASSUME NEW i \in 1..Len(s) - 1
      PROVE  (a \o b)[i] = IF i < k THEN s[i] ELSE s[i + 1]
  <2>1. CASE i < k
    BY <1>1, <1>2, <1>4, <2>1
  <2>2. CASE ~(i < k)
    <3>1. i - (k - 1) \in 1..Len(s) - k /\ k + (i - (k - 1)) = i + 1
      BY <1>1, <2>2
    <3>2. b[i - (k - 1)] = s[i + 1]
      BY <1>3, <3>1
    <3>3. ~(i <= k - 1)
      BY <1>1, <2>2
    <3>4. QED
      BY <1>4, <2>2, <3>2, <3>3
  <2>3. QED
    BY <2>1, <2>2
<1>6. RemoveAt(s, k) = a \o b
  BY DEF RemoveAt, a, b
<1>7. QED
  BY <1>4, <1>5, <1>6

\* Taking an element out of a sequence without duplicates.
LEMMA RemoveAtElements ==
  ASSUME NEW S, NEW s \in Seq(S), IsInjective(s), NEW k \in DOMAIN s
  PROVE  /\ IsInjective(RemoveAt(s, k))
         /\ Range(RemoveAt(s, k)) = Range(s) \ {s[k]}
<1> DEFINE r == RemoveAt(s, k)
<1>1. Len(s) \in Nat /\ DOMAIN s = 1..Len(s) /\ k \in Nat
  BY LenProperties
<1>2. /\ r \in Seq(S) /\ DOMAIN r = 1..Len(s) - 1
      /\ \A i \in 1..Len(s) - 1 : r[i] = IF i < k THEN s[i] ELSE s[i + 1]
  BY <1>1, RemoveAtPlaces, LenProperties
<1> HIDE DEF r
<1>3. \A i, j \in 1..Len(s) : s[i] = s[j] => i = j
  BY <1>1 DEF IsInjective
<1>4. IsInjective(r)
  <2> SUFFICES ASSUME NEW i \in 1..Len(s) - 1, NEW j \in 1..Len(s) - 1, r[i] = r[j]
               PROVE  i = j
    BY <1>2 DEF IsInjective
  <2> DEFINE at(n) == IF n < k THEN n ELSE n + 1
  <2>1. at(i) \in 1..Len(s) /\ at(j) \in 1..Len(s)
    BY <1>1
  <2>2. s[at(i)] = s[at(j)]
    BY <1>2
  <2>3. at(i) = at(j)
    BY <1>3, <2>1, <2>2
  <2>4. QED
    BY <1>1, <2>3
<1>5. ASSUME NEW i \in DOMAIN r
      PROVE  \E j \in 1..Len(s) : r[i] = s[j] /\ j # k
  <2>1. CASE i < k
    BY <1>1, <1>2, <2>1
  <2>2. CASE i >= k
    BY <1>1, <1>2, <2>2
  <2>3. QED
    BY <1>1, <1>2, <2>1, <2>2
<1>6. ASSUME NEW j \in 1..Len(s), j # k
      PROVE  \E i \in DOMAIN r : r[i] = s[j]
  <2>1. CASE j < k
    BY <1>1, <1>2, <2>1
  <2>2. CASE j > k
    <3>1. j - 1 \in 1..Len(s) - 1 /\ ~(j - 1 < k) /\ (j - 1) + 1 = j
      BY <1>1, <2>2
    <3>2. QED
      BY <1>2, <3>1
  <2>3. QED
    BY <1>1, <1>6, <2>1, <2>2
<1>7. Range(r) = Range(s) \ {s[k]}
  <2>1. ASSUME NEW x \in Range(r)
        PROVE  x \in Range(s) \ {s[k]}
    BY <1>1, <1>3, <1>5, <2>1 DEF Range
  <2>2. ASSUME NEW x \in Range(s) \ {s[k]}
        PROVE  x \in Range(r)
    BY <1>1, <1>6, <2>2 DEF Range
  <2>3. QED
    BY <2>1, <2>2
<1>8. QED
  BY <1>4, <1>7 DEF r

\* Appending what is not there.
LEMMA AppendElements ==
  ASSUME NEW S, NEW s \in Seq(S), IsInjective(s), NEW x \in S, x \notin Range(s)
  PROVE  /\ Append(s, x) \in Seq(S)
         /\ IsInjective(Append(s, x))
         /\ Range(Append(s, x)) = Range(s) \cup {x}
         /\ \A i \in DOMAIN Append(s, x) :
              (i \in DOMAIN s /\ Append(s, x)[i] = s[i]) \/ Append(s, x)[i] = x
<1> DEFINE r == Append(s, x)
<1>1. Len(s) \in Nat /\ DOMAIN s = 1..Len(s)
  BY LenProperties
<1>2. /\ r \in Seq(S) /\ DOMAIN r = 1..Len(s) + 1
      /\ \A i \in 1..Len(s) + 1 : r[i] = IF i = Len(s) + 1 THEN x ELSE s[i]
  BY <1>1
<1> HIDE DEF r
<1>3. \A i \in 1..Len(s) : s[i] # x
  BY <1>1 DEF Range
<1>4. IsInjective(r)
  BY <1>1, <1>2, <1>3 DEF IsInjective
<1>5. Range(r) = Range(s) \cup {x}
  <2>1. ASSUME NEW y \in Range(r)
        PROVE  y \in Range(s) \cup {x}
    BY <1>1, <1>2, <2>1 DEF Range
  <2>2. ASSUME NEW y \in Range(s)
        PROVE  y \in Range(r)
    BY <1>1, <1>2, <2>2 DEF Range
  <2>3. x \in Range(r)
    BY <1>1, <1>2 DEF Range
  <2>4. QED
    BY <2>1, <2>2, <2>3
<1>6. \A i \in DOMAIN r : (i \in DOMAIN s /\ r[i] = s[i]) \/ r[i] = x
  BY <1>1, <1>2
<1>7. QED
  BY <1>2, <1>4, <1>5, <1>6 DEF r

\* One more provider that was tried.
LEMMA UpToNext ==
  ASSUME NEW n \in Nat
  PROVE  UpTo(n) \in Seq(Nat) /\ Append(UpTo(n), n + 1) = UpTo(n + 1)
<1>1. UpTo(n) \in Seq(Nat) /\ Len(UpTo(n)) = n /\ UpTo(n + 1) \in Seq(Nat)
  BY DEF UpTo
<1>2. QED
  BY <1>1 DEF UpTo

\* A task leaves the semaphore, and those behind it move up.
LEMMA Leaves ==
  ASSUME NEW tasks, NEW asking, Queues(sem, tasks), Slotted(sem, asking),
         NEW t \in tasks
  PROVE  Queues(Without(t), tasks \ {t}) /\ Slotted(Without(t), asking \ {t})
<1> DEFINE k == Place(t)
<1>1. k \in DOMAIN sem /\ sem[k] = t
  BY DEF Queues, Range, Place
<1>2. /\ sem \in Seq(Tasks) /\ IsInjective(sem) /\ Range(sem) = tasks
      /\ DOMAIN sem = 1..Len(sem) /\ Len(sem) \in Nat
  BY LenProperties DEF Queues
<1>3. Without(t) = RemoveAt(sem, k)
  BY DEF Without
<1> HIDE DEF k
<1>4. Queues(Without(t), tasks \ {t})
  BY <1>1, <1>2, <1>3, RemoveAtPlaces, RemoveAtElements DEF Queues
<1>5. /\ DOMAIN Without(t) = 1..Len(sem) - 1
      /\ \A i \in 1..Len(sem) - 1 : Without(t)[i] = IF i < k THEN sem[i] ELSE sem[i + 1]
  BY <1>1, <1>2, <1>3, RemoveAtPlaces, LenProperties
<1>6. Slotted(Without(t), asking \ {t})
  BY <1>2, <1>5 DEF Slotted
<1>7. QED
  BY <1>4, <1>6

\* A task joins it, at the end.
LEMMA Joins ==
  ASSUME NEW q, NEW tasks, NEW asking, Queues(q, tasks), Slotted(q, asking),
         NEW t \in Tasks, t \notin tasks, t \notin asking
  PROVE  Queues(Append(q, t), tasks \cup {t}) /\ Slotted(Append(q, t), asking)
  BY AppendElements DEF Queues, Slotted

-----------------------------------------------------------------------------
(* The calls *)

\* A task has a call s, and the semaphore is what the code of LLMRouter makes of it.
Moves(t, s) ==
  /\ acall' = [acall EXCEPT ![t] = s]
  /\ CASE s.pc = "slot" ->
            sem' = Append(IF acall[t].pc \in Waiting THEN Without(t) ELSE sem, t)
       [] s.pc = "http" -> HasSlot(t) /\ acall[t].pc = "slot" /\ sem' = sem
       [] OTHER -> sem' = IF acall[t].pc \in Waiting THEN Without(t) ELSE sem

\* Such a call, and the calls of the others.
LEMMA MovesOne ==
  ASSUME TypesOK, NEW t \in Tasks, NEW s \in CallState, Moves(t, s)
  PROVE  /\ acall' \in [Tasks -> CallState] /\ acall'[t] = s
         /\ \A u \in Tasks : u # t => acall'[u] = acall[u]
  BY DEF TypesOK, Moves

\* The semaphore keeps up with the calls.
LEMMA MovesSem ==
  ASSUME TypesOK, SemInv, NEW t \in Tasks, NEW s \in CallState, Moves(t, s)
  PROVE  SemInv'
<1>1. /\ acall'[t] = s
      /\ \A u \in Tasks : u # t => acall'[u] = acall[u]
  BY MovesOne
<1> DEFINE w == In(Waiting)
           h == In({"http"})
           q == IF acall[t].pc \in Waiting THEN Without(t) ELSE sem
<1>2. Queues(q, w \ {t}) /\ Slotted(q, h \ {t})
  <2>1. CASE acall[t].pc \in Waiting
    <3>1. t \in w
      BY <2>1 DEF In
    <3>2. QED
      BY <2>1, <3>1, Leaves DEF SemInv
  <2>2. CASE acall[t].pc \notin Waiting
    <3>1. w \ {t} = w /\ h \ {t} = h
      BY <2>2 DEF In, Waiting
    <3>2. QED
      BY <2>2, <3>1 DEF SemInv
  <2>3. QED
    BY <2>1, <2>2
<1>3. /\ In(Waiting)' = IF s.pc \in Waiting THEN (w \ {t}) \cup {t} ELSE w \ {t}
      /\ In({"http"})' = IF s.pc = "http" THEN (h \ {t}) \cup {t} ELSE h \ {t}
  BY <1>1 DEF In
<1>4. CASE s.pc = "slot"
  <2>1. sem' = Append(q, t)
    BY <1>4 DEF Moves
  <2> HIDE DEF q, w, h
  <2>2. /\ Queues(Append(q, t), (w \ {t}) \cup {t})
        /\ Slotted(Append(q, t), h \ {t})
    BY <1>2, Joins
  <2>3. In(Waiting)' = (w \ {t}) \cup {t} /\ In({"http"})' = h \ {t}
    BY <1>3, <1>4 DEF Waiting
  <2>4. Queues(sem', In(Waiting)') /\ Slotted(sem', In({"http"})')
    BY <2>1, <2>2, <2>3
  <2>5. QED
    BY <2>4 DEF SemInv, Queues, Slotted
<1>5. CASE s.pc = "http"
  <2>1. HasSlot(t) /\ acall[t].pc = "slot" /\ sem' = sem
    BY <1>5 DEF Moves
  <2>2. In(Waiting)' = w /\ In({"http"})' = h \cup {t}
    BY <1>3, <1>5, <2>1 DEF In, Waiting
  <2>3. Slotted(sem, h \cup {t})
    <3>1. SUFFICES ASSUME NEW i \in DOMAIN sem, sem[i] = t
                   PROVE  i <= Slots
      BY DEF SemInv, Slotted
    <3>2. Place(t) = i
      BY <3>1 DEF Place, SemInv, Queues, IsInjective
    <3>3. QED
      BY <2>1, <3>2 DEF HasSlot
  <2>4. QED
    BY <2>1, <2>2, <2>3 DEF SemInv
<1>6. CASE s.pc \notin Waiting
  <2>1. sem' = q
    BY <1>6 DEF Moves, Waiting
  <2> HIDE DEF q, w, h
  <2>2. QED
    BY <1>2, <1>3, <1>6, <2>1 DEF SemInv, Waiting
<1>7. QED
  BY <1>4, <1>5, <1>6 DEF Waiting

\* The records that calls become are such records, and what their fields are.
LEMMA Records ==
  /\ NoCall \in CallState /\ NoCall.pc = "idle"
  /\ NewCall \in CallState /\ NewCall.pc = "slot" /\ CallInv(NewCall) /\ CallInv(NoCall)
<1>1. <<>> \in Seq(Nat)
  OBVIOUS
<1>2. NoCall \in CallState /\ NoCall.pc = "idle" /\ NoCall.tried = <<>>
  BY <1>1 DEF NoCall, CallState
<1>3. /\ NewCall \in CallState /\ NewCall.pc = "slot"
      /\ NewCall.provider = 1 /\ NewCall.tried = <<>>
  BY <1>2 DEF NewCall, NoCall, CallState, Under, Waiting
<1>4. UpTo(0) = <<>>
  BY DEF UpTo
<1>5. CallInv(NewCall)
  BY <1>3, <1>4 DEF CallInv, Under, Waiting
<1>6. CallInv(NoCall)
  BY <1>2 DEF CallInv, Under, Waiting
<1>7. QED
  BY <1>2, <1>3, <1>5, <1>6

\* A record of which only the place of the call changes.
LEMMA PcRecord ==
  ASSUME NEW r \in CallState, NEW pc \in Under \cup {"lost"}, CallInv(r), r.pc \in Under
  PROVE  /\ [r EXCEPT !.pc = pc] \in CallState /\ [r EXCEPT !.pc = pc].pc = pc
         /\ CallInv([r EXCEPT !.pc = pc])
<1> DEFINE s == [r EXCEPT !.pc = pc]
<1>1. s \in CallState
  BY DEF CallState, Under, Waiting, Ended
<1>2. s.pc = pc /\ s.provider = r.provider /\ s.tried = r.tried
  BY DEF CallState
<1> HIDE DEF s
<1>3. CallInv(s)
  BY <1>2 DEF CallInv, Under, Waiting
<1>4. QED
  BY <1>1, <1>2, <1>3 DEF s

\* The record after an answer.
LEMMA AnsweredRecord ==
  ASSUME NEW r \in CallState, CallInv(r), r.pc \in Under
  PROVE  LET s == [r EXCEPT !.pc = "returned", !.cost = TRUE]
         IN  s \in CallState /\ s.pc = "returned" /\ CallInv(s)
<1> DEFINE s == [r EXCEPT !.pc = "returned", !.cost = TRUE]
<1>1. s \in CallState
  BY DEF CallState, Ended
<1>2. s.pc = "returned" /\ s.provider = r.provider /\ s.tried = r.tried /\ s.cost = TRUE
  BY DEF CallState
<1> HIDE DEF s
<1>3. CallInv(s)
  BY <1>2 DEF CallInv, Under, Waiting
<1>4. QED
  BY <1>1, <1>2, <1>3 DEF s

\* The record for another attempt.
LEMMA RetryRecord ==
  ASSUME NEW r \in CallState, CallInv(r), r.pc \in Under
  PROVE  LET s == [r EXCEPT !.pc = "slot", !.attempt = @ + 1]
         IN  s \in CallState /\ s.pc = "slot" /\ CallInv(s)
<1> DEFINE s == [r EXCEPT !.pc = "slot", !.attempt = @ + 1]
<1>1. s \in CallState
  <2>1. r.attempt + 1 \in Nat
    BY DEF CallState
  <2>2. QED
    BY <2>1 DEF CallState, Under, Waiting
<1>2. s.pc = "slot" /\ s.provider = r.provider /\ s.tried = r.tried
  BY DEF CallState
<1> HIDE DEF s
<1>3. CallInv(s)
  BY <1>2 DEF CallInv, Under, Waiting
<1>4. QED
  BY <1>1, <1>2, <1>3 DEF s

\* The record after an error row: the provider in turn is the next to be in tried.
LEMMA ErrorRecord ==
  ASSUME NEW r \in CallState, CallInv(r), r.pc \in Under
  PROVE  /\ AfterError(r) \in CallState /\ AfterError(r).pc \in {"slot", "raised"}
         /\ CallInv(AfterError(r))
<1> DEFINE s == AfterError(r)
<1>1. r.provider \in 1..Providers /\ r.tried = UpTo(r.provider - 1)
  BY DEF CallInv
<1>2. /\ UpTo(r.provider) \in Seq(Nat)
      /\ Append(r.tried, r.provider) = UpTo(r.provider)
  <2>1. r.provider - 1 \in Nat /\ r.provider \in Nat /\ (r.provider - 1) + 1 = r.provider
    BY <1>1
  <2>2. QED
    BY <1>1, <2>1, UpToNext
<1> DEFINE tried == [r EXCEPT !.tried = Append(@, r.provider)]
<1>3. /\ tried \in CallState /\ tried.provider = r.provider /\ tried.tried = UpTo(r.provider)
  BY <1>1, <1>2 DEF CallState
<1>4. s = IF r.provider < Providers
            THEN [tried EXCEPT !.pc = "slot", !.provider = @ + 1, !.attempt = 1]
            ELSE [tried EXCEPT !.pc = "raised"]
  BY DEF AfterError
<1> HIDE DEF tried, s
<1>5. CASE r.provider < Providers
  <2>1. s = [tried EXCEPT !.pc = "slot", !.provider = @ + 1, !.attempt = 1]
    BY <1>4, <1>5
  <2>2. s \in CallState
    <3>1. tried.provider + 1 \in Nat
      BY <1>1, <1>3
    <3>2. QED
      BY <1>3, <2>1, <3>1 DEF CallState, Under, Waiting
  <2>3. s.pc = "slot" /\ s.provider = r.provider + 1 /\ s.tried = UpTo(r.provider)
    BY <1>3, <2>1 DEF CallState
  <2>4. s.provider \in 1..Providers /\ s.provider - 1 = r.provider
    BY <1>1, <1>5, <2>3
  <2>5. CallInv(s)
    BY <2>3, <2>4 DEF CallInv, Under, Waiting
  <2>6. QED
    BY <2>2, <2>3, <2>5 DEF s
<1>6. CASE ~(r.provider < Providers)
  <2>1. s = [tried EXCEPT !.pc = "raised"]
    BY <1>4, <1>6
  <2>2. s \in CallState
    BY <1>3, <2>1 DEF CallState, Ended
  <2>3. s.pc = "raised" /\ s.tried = UpTo(r.provider) /\ r.provider = Providers
    BY <1>1, <1>3, <1>6, <2>1 DEF CallState
  <2>4. CallInv(s)
    BY <2>3 DEF CallInv, Under, Waiting
  <2>5. QED
    BY <2>2, <2>3, <2>4 DEF s
<1>7. QED
  BY <1>5, <1>6

\* A step of acall: where it leaves the call, and the row of an answer.
LEMMA RouterMoves ==
  ASSUME TypesOK, CallsInv, NEW t \in Tasks, RouterStep(t)
  PROVE  /\ acall[t].pc \in Under
         /\ \E s \in CallState :
              /\ Moves(t, s) /\ CallInv(s) /\ s.pc # "idle"
              /\ \/ charged' = charged
                 \/ s.pc = "returned" /\ charged' = charged + 1
<1> DEFINE r == acall[t]
<1>1. r \in CallState /\ CallInv(r)
  BY DEF TypesOK, CallsInv
<1>2. acall[t].pc \in Under
  BY DEF RouterStep, Request, Answered, Overloaded, Retry, Failed, RowFails, Call, Under, Waiting
<1>3. CASE Request(t)
  <2> DEFINE s == [r EXCEPT !.pc = "http"]
  <2>1. s \in CallState /\ s.pc = "http" /\ CallInv(s)
    BY <1>1, <1>2, PcRecord DEF Under, Waiting
  <2>2. acall' = [acall EXCEPT ![t] = s] /\ HasSlot(t) /\ acall[t].pc = "slot" /\ sem' = sem
        /\ charged' = charged
    BY <1>3 DEF Request, Call
  <2> HIDE DEF s
  <2>3. Moves(t, s)
    BY <2>1, <2>2 DEF Moves
  <2>4. QED
    BY <1>2, <2>1, <2>2, <2>3
<1>4. CASE Answered(t)
  <2> DEFINE s == [r EXCEPT !.pc = "returned", !.cost = TRUE]
  <2>1. s \in CallState /\ s.pc = "returned" /\ CallInv(s)
    BY <1>1, <1>2, AnsweredRecord
  <2>2. acall' = [acall EXCEPT ![t] = s] /\ acall[t].pc = "http" /\ sem' = Without(t)
        /\ charged' = charged + 1
    BY <1>4 DEF Answered, Call, LogCall
  <2> HIDE DEF s
  <2>3. Moves(t, s)
    BY <2>1, <2>2 DEF Moves, Waiting
  <2>4. QED
    BY <1>2, <2>1, <2>2, <2>3
<1>5. CASE Overloaded(t)
  <2> DEFINE s == [r EXCEPT !.pc = "pause"]
  <2>1. s \in CallState /\ s.pc = "pause" /\ CallInv(s)
    BY <1>1, <1>2, PcRecord DEF Under, Waiting
  <2>2. acall' = [acall EXCEPT ![t] = s] /\ acall[t].pc = "http" /\ sem' = Without(t)
        /\ charged' = charged
    BY <1>5 DEF Overloaded, Call
  <2> HIDE DEF s
  <2>3. Moves(t, s)
    BY <2>1, <2>2 DEF Moves, Waiting
  <2>4. QED
    BY <1>2, <2>1, <2>2, <2>3
<1>6. CASE Retry(t)
  <2> DEFINE s == [r EXCEPT !.pc = "slot", !.attempt = @ + 1]
  <2>1. s \in CallState /\ s.pc = "slot" /\ CallInv(s)
    BY <1>1, <1>2, RetryRecord
  <2>2. acall' = [acall EXCEPT ![t] = s] /\ acall[t].pc = "pause" /\ sem' = Append(sem, t)
        /\ charged' = charged
    BY <1>6 DEF Retry, Call
  <2> HIDE DEF s
  <2>3. Moves(t, s)
    BY <2>1, <2>2 DEF Moves, Waiting
  <2>4. QED
    BY <1>2, <2>1, <2>2, <2>3
<1>7. CASE Failed(t)
  <2> DEFINE s == AfterError(r)
  <2>1. s \in CallState /\ s.pc \in {"slot", "raised"} /\ CallInv(s)
    BY <1>1, <1>2, ErrorRecord
  <2>2. acall' = [acall EXCEPT ![t] = s] /\ acall[t].pc = "http"
        /\ sem' = (IF acall'[t].pc = "slot" THEN Append(Without(t), t) ELSE Without(t))
        /\ charged' = charged
    BY <1>7 DEF Failed, Call
  <2> HIDE DEF s
  <2>3. acall'[t] = s
    BY <2>2 DEF TypesOK
  <2>4. Moves(t, s)
    BY <2>1, <2>2, <2>3 DEF Moves, Waiting
  <2>5. QED
    BY <1>2, <2>1, <2>2, <2>4
<1>8. CASE RowFails(t)
  <2> DEFINE s == [r EXCEPT !.pc = "lost"]
  <2>1. s \in CallState /\ s.pc = "lost" /\ CallInv(s)
    BY <1>1, <1>2, PcRecord
  <2>2. acall' = [acall EXCEPT ![t] = s] /\ acall[t].pc = "http" /\ sem' = Without(t)
        /\ charged' = charged
    BY <1>8 DEF RowFails, Call
  <2> HIDE DEF s
  <2>3. Moves(t, s)
    BY <2>1, <2>2 DEF Moves, Waiting
  <2>4. QED
    BY <1>2, <2>1, <2>2, <2>3
<1>9. QED
  BY <1>3, <1>4, <1>5, <1>6, <1>7, <1>8 DEF RouterStep

\* A task's call goes on: types, semaphore and providers.
LEMMA MovesKeeps ==
  ASSUME TypesOK, SemInv, CallsInv, NEW t \in Tasks, NEW s \in CallState, Moves(t, s),
         CallInv(s)
  PROVE  /\ acall' \in [Tasks -> CallState] /\ acall'[t] = s
         /\ \A u \in Tasks : u # t => acall'[u] = acall[u]
         /\ SemInv' /\ CallsInv'
<1>1. /\ acall' \in [Tasks -> CallState] /\ acall'[t] = s
      /\ \A u \in Tasks : u # t => acall'[u] = acall[u]
  BY MovesOne
<1>2. SemInv'
  BY MovesSem
<1>3. CallsInv'
  BY <1>1 DEF CallsInv, CallInv
<1>4. QED
  BY <1>1, <1>2, <1>3

-----------------------------------------------------------------------------
(* The cap *)

\* What is owed is finite, and less than what all tasks may take together.
LEMMA OwedFinite ==
  /\ IsFiniteSet(Owed) /\ Cardinality(Owed) \in Nat
  /\ Most \in Nat /\ Cardinality(Owed) <= Most
<1> DEFINE all == Tasks \X (1..MaxTurns)
<1>1. IsFiniteSet(1..MaxTurns) /\ Cardinality(1..MaxTurns) = MaxTurns
  BY FS_Interval
<1>2. IsFiniteSet(all) /\ Cardinality(all) = Most
  BY <1>1, FS_Product DEF Most
<1>3. Owed \in SUBSET all
  BY DEF Owed
<1> HIDE DEF all
<1>4. QED
  BY <1>2, <1>3, FS_Subset, FS_CardinalityType

\* Who owes what, by the types.
LEMMA OwedTyped ==
  ASSUME TypesOK, TypesOK', NEW t \in Tasks
  PROVE  OwedBy(t) \in 0..MaxTurns /\ OwedBy(t)' \in 0..MaxTurns
<1>1. turns[t] \in -1..MaxTurns - 1 /\ turns'[t] \in -1..MaxTurns - 1
  BY DEF TypesOK
<1>2. QED
  BY <1>1 DEF OwedBy, Idle

\* A step by which a task owes no more.
LEMMA OwesNoMore ==
  ASSUME TypesOK, TypesOK', CapInv, NEW t \in Tasks, charged' = charged,
         OwedBy(t)' <= OwedBy(t), \A u \in Tasks : u # t => OwedBy(u)' = OwedBy(u)
  PROVE  CapInv'
<1>1. \A u \in Tasks : OwedBy(u) \in Int /\ OwedBy(u)' \in Int /\ OwedBy(u)' <= OwedBy(u)
  <2>1. \A u \in Tasks : OwedBy(u) \in 0..MaxTurns /\ OwedBy(u)' \in 0..MaxTurns
    BY OwedTyped
  <2>2. ASSUME NEW u \in Tasks
        PROVE  OwedBy(u)' <= OwedBy(u)
    <3>1. OwedBy(u) \in Int
      BY <2>1
    <3>2. QED
      BY <3>1
  <2>3. QED
    BY <2>1, <2>2
<1>2. Owed' \in SUBSET Owed
  BY <1>1 DEF Owed
<1>3. /\ Cardinality(Owed') <= Cardinality(Owed) /\ Cardinality(Owed') \in Nat
      /\ Cardinality(Owed) \in Nat /\ Most \in Nat
  BY <1>2, OwedFinite, FS_Subset, FS_CardinalityType
<1>4. QED
  BY <1>2, <1>3 DEF CapInv, TypesOK, Most

\* A step by which a call that was owed is charged.
LEMMA OwedIsCharged ==
  ASSUME TypesOK, TypesOK', CapInv, NEW t \in Tasks, charged' = charged + 1,
         OwedBy(t)' = OwedBy(t) - 1, \A u \in Tasks : u # t => OwedBy(u)' = OwedBy(u)
  PROVE  CapInv'
<1> DEFINE x == <<t, OwedBy(t)>>
<1>1. OwedBy(t) \in 1..MaxTurns /\ \A u \in Tasks : OwedBy(u) \in Int /\ OwedBy(u)' \in Int
  <2>1. \A u \in Tasks : OwedBy(u) \in 0..MaxTurns /\ OwedBy(u)' \in 0..MaxTurns
    BY OwedTyped
  <2>2. QED
    BY <2>1
<1>2. x \in Owed
  BY <1>1 DEF Owed
<1>3. Owed' = Owed \ {x}
  BY <1>1 DEF Owed
<1>4. /\ Cardinality(Owed') = Cardinality(Owed) - 1
      /\ Cardinality(Owed) \in Nat /\ Most \in Nat
  BY <1>2, <1>3, OwedFinite, FS_RemoveElement
<1>5. QED
  BY <1>2, <1>4 DEF CapInv, TypesOK, Most

\* A message that the cap allows: all that may be owed together is then within bounds.
LEMMA AllowedOwes ==
  ASSUME TypesOK, Allowed, charged' = charged
  PROVE  CapInv'
<1>1. Cardinality(Owed') \in Nat /\ Cardinality(Owed') <= Most /\ Most \in Nat
  <2>1. Owed' \in SUBSET (Tasks \X (1..MaxTurns))
    BY DEF Owed
  <2>2. IsFiniteSet(1..MaxTurns) /\ Cardinality(1..MaxTurns) = MaxTurns
    BY FS_Interval
  <2>3. /\ IsFiniteSet(Tasks \X (1..MaxTurns))
        /\ Cardinality(Tasks \X (1..MaxTurns)) = Most
    BY <2>2, FS_Product DEF Most
  <2>4. QED
    BY <2>1, <2>3, FS_Subset, FS_CardinalityType
<1>2. ASSUME Halts
      PROVE  charged' + Cardinality(Owed') <= Cap - 1 + Most
  <2>1. charged < Cap
    BY <1>2 DEF Allowed, Used
  <2>2. QED
    BY <1>1, <2>1 DEF TypesOK
<1>3. QED
  BY <1>2 DEF CapInv, Most

-----------------------------------------------------------------------------
(* The rows of the chat *)

\* The tasks with a message are a finite number of tasks.
LEMMA HandledFinite == IsFiniteSet(Handled) /\ Cardinality(Handled) \in Nat
<1>1. Handled \in SUBSET Tasks
  BY DEF Handled
<1>2. QED
  BY <1>1, FS_Subset, FS_CardinalityType

\* A task that takes a message or ends one changes their number by one.
LEMMA HandledChanges ==
  ASSUME NEW t \in Tasks, \A u \in Tasks : u # t => turns'[u] = turns[u]
  PROVE  /\ turns[t] = Idle /\ turns'[t] # Idle =>
              Cardinality(Handled') = Cardinality(Handled) + 1
         /\ turns[t] # Idle /\ turns'[t] = Idle =>
              Cardinality(Handled') = Cardinality(Handled) - 1
         /\ (turns[t] = Idle <=> turns'[t] = Idle) => Handled' = Handled
<1>1. ASSUME turns[t] = Idle, turns'[t] # Idle
      PROVE  Cardinality(Handled') = Cardinality(Handled) + 1
  <2>1. Handled' = Handled \cup {t} /\ t \notin Handled
    BY <1>1 DEF Handled
  <2>2. QED
    BY <2>1, HandledFinite, FS_AddElement
<1>2. ASSUME turns[t] # Idle, turns'[t] = Idle
      PROVE  Cardinality(Handled') = Cardinality(Handled) - 1
  <2>1. Handled' = Handled \ {t} /\ t \in Handled
    BY <1>2 DEF Handled
  <2>2. QED
    BY <2>1, HandledFinite, FS_RemoveElement
<1>3. ASSUME turns[t] = Idle <=> turns'[t] = Idle
      PROVE  Handled' = Handled
  BY <1>3 DEF Handled
<1>4. QED
  BY <1>1, <1>2, <1>3

-----------------------------------------------------------------------------
(* The steps *)

\* No message, no call, no row.
LEMMA InitInv ==
  ASSUME Init
  PROVE  IInv
<1> USE DEF Init, RouterInit, NoRows
<1>1. -1 \in -1..MaxTurns - 1 /\ NoCall \in CallState
  BY Records
<1>2. TypesOK
  <2>1. acall \in [Tasks -> CallState] /\ turns \in [Tasks -> -1..MaxTurns - 1]
    BY <1>1 DEF Idle
  <2>2. QED
    BY <2>1 DEF TypesOK
<1>3. SemInv
  <2>1. sem \in Seq(Tasks) /\ DOMAIN sem = {}
    OBVIOUS
  <2>2. In(Waiting) = {} /\ In({"http"}) = {}
    BY DEF In, NoCall, Waiting
  <2>3. Range(sem) = {} /\ IsInjective(sem)
    BY <2>1 DEF Range, IsInjective
  <2>4. QED
    BY <2>1, <2>2, <2>3 DEF SemInv, Queues, Slotted
<1>4. CallsInv /\ BusyInv
  BY Records DEF CallsInv, BusyInv
<1>5. EveryUserRowAnswered
  <2>1. Handled = {}
    BY DEF Handled
  <2>2. QED
    BY <2>1, FS_EmptySet DEF EveryUserRowAnswered
<1>6. CapInv
  <2>1. Owed = {}
    BY DEF Owed, OwedBy
  <2>2. QED
    BY <2>1 DEF CapInv
<1>7. QED
  BY <1>2, <1>3, <1>4, <1>5, <1>6 DEF IInv

\* A message is taken.
LEMMA TakeKeeps ==
  ASSUME IInv, NEW t \in Tasks, Take(t)
  PROVE  IInv'
<1> USE DEF IInv
<1>1. /\ turns[t] = Idle /\ Allowed /\ acall[t].pc = "idle"
      /\ turns' = [turns EXCEPT ![t] = MaxTurns - 1]
      /\ chat' = [chat EXCEPT !.user = @ + 1]
      /\ acall' = [acall EXCEPT ![t] = NewCall] /\ sem' = Append(sem, t)
      /\ charged' = charged /\ broken' = broken
  BY DEF Take, Begin, Call
<1>2. Moves(t, NewCall)
  BY <1>1, Records DEF Moves, Waiting
<1>3. /\ acall' \in [Tasks -> CallState] /\ acall'[t] = NewCall
      /\ \A u \in Tasks : u # t => acall'[u] = acall[u]
      /\ SemInv' /\ CallsInv'
  BY <1>2, MovesKeeps, Records
<1>4. /\ turns' \in [Tasks -> -1..MaxTurns - 1] /\ turns'[t] = MaxTurns - 1
      /\ \A u \in Tasks : u # t => turns'[u] = turns[u]
  BY <1>1 DEF TypesOK
<1>5. /\ chat' \in [user : Nat, assistant : Nat]
      /\ chat'.user = chat.user + 1 /\ chat'.assistant = chat.assistant
  <2>1. chat.user + 1 \in Nat
    BY DEF TypesOK
  <2>2. QED
    BY <1>1, <2>1 DEF TypesOK
<1>6. TypesOK'
  BY <1>1, <1>3, <1>4, <1>5 DEF TypesOK
<1>7. turns'[t] # Idle /\ BusyInv'
  <2>1. turns'[t] # Idle
    BY <1>4 DEF Idle
  <2>2. QED
    BY <1>3, <1>4, <2>1, Records DEF BusyInv
<1>8. EveryUserRowAnswered'
  <2>1. Cardinality(Handled') = Cardinality(Handled) + 1 /\ Cardinality(Handled) \in Nat
    BY <1>1, <1>4, <1>7, HandledChanges, HandledFinite
  <2>2. QED
    BY <1>1, <1>5, <2>1 DEF EveryUserRowAnswered, TypesOK
<1>9. CapInv'
  BY <1>1, AllowedOwes
<1>10. QED
  BY <1>3, <1>6, <1>7, <1>8, <1>9

\* The LLM call of a message goes on, and may be charged.
LEMMA LLMStepKeeps ==
  ASSUME IInv, NEW t \in Tasks, LLMStep(t)
  PROVE  IInv'
<1> USE DEF IInv
<1>1. UNCHANGED <<turns, chat, broken>> /\ acall[t].pc \in Under
  BY RouterMoves DEF LLMStep
<1>2. PICK s \in CallState :
        /\ Moves(t, s) /\ CallInv(s) /\ s.pc # "idle"
        /\ \/ charged' = charged
           \/ s.pc = "returned" /\ charged' = charged + 1
  BY RouterMoves DEF LLMStep
<1>3. /\ acall' \in [Tasks -> CallState] /\ acall'[t] = s
      /\ \A u \in Tasks : u # t => acall'[u] = acall[u]
      /\ SemInv' /\ CallsInv'
  BY <1>2, MovesKeeps
<1>4. TypesOK'
  BY <1>1, <1>2, <1>3 DEF TypesOK
<1>5. acall[t].pc # "idle" /\ turns[t] # Idle
  BY <1>1 DEF BusyInv, Under, Waiting
<1>6. BusyInv'
  BY <1>1, <1>2, <1>3, <1>5 DEF BusyInv
<1>7. EveryUserRowAnswered'
  <2>1. Handled' = Handled
    BY <1>1 DEF Handled
  <2>2. QED
    BY <1>1, <2>1 DEF EveryUserRowAnswered
<1>8. CapInv'
  <2>1. turns[t] \in Int /\ OwedBy(t) = turns[t] + 1
    BY <1>1, <1>5 DEF OwedBy, TypesOK
  <2>2. OwedBy(t)' = IF s.pc \in Under THEN turns[t] + 1 ELSE turns[t]
    BY <1>1, <1>3, <1>5 DEF OwedBy
  <2>3. \A u \in Tasks : u # t => OwedBy(u)' = OwedBy(u)
    BY <1>1, <1>3 DEF OwedBy
  <2>4. CASE charged' = charged
    BY <1>4, <2>1, <2>2, <2>3, <2>4, OwesNoMore
  <2>5. CASE s.pc = "returned" /\ charged' = charged + 1
    <3>1. OwedBy(t)' = OwedBy(t) - 1
      BY <2>1, <2>2, <2>5 DEF Under, Waiting
    <3>2. QED
      BY <1>4, <2>3, <2>5, <3>1, OwedIsCharged
  <2>6. QED
    BY <1>2, <2>4, <2>5
<1>9. QED
  BY <1>3, <1>4, <1>6, <1>7, <1>8

\* The next turn of a message: one turn less, and a call instead.
LEMMA NextTurnKeeps ==
  ASSUME IInv, NEW t \in Tasks, NextTurn(t)
  PROVE  IInv'
<1> USE DEF IInv
<1>1. /\ acall[t].pc = "returned" /\ turns[t] > 0
      /\ turns' = [turns EXCEPT ![t] = @ - 1]
      /\ acall' = [acall EXCEPT ![t] = NewCall] /\ sem' = Append(sem, t)
      /\ UNCHANGED <<charged, chat, broken>>
  BY DEF NextTurn, Call
<1>2. Moves(t, NewCall)
  BY <1>1, Records DEF Moves, Waiting
<1>3. /\ acall' \in [Tasks -> CallState] /\ acall'[t] = NewCall
      /\ \A u \in Tasks : u # t => acall'[u] = acall[u]
      /\ SemInv' /\ CallsInv'
  BY <1>2, MovesKeeps, Records
<1>4. /\ turns[t] \in 1..MaxTurns - 1
      /\ turns' \in [Tasks -> -1..MaxTurns - 1] /\ turns'[t] = turns[t] - 1
      /\ \A u \in Tasks : u # t => turns'[u] = turns[u]
  <2>1. turns[t] \in 1..MaxTurns - 1
    BY <1>1 DEF TypesOK
  <2>2. turns[t] - 1 \in -1..MaxTurns - 1
    BY <2>1
  <2>3. QED
    BY <1>1, <2>1, <2>2 DEF TypesOK
<1>5. TypesOK'
  BY <1>1, <1>3, <1>4 DEF TypesOK
<1>6. turns[t] # Idle /\ turns'[t] # Idle
  BY <1>4 DEF Idle
<1>7. BusyInv'
  BY <1>3, <1>4, <1>6, Records DEF BusyInv
<1>8. EveryUserRowAnswered'
  <2>1. Handled' = Handled
    BY <1>4, <1>6, HandledChanges
  <2>2. QED
    BY <1>1, <2>1 DEF EveryUserRowAnswered
<1>9. CapInv'
  <2>1. OwedBy(t) = turns[t]
    BY <1>1, <1>6 DEF OwedBy, Under, Waiting
  <2>2. OwedBy(t)' = turns'[t] + 1
    BY <1>3, <1>6, Records DEF OwedBy, Under, Waiting
  <2>3. \A u \in Tasks : u # t => OwedBy(u)' = OwedBy(u)
    BY <1>3, <1>4 DEF OwedBy
  <2>4. OwedBy(t)' <= OwedBy(t)
    BY <1>4, <2>1, <2>2
  <2>5. QED
    BY <1>1, <1>5, <2>3, <2>4, OwesNoMore
<1>10. QED
  BY <1>3, <1>5, <1>7, <1>8, <1>9

\* A message ends, answered or not.
LEMMA EndKeeps ==
  ASSUME IInv, NEW t \in Tasks, turns[t] # Idle, Done(t),
         turns' = [turns EXCEPT ![t] = Idle],
         chat' \in [user : Nat, assistant : Nat], broken' \in Nat,
         chat'.user = chat.user,
         chat'.assistant + broken' = chat.assistant + broken + 1
  PROVE  IInv'
<1> USE DEF IInv
<1>1. /\ acall[t].pc \in Ended
      /\ acall' = [acall EXCEPT ![t] = NoCall] /\ sem' = sem /\ charged' = charged
  BY DEF Done, Ended
<1>2. Moves(t, NoCall)
  BY <1>1, Records DEF Moves, Waiting, Ended
<1>3. /\ acall' \in [Tasks -> CallState] /\ acall'[t] = NoCall
      /\ \A u \in Tasks : u # t => acall'[u] = acall[u]
      /\ SemInv' /\ CallsInv'
  BY <1>2, MovesKeeps, Records
<1>4. /\ turns' \in [Tasks -> -1..MaxTurns - 1] /\ turns'[t] = Idle
      /\ \A u \in Tasks : u # t => turns'[u] = turns[u]
  <2>1. Idle \in -1..MaxTurns - 1
    BY DEF Idle
  <2>2. QED
    BY <2>1 DEF TypesOK
<1>5. TypesOK'
  BY <1>1, <1>3, <1>4 DEF TypesOK
<1>6. BusyInv'
  BY <1>3, <1>4, Records DEF BusyInv
<1>7. EveryUserRowAnswered'
  <2>1. Cardinality(Handled') = Cardinality(Handled) - 1 /\ Cardinality(Handled) \in Nat
    BY <1>4, HandledChanges, HandledFinite
  <2>2. QED
    BY <2>1 DEF EveryUserRowAnswered, TypesOK
<1>8. CapInv'
  <2>1. OwedBy(t)' = 0
    BY <1>4 DEF OwedBy
  <2>2. \A u \in Tasks : u # t => OwedBy(u)' = OwedBy(u)
    BY <1>3, <1>4 DEF OwedBy
  <2>3. OwedBy(t)' <= OwedBy(t)
    BY <1>5, <2>1, OwedTyped
  <2>4. QED
    BY <1>1, <1>5, <2>2, <2>3, OwesNoMore
<1>9. QED
  BY <1>3, <1>5, <1>6, <1>7, <1>8

\* An assistant row, or an exception.
LEMMA ReplyOrBreaksKeeps ==
  ASSUME IInv, NEW t \in Tasks, Reply(t) \/ Breaks(t)
  PROVE  IInv'
<1>1. chat.user \in Nat /\ chat.assistant \in Nat /\ broken \in Nat
  BY DEF IInv, TypesOK
<1>2. CASE Reply(t)
  <2>1. turns[t] # Idle
    <3>1. acall[t].pc # "idle"
      BY <1>2 DEF Reply, Call
    <3>2. QED
      BY <3>1 DEF IInv, BusyInv
  <2>2. /\ Done(t) /\ turns' = [turns EXCEPT ![t] = Idle] /\ broken' = broken
        /\ chat' = [chat EXCEPT !.assistant = @ + 1]
    BY <1>2 DEF Reply
  <2>3. /\ chat' \in [user : Nat, assistant : Nat]
        /\ chat'.user = chat.user /\ chat'.assistant = chat.assistant + 1
    <3>1. chat.assistant + 1 \in Nat
      BY <1>1
    <3>2. QED
      BY <2>2, <3>1 DEF IInv, TypesOK
  <2>4. chat'.assistant + broken' = chat.assistant + broken + 1
    BY <1>1, <2>2, <2>3
  <2>5. QED
    BY <1>1, <2>1, <2>2, <2>3, <2>4, EndKeeps
<1>3. CASE Breaks(t)
  <2>1. /\ turns[t] # Idle /\ Done(t) /\ turns' = [turns EXCEPT ![t] = Idle]
        /\ broken' = broken + 1 /\ chat' = chat
    BY <1>3 DEF Breaks
  <2>2. broken' \in Nat /\ chat'.assistant + broken' = chat.assistant + broken + 1
    BY <1>1, <2>1
  <2>3. chat' \in [user : Nat, assistant : Nat] /\ chat'.user = chat.user
    BY <2>1 DEF IInv, TypesOK
  <2>4. QED
    BY <2>1, <2>2, <2>3, EndKeeps
<1>4. QED
  BY <1>2, <1>3

\* Nothing happens.
LEMMA StutterKeeps ==
  ASSUME IInv, UNCHANGED vars
  PROVE  IInv'
<1>1. /\ sem' = sem /\ acall' = acall /\ charged' = charged
      /\ turns' = turns /\ chat' = chat /\ broken' = broken
  BY DEF vars
<1>2. TypesOK' /\ SemInv' /\ CallsInv' /\ BusyInv'
  BY <1>1 DEF IInv, TypesOK, SemInv, Queues, Slotted, In, CallsInv, CallInv, BusyInv
<1>3. Handled' = Handled /\ Owed' = Owed
  BY <1>1 DEF Handled, Owed, OwedBy
<1>4. EveryUserRowAnswered' /\ CapInv'
  BY <1>1, <1>3 DEF IInv, EveryUserRowAnswered, CapInv, Most
<1>5. QED
  BY <1>2, <1>4 DEF IInv

-----------------------------------------------------------------------------

\* The invariant that the theorems follow from.
THEOREM MessagesInvariant == Spec => []IInv
<1>1. Init => IInv
  BY InitInv
<1>2. IInv /\ [Next]_vars => IInv'
  BY TakeKeeps, LLMStepKeeps, NextTurnKeeps, ReplyOrBreaksKeeps, StutterKeeps
  DEF Next, MessageStep
<1>3. QED
  BY <1>1, <1>2, PTL DEF Spec

\* Whoever has a slot of the semaphore is about to send its request or waits for the
\* answer (TrackedLLM.acall leaves the semaphore before it sleeps).
THEOREM SlotsServe == Spec => []SlotsServeRequests
<1>1. ASSUME IInv, NEW i \in DOMAIN sem
      PROVE  acall[sem[i]].pc \in {"slot", "http"}
  <2>1. sem[i] \in Range(sem)
    BY DEF Range
  <2>2. QED
    BY <1>1, <2>1 DEF IInv, SemInv, Queues, In, Waiting
<1>2. IInv => SlotsServeRequests
  BY <1>1 DEF SlotsServeRequests
<1>3. QED
  BY <1>2, MessagesInvariant, PTL

\* However many tasks call, no more than Slots requests are under way at a time.
InFlight == {t \in Tasks : Call(t, "http")}
THEOREM RequestsBounded == Spec => [](Cardinality(InFlight) <= Slots)
<1>1. ASSUME IInv
      PROVE  Cardinality(InFlight) <= Slots
  <2> DEFINE place == [t \in InFlight |-> Place(t)]
  <2>1. ASSUME NEW t \in InFlight
        PROVE  place[t] \in DOMAIN sem /\ sem[place[t]] = t
    <3>1. t \in Range(sem)
      BY <1>1, <2>1 DEF InFlight, Call, IInv, SemInv, Queues, In, Waiting
    <3>2. QED
      BY <3>1 DEF Range, Place
  <2>2. ASSUME NEW t \in InFlight
        PROVE  place[t] \in 1..Slots
    <3>1. place[t] <= Slots
      <4>1. sem[place[t]] \in In({"http"})
        BY <2>1, <2>2 DEF InFlight, Call, In
      <4>2. QED
        BY <1>1, <2>1, <2>2, <4>1 DEF IInv, SemInv, Slotted
    <3>2. place[t] \in 1..Len(sem) /\ Len(sem) \in Nat
      BY <1>1, <2>1, <2>2, LenProperties DEF IInv, SemInv, Queues
    <3>3. QED
      BY <3>1, <3>2
  <2>3. place \in Injection(InFlight, 1..Slots)
    <3>1. place \in [InFlight -> 1..Slots]
      BY <2>2
    <3>2. IsInjective(place)
      BY <2>1 DEF IsInjective
    <3>3. QED
      BY <3>1, <3>2 DEF Injection
  <2>4. IsFiniteSet(1..Slots) /\ Cardinality(1..Slots) = Slots
    BY FS_Interval
  <2> HIDE DEF place
  <2>5. QED
    BY <2>3, <2>4, FS_Injection
<1>2. IInv => Cardinality(InFlight) <= Slots
  BY <1>1
<1>3. QED
  BY <1>2, MessagesInvariant, PTL

\* Each provider that was tried has its row, in the configured order, whether the call
\* is answered or fails (TrackedLLM.acall).
THEOREM ProvidersAccounted == Spec => []EveryProviderAccounted
<1>1. IInv => EveryProviderAccounted
  BY DEF IInv, CallsInv, CallInv, UpTo, EveryProviderAccounted, Call
<1>2. QED
  BY <1>1, MessagesInvariant, PTL

\* A user row without an assistant row belongs to a message that is being handled or
\* that an exception ended (handle_agent_message).
THEOREM UserRowsAnswered == Spec => []EveryUserRowAnswered
<1>1. IInv => EveryUserRowAnswered
  BY DEF IInv
<1>2. QED
  BY <1>1, MessagesInvariant, PTL

\* The cap is overshot by less than what the messages in hand may take together
\* (CapChecker.check, and UsageTracker.log_call after it).
THEOREM OvershootIsBounded == Spec => []OvershootBounded
<1>1. IInv => OvershootBounded
  <2>1. Cardinality(Owed) \in Nat /\ Most \in Nat
    BY OwedFinite
  <2>2. QED
    BY <2>1 DEF IInv, CapInv, TypesOK, OvershootBounded, Most
<1>2. QED
  BY <1>1, MessagesInvariant, PTL

-----------------------------------------------------------------------------
(* What a message may ask of the providers *)

\* The attempts at the providers that an LLM call has left when it is at an attempt at
\* a provider, without that one.
Later(provider, attempt) ==
  (Providers - provider) * MaxAttempts + (MaxAttempts - attempt)

\* The requests that a call may still send, and those that a message may.
RequestsOfCall(c) ==
  CASE c.pc = "slot" -> Later(c.provider, c.attempt) + 1
    [] c.pc \in {"http", "pause"} -> Later(c.provider, c.attempt)
    [] OTHER -> 0
PerCall == Providers * MaxAttempts
RequestsLeft(t) ==
  IF turns[t] = Idle THEN 0 ELSE turns[t] * PerCall + RequestsOfCall(acall[t])

\* Attempts are counted, and there is a pause only if another one follows.
Attempts(c) ==
  /\ c.pc \in Under => c.attempt \in 1..MaxAttempts
  /\ c.pc = "pause" => c.attempt < MaxAttempts
AttemptsInv == \A t \in Tasks : Attempts(acall[t])

\* As many times as much is no less.
LEMMA TimesGrows ==
  ASSUME NEW p \in Nat, NEW m \in Int, NEW n \in Int, m <= n
  PROVE  m * p \in Int /\ n * p \in Int /\ m * p <= n * p
  OBVIOUS

\* What is left at an attempt: it counts down from all that a call has.
LEMMA LaterCounts ==
  ASSUME NEW p \in 1..Providers, NEW a \in 1..MaxAttempts
  PROVE  /\ Later(p, a) \in Nat /\ Later(p, a) + 1 <= PerCall
         /\ a < MaxAttempts => Later(p, a + 1) + 1 = Later(p, a)
         /\ p < Providers => Later(p + 1, 1) + 1 <= Later(p, a)
<1> DEFINE later == (Providers - p) * MaxAttempts
<1>1. /\ Providers \in Nat /\ MaxAttempts \in Nat /\ p \in Int /\ a \in Int
      /\ 1 <= p /\ p <= Providers /\ 1 <= a /\ a <= MaxAttempts
  OBVIOUS
<1>2. later \in Int /\ 0 <= later
  <2>1. 0 * MaxAttempts <= later /\ later \in Int
    <3>1. 0 <= Providers - p /\ Providers - p \in Int
      BY <1>1
    <3>2. QED
      BY <1>1, <3>1, TimesGrows
  <2>2. QED
    BY <1>1, <2>1
<1>3. later + MaxAttempts <= PerCall
  <2>1. (Providers - p) + 1 <= Providers /\ (Providers - p) + 1 \in Int
    BY <1>1
  <2>2. ((Providers - p) + 1) * MaxAttempts <= Providers * MaxAttempts
    BY <1>1, <2>1, TimesGrows
  <2>3. ((Providers - p) + 1) * MaxAttempts = later + MaxAttempts
    BY <1>1
  <2>4. QED
    BY <2>2, <2>3 DEF PerCall
<1>4. PerCall \in Int
  BY <1>1 DEF PerCall
<1>5. (Providers - (p + 1)) * MaxAttempts = later - MaxAttempts
  BY <1>1
<1> HIDE DEF later
<1>6. /\ Later(p, a) = later + (MaxAttempts - a)
      /\ Later(p, a + 1) = later + (MaxAttempts - (a + 1))
      /\ Later(p + 1, 1) = (later - MaxAttempts) + (MaxAttempts - 1)
  BY <1>5 DEF Later, later
<1>7. QED
  BY <1>1, <1>2, <1>3, <1>4, <1>6

\* A new call has all its requests left.
LEMMA NewCallRequests ==
  /\ Attempts(NewCall) /\ RequestsOfCall(NewCall) = PerCall
  /\ Attempts(NoCall) /\ RequestsOfCall(NoCall) = 0
<1>1. NewCall.pc = "slot" /\ NewCall.provider = 1 /\ NewCall.attempt = 1 /\ NoCall.pc = "idle"
  BY DEF NewCall, NoCall
<1>2. Later(1, 1) + 1 = PerCall
  <2>1. (Providers - 1) * MaxAttempts = Providers * MaxAttempts - MaxAttempts
    OBVIOUS
  <2>2. Providers * MaxAttempts \in Int
    OBVIOUS
  <2>3. QED
    BY <2>1, <2>2 DEF Later, PerCall
<1>3. QED
  BY <1>1, <1>2 DEF Attempts, RequestsOfCall, Under, Waiting

\* What is left is a number, and no more than a call has.
LEMMA CallHasRequests ==
  ASSUME NEW c \in CallState, CallInv(c), Attempts(c)
  PROVE  RequestsOfCall(c) \in 0..PerCall
<1>1. c.pc \in Under => c.provider \in 1..Providers /\ c.attempt \in 1..MaxAttempts
  BY DEF CallInv, Attempts
<1>2. PerCall \in Nat
  BY DEF PerCall
<1>3. c.pc \in Under =>
        /\ Later(c.provider, c.attempt) \in Nat
        /\ Later(c.provider, c.attempt) + 1 <= PerCall
  BY <1>1, LaterCounts
<1>4. QED
  BY <1>2, <1>3 DEF RequestsOfCall, Under, Waiting

\* A step of acall leaves no more requests than there were, and one that sends a
\* request fewer.
LEMMA RouterCounts ==
  ASSUME TypesOK, CallsInv, AttemptsInv, NEW t \in Tasks, RouterStep(t)
  PROVE  \E s \in CallState :
           /\ acall' = [acall EXCEPT ![t] = s] /\ Attempts(s)
           /\ RequestsOfCall(s) <= RequestsOfCall(acall[t])
           /\ Request(t) => RequestsOfCall(s) < RequestsOfCall(acall[t])
<1> DEFINE r == acall[t]
           p == r.provider
           a == r.attempt
           Counts(s) == /\ acall' = [acall EXCEPT ![t] = s] /\ Attempts(s)
                        /\ RequestsOfCall(s) <= RequestsOfCall(r)
                        /\ Request(t) => RequestsOfCall(s) < RequestsOfCall(r)
<1>1. r \in CallState /\ CallInv(r) /\ Attempts(r) /\ r.pc \in Under
  BY RouterMoves DEF TypesOK, CallsInv, AttemptsInv
<1>2. p \in 1..Providers /\ a \in 1..MaxAttempts
  BY <1>1 DEF CallInv, Attempts
<1>3. /\ Later(p, a) \in Nat
      /\ a < MaxAttempts => Later(p, a + 1) + 1 = Later(p, a)
      /\ p < Providers => Later(p + 1, 1) + 1 <= Later(p, a)
  BY <1>2, LaterCounts
<1>4. r.pc \in {"http", "pause"} => RequestsOfCall(r) = Later(p, a)
  BY DEF RequestsOfCall
<1>5. \A s \in CallState : s.pc \in Ended => Attempts(s) /\ RequestsOfCall(s) = 0
  BY DEF Attempts, RequestsOfCall, Under, Waiting, Ended
<1>6. Request(t) => r.pc = "slot"
  BY DEF Request, Call
<1>7. CASE Request(t)
  <2> DEFINE s == [r EXCEPT !.pc = "http"]
  <2>1. s \in CallState /\ s.pc = "http" /\ s.provider = p /\ s.attempt = a
    BY <1>1 DEF CallState, Under, Waiting
  <2>2. acall' = [acall EXCEPT ![t] = s]
    BY <1>7 DEF Request
  <2> HIDE DEF s
  <2>3. Attempts(s) /\ RequestsOfCall(s) = Later(p, a)
    BY <1>2, <2>1 DEF Attempts, RequestsOfCall
  <2>4. RequestsOfCall(r) = Later(p, a) + 1
    BY <1>6, <1>7 DEF RequestsOfCall
  <2>5. Counts(s)
    BY <1>3, <2>2, <2>3, <2>4
  <2>6. QED
    BY <2>1, <2>5
<1>8. CASE Answered(t)
  <2> DEFINE s == [r EXCEPT !.pc = "returned", !.cost = TRUE]
  <2>1. s \in CallState /\ s.pc = "returned"
    BY <1>1, AnsweredRecord
  <2>2. acall' = [acall EXCEPT ![t] = s] /\ r.pc = "http"
    BY <1>8 DEF Answered, Call
  <2> HIDE DEF s
  <2>3. Attempts(s) /\ RequestsOfCall(s) = 0
    BY <1>5, <2>1 DEF Ended
  <2>4. Counts(s)
    BY <1>3, <1>4, <1>6, <2>2, <2>3
  <2>5. QED
    BY <2>1, <2>4
<1>9. CASE Overloaded(t)
  <2> DEFINE s == [r EXCEPT !.pc = "pause"]
  <2>1. s \in CallState /\ s.pc = "pause" /\ s.provider = p /\ s.attempt = a
    BY <1>1 DEF CallState, Under, Waiting
  <2>2. acall' = [acall EXCEPT ![t] = s] /\ r.pc = "http" /\ a < MaxAttempts
    BY <1>9 DEF Overloaded, Call
  <2> HIDE DEF s
  <2>3. Attempts(s) /\ RequestsOfCall(s) = Later(p, a)
    BY <1>2, <2>1, <2>2 DEF Attempts, RequestsOfCall
  <2>4. Counts(s)
    BY <1>3, <1>4, <1>6, <2>2, <2>3
  <2>5. QED
    BY <2>1, <2>4
<1>10. CASE Retry(t)
  <2> DEFINE s == [r EXCEPT !.pc = "slot", !.attempt = @ + 1]
  <2>1. s \in CallState /\ s.pc = "slot" /\ s.provider = p /\ s.attempt = a + 1
    BY <1>1, RetryRecord DEF CallState
  <2>2. acall' = [acall EXCEPT ![t] = s] /\ r.pc = "pause"
    BY <1>10 DEF Retry, Call
  <2> HIDE DEF s
  <2>3. a < MaxAttempts
    BY <1>1, <2>2 DEF Attempts
  <2>4. Attempts(s) /\ RequestsOfCall(s) = Later(p, a + 1) + 1
    BY <1>2, <2>1, <2>3 DEF Attempts, RequestsOfCall
  <2>5. Counts(s)
    BY <1>3, <1>4, <1>6, <2>2, <2>3, <2>4
  <2>6. QED
    BY <2>1, <2>5
<1>11. CASE Failed(t)
  <2> DEFINE s == AfterError(r)
  <2>1. s \in CallState /\ s.pc \in {"slot", "raised"}
    BY <1>1, ErrorRecord
  <2>2. acall' = [acall EXCEPT ![t] = s] /\ r.pc = "http"
    BY <1>11 DEF Failed, Call
  <2>3. s.pc = "slot" => p < Providers /\ s.provider = p + 1 /\ s.attempt = 1
    BY <1>1 DEF AfterError, CallState
  <2> HIDE DEF s
  <2>4. CASE s.pc = "raised"
    <3>1. Attempts(s) /\ RequestsOfCall(s) = 0
      BY <1>5, <2>1, <2>4 DEF Ended
    <3>2. Counts(s)
      BY <1>3, <1>4, <1>6, <2>2, <3>1
    <3>3. QED
      BY <2>1, <3>2
  <2>5. CASE s.pc = "slot"
    <3>1. Attempts(s) /\ RequestsOfCall(s) = Later(p + 1, 1) + 1
      BY <2>3, <2>5 DEF Attempts, RequestsOfCall
    <3>2. Counts(s)
      BY <1>3, <1>4, <1>6, <2>2, <2>3, <2>5, <3>1
    <3>3. QED
      BY <2>1, <3>2
  <2>6. QED
    BY <2>1, <2>4, <2>5
<1>12. CASE RowFails(t)
  <2> DEFINE s == [r EXCEPT !.pc = "lost"]
  <2>1. s \in CallState /\ s.pc = "lost"
    BY <1>1, PcRecord
  <2>2. acall' = [acall EXCEPT ![t] = s] /\ r.pc = "http"
    BY <1>12 DEF RowFails, Call
  <2> HIDE DEF s
  <2>3. Attempts(s) /\ RequestsOfCall(s) = 0
    BY <1>5, <2>1 DEF Ended
  <2>4. Counts(s)
    BY <1>3, <1>4, <1>6, <2>2, <2>3
  <2>5. QED
    BY <2>1, <2>4
<1>13. QED
  BY <1>7, <1>8, <1>9, <1>10, <1>11, <1>12 DEF RouterStep

\* What a message has left: a number, and no more than its turns allow.
LEMMA MessageHasRequests ==
  ASSUME IInv, AttemptsInv, NEW t \in Tasks
  PROVE  /\ RequestsLeft(t) \in 0..MaxTurns * PerCall
         /\ RequestsOfCall(acall[t]) \in 0..PerCall /\ PerCall \in Nat
         /\ turns[t] # Idle => turns[t] \in Nat /\ turns[t] * PerCall \in Nat
<1>1. RequestsOfCall(acall[t]) \in 0..PerCall
  BY CallHasRequests DEF IInv, TypesOK, CallsInv, AttemptsInv
<1>2. PerCall \in Nat /\ MaxTurns * PerCall \in Nat
  BY DEF PerCall
<1>3. turns[t] \in -1..MaxTurns - 1
  BY DEF IInv, TypesOK
<1>4. CASE turns[t] = Idle
  BY <1>1, <1>2, <1>4 DEF RequestsLeft
<1>5. CASE turns[t] # Idle
  <2>1. turns[t] \in 0..MaxTurns - 1
    BY <1>3, <1>5 DEF Idle
  <2>2. 0 * PerCall <= turns[t] * PerCall /\ turns[t] * PerCall \in Int
    BY <1>2, <2>1, TimesGrows
  <2>3. (turns[t] + 1) * PerCall <= MaxTurns * PerCall
    <3>1. turns[t] + 1 <= MaxTurns /\ turns[t] + 1 \in Int
      BY <2>1
    <3>2. QED
      BY <1>2, <3>1, TimesGrows
  <2>4. (turns[t] + 1) * PerCall = turns[t] * PerCall + PerCall
    BY <1>2, <2>1
  <2>5. turns[t] * PerCall \in Nat
    BY <1>2, <2>2
  <2>6. RequestsLeft(t) = turns[t] * PerCall + RequestsOfCall(acall[t])
    BY <1>5 DEF RequestsLeft
  <2>7. RequestsLeft(t) \in 0..MaxTurns * PerCall
    BY <1>1, <1>2, <2>3, <2>4, <2>5, <2>6
  <2>8. QED
    BY <1>1, <1>2, <2>1, <2>5, <2>7
<1>6. QED
  BY <1>4, <1>5

\* Only taking a message gives a task requests, and each request is one less.
RequestsCounted(t) ==
  /\ Request(t) => RequestsLeft(t)' < RequestsLeft(t)
  /\ RequestsLeft(t)' > RequestsLeft(t) => Take(t)

\* Other tasks, and steps that leave a task as it is.
LEMMA OthersKeep ==
  ASSUME IInv, AttemptsInv, NEW t \in Tasks, acall'[t] = acall[t], turns'[t] = turns[t]
  PROVE  Attempts(acall'[t]) /\ RequestsCounted(t)
<1>1. RequestsLeft(t)' = RequestsLeft(t)
  BY DEF RequestsLeft
<1>2. ~Request(t)
  BY DEF Request, Call, IInv, TypesOK, CallState
<1>3. RequestsLeft(t) \in Int
  BY MessageHasRequests
<1>4. QED
  BY <1>1, <1>2, <1>3 DEF RequestsCounted, AttemptsInv

\* The LLM call of a message goes on.
LEMMA LLMStepCounts ==
  ASSUME IInv, AttemptsInv, NEW t \in Tasks, LLMStep(t)
  PROVE  Attempts(acall'[t]) /\ RequestsCounted(t)
<1>1. /\ acall \in [Tasks -> CallState] /\ turns' = turns
      /\ acall[t].pc \in Under /\ turns[t] # Idle
  BY RouterMoves DEF LLMStep, IInv, TypesOK, BusyInv, Under, Waiting
<1>2. PICK s \in CallState :
        /\ acall' = [acall EXCEPT ![t] = s] /\ Attempts(s)
        /\ RequestsOfCall(s) <= RequestsOfCall(acall[t])
        /\ Request(t) => RequestsOfCall(s) < RequestsOfCall(acall[t])
  BY RouterCounts DEF LLMStep, IInv
<1>3. acall'[t] = s
  BY <1>1, <1>2
<1>4. /\ RequestsLeft(t) = turns[t] * PerCall + RequestsOfCall(acall[t])
      /\ RequestsLeft(t)' = turns[t] * PerCall + RequestsOfCall(s)
  BY <1>1, <1>3 DEF RequestsLeft
<1>5. turns[t] * PerCall \in Nat /\ RequestsOfCall(acall[t]) \in Int
  BY <1>1, MessageHasRequests
<1>6. RequestsOfCall(s) \in Int
  <2>1. CallInv(s)
    BY <1>3, LLMStepKeeps DEF IInv, CallsInv
  <2>2. RequestsOfCall(s) \in 0..PerCall /\ PerCall \in Nat
    BY <1>2, <2>1, CallHasRequests DEF PerCall
  <2>3. QED
    BY <2>2
<1>7. QED
  BY <1>2, <1>3, <1>4, <1>5, <1>6 DEF RequestsCounted

\* A message is taken, its next turn begins, or it ends.
LEMMA MessageCounts ==
  ASSUME IInv, AttemptsInv, NEW t \in Tasks, Take(t) \/ NextTurn(t) \/ Reply(t) \/ Breaks(t)
  PROVE  Attempts(acall'[t]) /\ RequestsCounted(t)
<1>1. acall \in [Tasks -> CallState] /\ turns \in [Tasks -> -1..MaxTurns - 1]
  BY DEF IInv, TypesOK
<1>2. acall[t].pc \notin {"slot"}
  BY DEF Take, Begin, NextTurn, Reply, Breaks, Done, Call
<1>3. ~Request(t)
  BY <1>2 DEF Request, Call
<1>4. RequestsLeft(t) \in Nat /\ PerCall \in Nat
  BY MessageHasRequests
<1>5. CASE Take(t)
  <2>1. acall'[t] = NewCall
    BY <1>1, <1>5 DEF Take, Begin
  <2>2. QED
    BY <1>3, <1>5, <2>1, NewCallRequests DEF RequestsCounted
<1>6. CASE NextTurn(t)
  <2>1. /\ acall'[t] = NewCall /\ turns[t] > 0 /\ turns'[t] = turns[t] - 1
        /\ acall[t].pc = "returned"
    BY <1>1, <1>6 DEF NextTurn, Call
  <2>2. turns[t] \in Nat /\ turns[t] # Idle /\ turns'[t] # Idle
    BY <1>1, <2>1 DEF Idle
  <2>3. RequestsOfCall(acall[t]) = 0
    BY <2>1 DEF RequestsOfCall
  <2>4. RequestsLeft(t) = turns[t] * PerCall
    BY <1>4, <2>2, <2>3 DEF RequestsLeft
  <2>5. RequestsLeft(t)' = (turns[t] - 1) * PerCall + PerCall
    BY <2>1, <2>2, NewCallRequests DEF RequestsLeft
  <2>6. (turns[t] - 1) * PerCall + PerCall = turns[t] * PerCall
    BY <1>4, <2>2
  <2>7. RequestsLeft(t)' = RequestsLeft(t)
    BY <2>4, <2>5, <2>6
  <2>8. QED
    BY <1>3, <1>4, <2>1, <2>7, NewCallRequests DEF RequestsCounted
<1>7. CASE Reply(t) \/ Breaks(t)
  <2>1. acall'[t] = NoCall /\ turns'[t] = Idle
    BY <1>1, <1>7 DEF Reply, Breaks, Done
  <2>2. RequestsLeft(t)' = 0
    BY <2>1 DEF RequestsLeft
  <2>3. QED
    BY <1>3, <1>4, <2>1, <2>2, NewCallRequests DEF RequestsCounted
<1>8. QED
  BY <1>5, <1>6, <1>7

\* Every step counts.
LEMMA StepCounts ==
  ASSUME IInv, AttemptsInv, [Next]_vars
  PROVE  AttemptsInv' /\ \A t \in Tasks : RequestsCounted(t)
<1>1. acall \in [Tasks -> CallState] /\ turns \in [Tasks -> -1..MaxTurns - 1]
  BY DEF IInv, TypesOK
<1>2. CASE UNCHANGED vars
  <2>1. acall' = acall /\ turns' = turns
    BY <1>2 DEF vars
  <2>2. QED
    BY <2>1, OthersKeep DEF AttemptsInv
<1>3. ASSUME NEW u \in Tasks, Take(u) \/ MessageStep(u)
      PROVE  AttemptsInv' /\ \A t \in Tasks : RequestsCounted(t)
  <2>1. Attempts(acall'[u]) /\ RequestsCounted(u)
    BY <1>3, LLMStepCounts, MessageCounts DEF MessageStep
  <2>2. ASSUME NEW t \in Tasks, t # u
        PROVE  acall'[t] = acall[t] /\ turns'[t] = turns[t]
    <3>1. CASE LLMStep(u)
      <4>1. PICK s : acall' = [acall EXCEPT ![u] = s]
        BY <3>1, RouterCounts DEF LLMStep, IInv
      <4>2. QED
        BY <1>1, <2>2, <3>1, <4>1 DEF LLMStep
    <3>2. CASE Take(u) \/ NextTurn(u)
      BY <1>1, <2>2, <3>2 DEF Take, Begin, NextTurn
    <3>3. CASE Reply(u) \/ Breaks(u)
      BY <1>1, <2>2, <3>3 DEF Reply, Breaks, Done
    <3>4. QED
      BY <1>3, <3>1, <3>2, <3>3 DEF MessageStep
  <2>3. \A t \in Tasks : Attempts(acall'[t]) /\ RequestsCounted(t)
    BY <2>1, <2>2, OthersKeep
  <2>4. QED
    BY <2>3 DEF AttemptsInv
<1>4. QED
  BY <1>2, <1>3 DEF Next

\* A message sends at most a request for each of its turns, each provider and each
\* attempt: what it has left is never more than that, every request is one less, and
\* nothing but taking a message gives a task any (handle_agent_message, acall).
THEOREM RequestsOfAMessage ==
  Spec => /\ [](\A t \in Tasks : RequestsLeft(t) \in 0..MaxTurns * Providers * MaxAttempts)
          /\ [][\A t \in Tasks : RequestsCounted(t)]_vars
<1>1. Init => AttemptsInv
  BY NewCallRequests DEF Init, RouterInit, AttemptsInv
<1>2. IInv /\ AttemptsInv /\ [Next]_vars =>
        AttemptsInv' /\ [\A t \in Tasks : RequestsCounted(t)]_vars
  BY StepCounts
<1>3. MaxTurns * PerCall = MaxTurns * Providers * MaxAttempts
  BY DEF PerCall
<1>4. IInv /\ AttemptsInv =>
        \A t \in Tasks : RequestsLeft(t) \in 0..MaxTurns * Providers * MaxAttempts
  BY <1>3, MessageHasRequests
<1>5. QED
  BY <1>1, <1>2, <1>4, MessagesInvariant, PTL DEF Spec
=============================================================================
