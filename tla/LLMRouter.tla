----------------------------- MODULE LLMRouter -----------------------------
(***************************************************************************)
(* TrackedLLM.acall: an LLM call tries the configured provider and then    *)
(* its fallbacks.  A request is made with one of the slots of a semaphore  *)
(* that all agents share, and repeated after a pause when the provider is  *)
(* overloaded.  Every provider that was tried leaves a row in llm_usage:   *)
(* with its cost, or with an error.  A row may fail to be written.         *)
(* A step is the code between two awaits.  The providers are external.     *)
(***************************************************************************)
EXTENDS Integers, SequencesExt

CONSTANTS
  Tasks,        \* tasks that call an LLM
  Providers,    \* how many providers each of them may try
  Slots,        \* slots of the semaphore (2 in the code)
  MaxAttempts   \* requests to one provider (3 in the code)

ASSUME RouterAssumption ==
         Providers \in Nat \ {0} /\ Slots \in Nat \ {0} /\ MaxAttempts \in Nat \ {0}

VARIABLES
  sem,          \* tasks at the semaphore, the first Slots of them have a slot
  acall,        \* task -> where its call is: provider, attempt, rows written
  charged       \* rows with a cost

\* tried: the providers with an error row, in order.
NoCall == [pc |-> "idle", provider |-> 0, attempt |-> 0, tried |-> <<>>, cost |-> FALSE]
NewCall == [NoCall EXCEPT !.pc = "slot", !.provider = 1, !.attempt = 1]
Call(t, pc) == acall[t].pc = pc

RouterInit ==
  /\ sem = <<>> /\ acall = [t \in Tasks |-> NoCall]
  /\ charged = 0

Place(t) == CHOOSE i \in DOMAIN sem : sem[i] = t
HasSlot(t) == (\E i \in DOMAIN sem : sem[i] = t) /\ Place(t) <= Slots
Without(t) == RemoveAt(sem, Place(t))

Begin(t) ==
  /\ Call(t, "idle")
  /\ acall' = [acall EXCEPT ![t] = NewCall]
  /\ sem' = Append(sem, t)
  /\ UNCHANGED charged

Request(t) ==
  /\ Call(t, "slot") /\ HasSlot(t)
  /\ acall' = [acall EXCEPT ![t].pc = "http"]
  /\ UNCHANGED <<sem, charged>>

\* The row of an answer.
LogCall == charged' = charged + 1

\* The answer comes and its cost is written.
Answered(t) ==
  /\ Call(t, "http")
  /\ acall' = [acall EXCEPT ![t].pc = "returned", ![t].cost = TRUE]
  /\ sem' = Without(t)
  /\ LogCall

\* Bug: the slot is kept during the pause.
OverloadedHolding(t) ==
  /\ Call(t, "http") /\ acall[t].attempt < MaxAttempts
  /\ acall' = [acall EXCEPT ![t].pc = "pause"]
  /\ UNCHANGED <<sem, charged>>

\* ServiceUnavailableError or RateLimitError: a pause, without the slot.
Overloaded(t) ==
  /\ Call(t, "http") /\ acall[t].attempt < MaxAttempts
  /\ acall' = [acall EXCEPT ![t].pc = "pause"]
  /\ sem' = Without(t)
  /\ UNCHANGED charged

\* Bug: the attempts of a call are not counted.
RetryForever(t) ==
  /\ Call(t, "pause")
  /\ acall' = [acall EXCEPT ![t].pc = "slot"]
  /\ sem' = Append(sem, t)
  /\ UNCHANGED charged

Retry(t) ==
  /\ Call(t, "pause")
  /\ acall' = [acall EXCEPT ![t].pc = "slot", ![t].attempt = @ + 1]
  /\ sem' = Append(sem, t)
  /\ UNCHANGED charged

\* Bug: an error ends the call.
AfterErrorRaise(c) == [c EXCEPT !.pc = "raised", !.tried = Append(@, c.provider)]

\* An error row was written: on to the next provider, or the error is raised.
AfterError(c) ==
  LET tried == [c EXCEPT !.tried = Append(@, c.provider)]
  IN  IF c.provider < Providers
        THEN [tried EXCEPT !.pc = "slot", !.provider = @ + 1, !.attempt = 1]
        ELSE [tried EXCEPT !.pc = "raised"]

\* The request failed otherwise, or for the last time.  Or it was answered, but
\* the row could not be written, and that is an error like any other.
Failed(t) ==
  /\ Call(t, "http")
  /\ acall' = [acall EXCEPT ![t] = AfterError(@)]
  /\ sem' = IF acall'[t].pc = "slot" THEN Append(Without(t), t) ELSE Without(t)
  /\ UNCHANGED charged

\* The error row could not be written either: that error leaves acall at once.
RowFails(t) ==
  /\ Call(t, "http")
  /\ acall' = [acall EXCEPT ![t].pc = "lost"]
  /\ sem' = Without(t)
  /\ UNCHANGED charged

RouterStep(t) ==
  \/ Request(t) \/ Answered(t) \/ Overloaded(t) \/ Retry(t)
  \/ Failed(t) \/ RowFails(t)

\* The caller goes on.
Done(t) ==
  /\ acall[t].pc \in {"returned", "raised", "lost"}
  /\ acall' = [acall EXCEPT ![t] = NoCall]
  /\ UNCHANGED <<sem, charged>>

-----------------------------------------------------------------------------
(* Properties *)

\* A task that waits for a slot waits for requests under way, never for a task
\* that sits out its pause: the slots are used by tasks about to send or waiting
\* for an answer.
SlotsServeRequests ==
  \A i \in DOMAIN sem : i <= Slots => acall[sem[i]].pc \in {"slot", "http"}

\* An error is raised only when each provider was tried once, in the configured
\* order, and has its error row; an answer has one row with a cost, after the
\* error rows of the providers before it.
EveryProviderAccounted ==
  \A t \in Tasks :
    /\ Call(t, "raised") => acall[t].tried = [i \in 1..Providers |-> i]
    /\ Call(t, "returned") =>
         acall[t].cost /\ acall[t].tried = [i \in 1..acall[t].provider - 1 |-> i]
=============================================================================
