---------------------------- MODULE McpHttpCalls ----------------------------
(***************************************************************************)
(* Tool calls of one user to one MCP server over HTTP (McpHttpBackend),    *)
(* with the token row that all backends for that server share in the       *)
(* vault.  Every backend has a lock of its own; the vault has none.  A     *)
(* step is the code between two awaits.  A call may be broken off at any   *)
(* await, and by an exception of the vault.                                *)
(*                                                                         *)
(* The authorization server is external.  Either it always rotates: then a *)
(* refresh token that was accepted is not accepted again, and the answer   *)
(* brings a new one; or never.  Whether the answer to a refresh arrives is *)
(* another matter.  Access and refresh tokens are named by the number of   *)
(* the grant that issued them.                                             *)
(***************************************************************************)
EXTENDS Integers, SequencesExt

CONSTANTS
  Nobody,       \* no backend
  Callers,      \* tasks that call execute
  Backends,     \* McpHttpBackend objects for the server
  Uses,         \* caller -> the backend it calls
  CanRefresh,   \* the backends were given an OAuth client and its metadata
  MaxGrants     \* bound: grants the authorization server issues

ASSUME CallsAssumption ==
         /\ Uses \in [Callers -> Backends]
         /\ Nobody \notin Backends
         /\ CanRefresh \in BOOLEAN
         /\ MaxGrants \in Nat \ {0}

VARIABLES
  vault,        \* the row of oauth_tokens, or NoRow
  queue,        \* the lock of each backend: its holder, then who waits
  call,         \* caller -> where it is in _call, and the tokens it read
  issued,       \* grants the authorization server has issued
  refresh,      \* refresh tokens the authorization server takes
  spentBy,      \* history: refresh token -> the backend of this process that spent it
  adrift,       \* history: refresh tokens sent by calls that were broken off
  rotates       \* whether the authorization server rotates

vars == <<vault, queue, call, issued, refresh, spentBy, adrift, rotates>>

Grants == 1..MaxGrants
NoToken == 0

\* No row: an access token of no grant.
NoRow == [token |-> NoToken, refresh |-> NoToken, expired |-> FALSE]
Row(token, rt) == [token |-> token, refresh |-> rt, expired |-> FALSE]

\* pc: "wait" for the lock; "post"; "refresh" while the refresh request is on
\* its way; "answer" when the authorization server has dealt with it.  again:
\* the request was already sent once and refused.
Idle == [pc |-> "idle", token |-> NoToken, refresh |-> NoToken, again |-> FALSE]

Init ==
  /\ vault = NoRow
  /\ queue = [b \in Backends |-> <<>>]
  /\ call = [c \in Callers |-> Idle]
  /\ issued = 0 /\ refresh = {}
  /\ spentBy = [g \in Grants |-> Nobody] /\ adrift = {}
  /\ rotates \in BOOLEAN

Holds(c) == queue[Uses[c]] # <<>> /\ Head(queue[Uses[c]]) = c
At(c, pc) == call[c].pc = pc /\ (pc = "wait" \/ Holds(c))

Becomes(c, s) == call' = [call EXCEPT ![c] = s]

\* execute returns or raises, and the lock goes to who waited longest.
Release(c) ==
  /\ queue' = [queue EXCEPT ![Uses[c]] = Tail(@)]
  /\ Becomes(c, Idle)

\* _refresh_then_get up to the request.  The record is read from the vault anew.
\* The client is registered already, as a token was issued to it.
Refreshable == vault # NoRow /\ vault.refresh # NoToken /\ CanRefresh
AskRefresh(c, again) ==
  /\ Becomes(c, [pc |-> "refresh", token |-> NoToken, refresh |-> vault.refresh,
                 again |-> again])
  /\ UNCHANGED <<vault, queue>>

-----------------------------------------------------------------------------
(* The callers *)

\* Bug: the lock is not waited for.
EnterAtOnce(c) ==
  /\ call[c].pc = "idle"
  /\ Becomes(c, [Idle EXCEPT !.pc = "wait"])
  /\ queue' = [queue EXCEPT ![Uses[c]] = <<c>> \o @]
  /\ UNCHANGED <<vault, issued, refresh, spentBy, adrift, rotates>>

\* execute: wait for the lock.
Enter(c) ==
  /\ call[c].pc = "idle"
  /\ Becomes(c, [Idle EXCEPT !.pc = "wait"])
  /\ queue' = [queue EXCEPT ![Uses[c]] = Append(@, c)]
  /\ UNCHANGED <<vault, issued, refresh, spentBy, adrift, rotates>>

\* _bearer with the lock held: NeedsAuthError when there is no record, or an
\* expired one that cannot be refreshed.
Unconnected(c) ==
  /\ At(c, "wait") /\ Holds(c)
  /\ vault = NoRow \/ (vault.expired /\ ~Refreshable)
  /\ Release(c)
  /\ UNCHANGED <<vault, issued, refresh, spentBy, adrift, rotates>>

Expired(c) ==
  /\ At(c, "wait") /\ Holds(c) /\ vault.expired /\ Refreshable
  /\ AskRefresh(c, FALSE)
  /\ UNCHANGED <<issued, refresh, spentBy, adrift, rotates>>

Send(c) ==
  /\ At(c, "wait") /\ Holds(c) /\ vault # NoRow /\ ~vault.expired
  /\ Becomes(c, [call[c] EXCEPT !.pc = "post", !.token = vault.token])
  /\ UNCHANGED <<vault, queue, issued, refresh, spentBy, adrift, rotates>>

\* The server took the request, or failed in another way than with a 401.
Answered(c) ==
  /\ At(c, "post")
  /\ Release(c)
  /\ UNCHANGED <<vault, issued, refresh, spentBy, adrift, rotates>>

\* A first 401 leads to a refresh, if there is anything to refresh with.  The server may
\* refuse any token: when it ended is not modelled.
Refused(c) ==
  /\ At(c, "post")
  /\ ~call[c].again /\ Refreshable
  /\ AskRefresh(c, TRUE)
  /\ UNCHANGED <<issued, refresh, spentBy, adrift, rotates>>

\* Bug: the lock is kept when permission is asked for.
RefusedForGoodLocked(c) ==
  /\ At(c, "post")
  /\ call[c].again \/ ~Refreshable
  /\ Becomes(c, Idle)
  /\ UNCHANGED <<vault, queue, issued, refresh, spentBy, adrift, rotates>>

\* A second 401, or a first one without a way to refresh: NeedsAuthError.
RefusedForGood(c) ==
  /\ At(c, "post")
  /\ call[c].again \/ ~Refreshable
  /\ Release(c)
  /\ UNCHANGED <<vault, issued, refresh, spentBy, adrift, rotates>>

\* The answer to the refresh came, and its tokens are stored; the refresh token that
\* was sent, if it brought no other.
RefreshStored(c) ==
  /\ At(c, "answer") /\ call[c].token # NoToken
  /\ vault' = Row(call[c].token, IF rotates THEN call[c].token ELSE call[c].refresh)
  /\ Becomes(c, [call[c] EXCEPT !.pc = "post"])
  /\ UNCHANGED <<queue, issued, refresh, spentBy, adrift, rotates>>

\* Bug: the row is deleted only when the authorization server says no.
RefreshGivesUpKeeping(c) ==
  /\ call[c].pc \in {"refresh", "answer"} /\ Holds(c)
  /\ vault' = IF call[c].pc = "answer" /\ call[c].token = NoToken THEN NoRow ELSE vault
  /\ Release(c)
  /\ UNCHANGED <<issued, refresh, spentBy, adrift, rotates>>

\* The refresh was refused, or its answer did not come in time, whether or not
\* it was accepted: the row is deleted and NeedsAuthError raised.
RefreshGivesUp(c) ==
  /\ call[c].pc \in {"refresh", "answer"} /\ Holds(c)
  /\ vault' = NoRow
  /\ Release(c)
  /\ UNCHANGED <<issued, refresh, spentBy, adrift, rotates>>

\* What calls that end without an answer have sent: a request of theirs may still be
\* accepted, and nobody will store the tokens it brings.
SentBy(callers) ==
  {call[c].refresh : c \in {d \in callers : call[d].pc \in {"refresh", "answer"}}}
Drift(callers) == adrift' = adrift \cup SentBy(callers)

\* A call is broken off where it is: its task is cancelled, and CancelledError is no
\* Exception; or the vault raises, also when the row is to be put or deleted.  The lock
\* is released, or its place in the line, and the row stays.
BreaksOff(c) ==
  /\ call[c].pc # "idle"
  /\ LET b == Uses[c]
         place == CHOOSE i \in DOMAIN queue[b] : queue[b][i] = c
     IN  queue' = [queue EXCEPT ![b] = RemoveAt(@, place)]
  /\ Becomes(c, Idle)
  /\ Drift({c})
  /\ UNCHANGED <<vault, issued, refresh, spentBy, rotates>>

-----------------------------------------------------------------------------
(* The authorization server, the user and time *)

NewGrant == issued + 1
IssueGrant == issued < MaxGrants /\ issued' = NewGrant
Issue(spent) == IssueGrant /\ refresh' = (refresh \ spent) \cup {NewGrant}

\* A refresh request is accepted; when the server rotates, its token is spent.
AuthServerAccepts(c) ==
  /\ At(c, "refresh") /\ call[c].refresh \in refresh
  /\ IF rotates
     THEN /\ Issue({call[c].refresh})
          /\ spentBy' = [spentBy EXCEPT ![call[c].refresh] = Uses[c]]
     ELSE IssueGrant /\ UNCHANGED <<refresh, spentBy>>
  /\ Becomes(c, [call[c] EXCEPT !.pc = "answer", !.token = NewGrant])
  /\ UNCHANGED <<vault, queue, adrift, rotates>>

AuthServerRefuses(c) ==
  /\ At(c, "refresh") /\ call[c].refresh \notin refresh
  /\ Becomes(c, [call[c] EXCEPT !.pc = "answer"])
  /\ UNCHANGED <<vault, queue, issued, refresh, spentBy, adrift, rotates>>

\* A request whose call was broken off is accepted, and nobody hears of it.
AuthServerAcceptsAdrift(rt) ==
  /\ rotates /\ rt \in adrift \cap refresh
  /\ Issue({rt})
  /\ UNCHANGED <<vault, queue, call, spentBy, adrift, rotates>>

\* The user connects: /oauth/callback puts a new row.  The authorization server
\* need not give a refresh token.
Connect ==
  /\ Issue({})
  /\ \E rt \in {NewGrant, NoToken} : vault' = Row(NewGrant, rt)
  /\ UNCHANGED <<queue, call, spentBy, adrift, rotates>>

\* The row is within 30 seconds of its expiry.
RowExpires ==
  /\ vault # NoRow /\ ~vault.expired
  /\ vault' = [vault EXCEPT !.expired = TRUE]
  /\ UNCHANGED <<queue, call, issued, refresh, spentBy, adrift, rotates>>

\* The process dies and is started again: the vault is what it keeps.
Crash ==
  /\ Drift(Callers)
  /\ spentBy' = [g \in Grants |-> Nobody]
  /\ queue' = [b \in Backends |-> <<>>]
  /\ call' = [c \in Callers |-> Idle]
  /\ UNCHANGED <<vault, issued, refresh, rotates>>

-----------------------------------------------------------------------------

CallerStep(c) ==
  \/ Unconnected(c) \/ Expired(c) \/ Send(c)
  \/ Answered(c) \/ Refused(c) \/ RefusedForGood(c)
  \/ RefreshStored(c) \/ RefreshGivesUp(c)

Next ==
  \/ \E c \in Callers :
       \/ Enter(c) \/ CallerStep(c) \/ BreaksOff(c)
       \/ AuthServerAccepts(c) \/ AuthServerRefuses(c)
  \/ Connect \/ RowExpires
  \/ \E g \in Grants : AuthServerAcceptsAdrift(g)
  \/ Crash

Spec == Init /\ [][Next]_vars

\* Every request is answered or times out (30 seconds to the server, 10 to the
\* authorization server), and the task then runs.
FairSpec == Spec /\ \A c \in Callers : WF_vars(CallerStep(c))

-----------------------------------------------------------------------------
(* Properties *)

\* Callers that hold a refresh token they read from the vault.
Refreshing(rt) ==
  {c \in Callers : call[c].pc \in {"refresh", "answer"} /\ call[c].refresh = rt}

\* A refresh token that stays in the vault is one that was not spent: a call that spends
\* it replaces the row or deletes it, also when the answer was lost (_refresh_then_get),
\* whichever backends race.  A spent row is left behind only by a call that was broken
\* off after it had sent the token: it was cancelled, its process died, or the vault
\* raised.
VaultHonoured ==
  vault.refresh # NoToken =>
    vault.refresh \in refresh \cup adrift \/ Refreshing(vault.refresh) # {}

\* The lock of a backend keeps its own refreshes apart: a refresh token that the
\* authorization server no longer takes was spent by another backend, never by an
\* earlier call of the one that sends it, also when that call's answer was lost; unless
\* a call that had sent it was broken off.
OwnTokensSentOnce ==
  \A c \in Callers :
    call[c].pc = "refresh" /\ call[c].refresh \notin refresh \cup adrift =>
      spentBy[call[c].refresh] \notin {Uses[c], Nobody}

\* Every call comes to an end: the lock is released on every path, also when a call
\* before it in the line is broken off, and a call refreshes at most twice.
EveryCallEnds == \A c \in Callers : call[c].pc # "idle" ~> call[c].pc = "idle"
=============================================================================
