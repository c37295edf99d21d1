---------------------------- MODULE OAuthConnect ----------------------------
(***************************************************************************)
(* A user connects to an MCP server: /oauth/start and /oauth/callback of   *)
(* web/oauth_router.py, the client that both register when there is none   *)
(* yet (OAuthClient.ensure_client), and the table oauth_pkce_state, keyed  *)
(* by the nonce of the link.  A step is the code between two awaits.  The  *)
(* user may open a link several times and the browser may repeat a         *)
(* redirect; requests overlap, and the process may restart.                *)
(*                                                                         *)
(* The authorization server is external: it registers clients, shows the   *)
(* consent page of an authorization request, and redeems its code once,    *)
(* for the client and the verifier of that request.                        *)
(***************************************************************************)
EXTENDS Integers, FiniteSets

CONSTANTS
  Requests,     \* HTTP requests to the router
  Nonces,       \* links sent to the user, each with a state of its own
  MaxClients,   \* bound: registrations the authorization server accepts
  MaxVerifiers  \* bound: PKCE verifiers made

ASSUME ConnectAssumption == MaxClients \in Nat \ {0} /\ MaxVerifiers \in Nat \ {0}

VARIABLES
  client,       \* the row of oauth_clients, or 0
  pkce,         \* nonce -> verifier in oauth_pkce_state, or 0
  req,          \* what each request is doing
  clients,      \* clients registered at the authorization server
  verifiers,    \* verifiers made so far
  asked,        \* authorization requests that reached the consent page
  redeemed,     \* verifiers whose code was redeemed
  sent          \* history: verifiers sent in a code exchange, with the request

connectVars == <<client, pkce, req, clients, verifiers, asked, redeemed, sent>>

None == 0
Clients == 1..MaxClients
Verifiers == 1..MaxVerifiers

\* An authorization request: the challenge is that of the verifier.
AuthRequest == [nonce : Nonces, client : Clients, verifier : Verifiers]

\* pc: "discover" (metadata of server and authorization server), "register" (a
\* client), "exchange" (the code), or "idle".  A callback has a code, that of an
\* authorization request, and the verifier it took from the table.
NoRequest == [kind |-> "none", pc |-> "idle", nonce |-> None, code |-> None,
         verifier |-> None, client |-> None]
Start(n) == [NoRequest EXCEPT !.kind = "start", !.pc = "discover", !.nonce = n]
Callback(a, v) ==
  [NoRequest EXCEPT !.kind = "callback", !.pc = "discover", !.nonce = a.nonce,
               !.code = a.verifier, !.verifier = v]

ConnectInit ==
  /\ client = None
  /\ pkce = [n \in Nonces |-> None]
  /\ req = [r \in Requests |-> NoRequest]
  /\ clients = {} /\ verifiers = 0
  /\ asked = {} /\ redeemed = {} /\ sent = {}

Doing(r, pc) == req[r].pc = pc
Turns(r, s) == req' = [req EXCEPT ![r] = s]

-----------------------------------------------------------------------------
(* Requests arrive.  One with an expired or invalid state changes nothing. *)

ArriveStart(r, n) ==
  /\ Doing(r, "idle")
  /\ Turns(r, Start(n))
  /\ UNCHANGED <<client, pkce, clients, verifiers, asked, redeemed, sent>>

\* Bug: a callback without a verifier is let through.
ArriveCallbackUnchecked(r, a) ==
  /\ Doing(r, "idle")
  /\ Turns(r, Callback(a, pkce[a.nonce]))
  /\ pkce' = [pkce EXCEPT ![a.nonce] = None]
  /\ UNCHANGED <<client, clients, verifiers, asked, redeemed, sent>>

\* The verifier is read and its row deleted before anything is awaited.  A
\* callback that finds none is refused.
ArriveCallback(r, a) ==
  /\ Doing(r, "idle") /\ pkce[a.nonce] # None
  /\ Turns(r, Callback(a, pkce[a.nonce]))
  /\ pkce' = [pkce EXCEPT ![a.nonce] = None]
  /\ UNCHANGED <<client, clients, verifiers, asked, redeemed, sent>>

-----------------------------------------------------------------------------
(* A request goes on when it has a client *)

\* Bug: the verifier is stored under the nonce of another link.
RedirectedCrossed(r, cid) ==
  /\ verifiers < MaxVerifiers
  /\ verifiers' = verifiers + 1
  /\ \E n \in Nonces \ {req[r].nonce} : pkce' = [pkce EXCEPT ![n] = verifiers + 1]
  /\ asked' = asked \cup {[nonce |-> req[r].nonce, client |-> cid,
                           verifier |-> verifiers + 1]}
  /\ Turns(r, NoRequest)
  /\ UNCHANGED sent

\* start: the verifier is stored under the nonce, whatever was there, and the
\* browser is sent to the consent page with its challenge.
Redirected(r, cid) ==
  /\ verifiers < MaxVerifiers
  /\ verifiers' = verifiers + 1
  /\ pkce' = [pkce EXCEPT ![req[r].nonce] = verifiers + 1]
  /\ asked' = asked \cup {[nonce |-> req[r].nonce, client |-> cid,
                           verifier |-> verifiers + 1]}
  /\ Turns(r, NoRequest)
  /\ UNCHANGED sent

\* callback: the code is sent with the verifier that was read on arrival.
Exchanging(r, cid) ==
  /\ Turns(r, [req[r] EXCEPT !.pc = "exchange", !.client = cid])
  /\ sent' = sent \cup {<<req[r].verifier, r>>}
  /\ UNCHANGED <<pkce, verifiers, asked>>

GoOn(r, cid) ==
  \/ req[r].kind = "start" /\ Redirected(r, cid)
  \/ req[r].kind = "callback" /\ Exchanging(r, cid)

\* ensure_client finds the row.
ClientKnown(r) ==
  /\ Doing(r, "discover") /\ client # None
  /\ GoOn(r, client)
  /\ UNCHANGED <<client, clients, redeemed>>

\* There is no row yet: a registration is asked for.
ClientUnknown(r) ==
  /\ Doing(r, "discover") /\ client = None
  /\ Turns(r, [req[r] EXCEPT !.pc = "register"])
  /\ UNCHANGED <<client, pkce, clients, verifiers, asked, redeemed, sent>>

NewClient == Cardinality(clients) + 1
Registers == NewClient \in Clients /\ clients' = clients \cup {NewClient}

\* The registration is answered, and the row inserted.
Registered(r) ==
  /\ Doing(r, "register") /\ client = None
  /\ Registers
  /\ client' = NewClient
  /\ GoOn(r, NewClient)
  /\ UNCHANGED redeemed

\* Bug: INSERT OR REPLACE.
RegisteredOver(r) ==
  /\ Doing(r, "register") /\ client # None
  /\ Registers
  /\ client' = NewClient
  /\ GoOn(r, NewClient)
  /\ UNCHANGED redeemed

\* Another request was faster: the INSERT violates the primary key and the
\* request fails.  The client just registered is not used.
RegisteredTwice(r) ==
  /\ Doing(r, "register") /\ client # None
  /\ Registers
  /\ Turns(r, NoRequest)
  /\ UNCHANGED <<client, pkce, verifiers, asked, redeemed, sent>>

\* Bug: a callback that fails puts its verifier back.
FailsUndone(r) ==
  /\ ~Doing(r, "idle")
  /\ Turns(r, NoRequest)
  /\ pkce' = IF req[r].kind = "callback"
              THEN [pkce EXCEPT ![req[r].nonce] = req[r].verifier] ELSE pkce
  /\ UNCHANGED <<client, clients, verifiers, asked, redeemed, sent>>

\* A network error, or a refusal, in discovery, registration or exchange.
Fails(r) ==
  /\ ~Doing(r, "idle")
  /\ Turns(r, NoRequest)
  /\ UNCHANGED <<client, pkce, clients, verifiers, asked, redeemed, sent>>

\* The code is redeemed, and TokenVault.put stores the tokens.
Connected(r) ==
  /\ Doing(r, "exchange")
  /\ req[r].code = req[r].verifier /\ req[r].code \notin redeemed
  /\ \E a \in asked : a.verifier = req[r].code /\ a.client = req[r].client
  /\ redeemed' = redeemed \cup {req[r].code}
  /\ Turns(r, NoRequest)
  /\ UNCHANGED <<client, pkce, clients, verifiers, asked, sent>>

\* The process restarts: the requests are gone, the tables are not.
Restart ==
  /\ req' = [r \in Requests |-> NoRequest]
  /\ UNCHANGED <<client, pkce, clients, verifiers, asked, redeemed, sent>>

-----------------------------------------------------------------------------

ConnectNext ==
  \/ \E r \in Requests :
       \/ \E n \in Nonces : ArriveStart(r, n)
       \/ \E a \in asked : ArriveCallback(r, a)
       \/ ClientKnown(r) \/ ClientUnknown(r) \/ Registered(r) \/ RegisteredTwice(r)
       \/ Fails(r) \/ Connected(r)
  \/ Restart

ConnectSpec == ConnectInit /\ [][ConnectNext]_connectVars

-----------------------------------------------------------------------------
(* Properties *)

TypeOK ==
  /\ client \in Clients \cup {None}
  /\ pkce \in [Nonces -> Verifiers \cup {None}]
  /\ \A r \in Requests :
       /\ req[r].kind \in {"none", "start", "callback"}
       /\ req[r].pc \in {"idle", "discover", "register", "exchange"}
       /\ req[r].verifier \in Verifiers \cup {None}
  /\ clients \subseteq Clients
  /\ verifiers \in 0..MaxVerifiers
  /\ asked \subseteq AuthRequest
  /\ redeemed \subseteq Verifiers
  /\ sent \subseteq Verifiers \X Requests

\* Every consent page was opened for the client that a callback will present,
\* however many requests registered one at the same time: a row of oauth_clients
\* is never replaced (ensure_client).
OneClientForStartAndCallback ==
  \A a \in asked : a.client = client

\* A callback presents the verifier of a request made with the same link, so
\* that tokens are stored for the user and the server the link was made for.
VerifierOfTheLink ==
  \A r \in Requests : req[r].verifier # None =>
    \E a \in asked : a.nonce = req[r].nonce /\ a.verifier = req[r].verifier

\* A verifier that was sent to the authorization server is never taken again,
\* whatever became of the exchange, also after a restart.
VerifierSentOnce ==
  [][ \A r \in Requests :
        (Doing(r, "discover") \/ Doing(r, "register")) /\ req'[r].pc = "exchange"
          => \A q \in Requests : <<req[r].verifier, q>> \notin sent ]_connectVars
=============================================================================
