----------------------------- MODULE OAuthProofs -----------------------------
(***************************************************************************)
(* Theorems about OAuth with MCP servers.  First a user connects: for any  *)
(* number of requests that overlap, links, registrations and restarts.     *)
(* Then calls share the token row that this has stored: for any number of  *)
(* calls, backends, grants and deaths of the process.                      *)
(***************************************************************************)
EXTENDS OAuthConnect, McpHttpCalls, SequenceTheorems, TLAPS

USE ConnectAssumption, CallsAssumption

-----------------------------------------------------------------------------
(* A user connects *)

Request ==
  [kind : {"none", "start", "callback"},
   pc : {"idle", "discover", "register", "exchange"},
   nonce : Nonces \cup {None}, code : Verifiers \cup {None},
   verifier : Verifiers \cup {None}, client : Clients \cup {None}]

\* A request that is not idle has a link, and a callback the verifier of one.
RequestsOK ==
  /\ req \in [Requests -> Request]
  /\ \A r \in Requests :
       /\ req[r].kind # "none" => req[r].nonce \in Nonces
       /\ req[r].kind = "none" => req[r].pc = "idle"
       /\ req[r].kind = "callback" <=> req[r].verifier # None

\* The verifiers in the table and with the callbacks are those of requests that
\* reached the consent page over the same link.
TableOfTheLink ==
  \A n \in Nonces : pkce[n] # None =>
    \E a \in asked : a.nonce = n /\ a.verifier = pkce[n]

ConnectInv == TypeOK /\ RequestsOK /\ OneClientForStartAndCallback

-----------------------------------------------------------------------------
(* A request that has its client *)

\* A record of the type of requests, with what it holds of its request.
LEMMA RequestRecords ==
  /\ NoRequest \in Request
  /\ \A n \in Nonces : Start(n) \in Request
  /\ \A a \in AuthRequest, v \in Verifiers : Callback(a, v) \in Request
  BY DEF NoRequest, Start, Callback, Request, AuthRequest, None

\* The table and what was asked for stay typed when a request goes on.
LEMMA GoesOnTyped ==
  ASSUME ConnectInv, NEW r \in Requests, NEW cid \in Clients, GoOn(r, cid),
         Doing(r, "discover") \/ Doing(r, "register"),
         client' = cid, client = cid \/ client = None
  PROVE  /\ RequestsOK'
         /\ OneClientForStartAndCallback'
         /\ pkce' \in [Nonces -> Verifiers \cup {None}]
         /\ verifiers' \in 0..MaxVerifiers
         /\ asked' \subseteq AuthRequest
         /\ sent' \subseteq Verifiers \X Requests
<1> USE DEF ConnectInv, TypeOK, RequestsOK, OneClientForStartAndCallback
<1>1. asked # {} => client = cid
  BY DEF AuthRequest, Clients, None
<1>2. CASE req[r].kind = "start" /\ Redirected(r, cid)
  <2>1. req[r].nonce \in Nonces
    BY <1>2
  <2>2. verifiers + 1 \in Verifiers
    BY <1>2 DEF Redirected, Verifiers
  <2>3. req' = [req EXCEPT ![r] = NoRequest]
    BY <1>2 DEF Redirected, Turns
  <2>4. RequestsOK'
    BY <2>3, RequestRecords DEF NoRequest
  <2>5. /\ asked' \subseteq AuthRequest
        /\ \A a \in asked' : a.client = cid
    BY <1>1, <1>2, <2>1, <2>2 DEF Redirected, AuthRequest
  <2>6. pkce' \in [Nonces -> Verifiers \cup {None}] /\ verifiers' \in 0..MaxVerifiers
    BY <1>2, <2>2 DEF Redirected, Verifiers
  <2>7. QED
    BY <1>2, <2>4, <2>5, <2>6 DEF Redirected
<1>3. CASE req[r].kind = "callback" /\ Exchanging(r, cid)
  <2>1. req' = [req EXCEPT ![r] = [req[r] EXCEPT !.pc = "exchange", !.client = cid]]
    BY <1>3 DEF Exchanging, Turns
  <2>2. [req[r] EXCEPT !.pc = "exchange", !.client = cid] \in Request
    BY DEF Request
  <2>3. RequestsOK'
    BY <1>3, <2>1, <2>2 DEF Request
  <2>4. req[r].verifier \in Verifiers
    BY <1>3 DEF Request
  <2>5. sent' \subseteq Verifiers \X Requests
    BY <1>3, <2>4 DEF Exchanging
  <2>6. QED
    BY <1>1, <1>3, <2>3, <2>5 DEF Exchanging
<1>4. QED
  BY <1>2, <1>3 DEF GoOn

-----------------------------------------------------------------------------
(* Types and the client *)

\* No row and no consent page, at first.
LEMMA InitTypes ==
  ASSUME ConnectInit
  PROVE  ConnectInv
<1>1. RequestsOK
  BY RequestRecords DEF ConnectInit, RequestsOK, NoRequest
<1>2. TypeOK
  BY DEF ConnectInit, TypeOK, NoRequest, None
<1>3. OneClientForStartAndCallback
  BY DEF ConnectInit, OneClientForStartAndCallback
<1>4. QED
  BY <1>1, <1>2, <1>3 DEF ConnectInv

\* Requests that keep their types keep those that TypeOK names.
LEMMA RequestsTyped ==
  ASSUME RequestsOK
  PROVE  \A r \in Requests :
           /\ req[r].kind \in {"none", "start", "callback"}
           /\ req[r].pc \in {"idle", "discover", "register", "exchange"}
           /\ req[r].verifier \in Verifiers \cup {None}
  BY DEF RequestsOK, Request

\* Every handler keeps types and client (start, callback, ensure_client).
LEMMA ConnectStep ==
  ASSUME ConnectInv, [ConnectNext]_connectVars
  PROVE  ConnectInv'
<1> USE DEF ConnectInv, TypeOK, OneClientForStartAndCallback
<1>1. ASSUME NEW r \in Requests, NEW n \in Nonces, ArriveStart(r, n)
      PROVE  ConnectInv'
  <2>1. req' = [req EXCEPT ![r] = Start(n)]
    BY <1>1 DEF ArriveStart, Turns
  <2>2. RequestsOK'
    BY <2>1, RequestRecords DEF RequestsOK, Start, NoRequest
  <2>3. QED
    BY <1>1, <2>2, RequestsTyped DEF ArriveStart, Request, RequestsOK
<1>2. ASSUME NEW r \in Requests, NEW a \in asked, ArriveCallback(r, a)
      PROVE  ConnectInv'
  <2>1. /\ a \in AuthRequest /\ a.nonce \in Nonces
        /\ pkce[a.nonce] \in Verifiers /\ pkce[a.nonce] # None
    BY <1>2 DEF ArriveCallback, AuthRequest
  <2>2. req' = [req EXCEPT ![r] = Callback(a, pkce[a.nonce])]
    BY <1>2 DEF ArriveCallback, Turns
  <2>3. RequestsOK'
    BY <2>1, <2>2, RequestRecords DEF RequestsOK, Callback, NoRequest
  <2>4. pkce' \in [Nonces -> Verifiers \cup {None}]
    BY <1>2 DEF ArriveCallback
  <2>5. QED
    BY <1>2, <2>3, <2>4, RequestsTyped DEF ArriveCallback, Request, RequestsOK
<1>3. ASSUME NEW r \in Requests, ClientKnown(r)
      PROVE  ConnectInv'
  <2>1. client \in Clients /\ GoOn(r, client) /\ client' = client
    BY <1>3 DEF ClientKnown
  <2>2. /\ RequestsOK' /\ OneClientForStartAndCallback'
        /\ pkce' \in [Nonces -> Verifiers \cup {None}]
        /\ verifiers' \in 0..MaxVerifiers /\ asked' \subseteq AuthRequest
        /\ sent' \subseteq Verifiers \X Requests
    BY <1>3, <2>1, GoesOnTyped DEF ClientKnown
  <2>3. QED
    BY <1>3, <2>2 DEF ClientKnown, Request, RequestsOK
<1>4. ASSUME NEW r \in Requests, ClientUnknown(r)
      PROVE  ConnectInv'
  <2>1. req' = [req EXCEPT ![r] = [req[r] EXCEPT !.pc = "register"]]
    BY <1>4 DEF ClientUnknown, Turns
  <2>2. RequestsOK'
    BY <1>4, <2>1 DEF RequestsOK, Request, ClientUnknown, Doing
  <2>3. QED
    BY <1>4, <2>2 DEF ClientUnknown, Request, RequestsOK
<1>5. ASSUME NEW r \in Requests, Registered(r)
      PROVE  ConnectInv'
  <2>1. /\ NewClient \in Clients /\ GoOn(r, NewClient)
        /\ client' = NewClient /\ clients' \subseteq Clients
    BY <1>5 DEF Registered, Registers
  <2>2. /\ RequestsOK' /\ OneClientForStartAndCallback'
        /\ pkce' \in [Nonces -> Verifiers \cup {None}]
        /\ verifiers' \in 0..MaxVerifiers /\ asked' \subseteq AuthRequest
        /\ sent' \subseteq Verifiers \X Requests
    <3> HIDE DEF NewClient
    <3> QED BY <1>5, <2>1, GoesOnTyped DEF Registered
  <2>3. QED
    BY <1>5, <2>1, <2>2 DEF Registered, Request, RequestsOK
<1>6. ASSUME NEW r \in Requests, RegisteredTwice(r)
      PROVE  ConnectInv'
  <2>1. req' = [req EXCEPT ![r] = NoRequest]
    BY <1>6 DEF RegisteredTwice, Turns
  <2>2. RequestsOK'
    BY <2>1, RequestRecords DEF RequestsOK, NoRequest
  <2>3. QED
    BY <1>6, <2>2 DEF RegisteredTwice, Registers, Request, RequestsOK
<1>7. ASSUME NEW r \in Requests, Fails(r)
      PROVE  ConnectInv'
  <2>1. req' = [req EXCEPT ![r] = NoRequest]
    BY <1>7 DEF Fails, Turns
  <2>2. RequestsOK'
    BY <2>1, RequestRecords DEF RequestsOK, NoRequest
  <2>3. QED
    BY <1>7, <2>2 DEF Fails, Request, RequestsOK
<1>8. ASSUME NEW r \in Requests, Connected(r)
      PROVE  ConnectInv'
  <2>1. req' = [req EXCEPT ![r] = NoRequest]
    BY <1>8 DEF Connected, Turns
  <2>2. RequestsOK'
    BY <2>1, RequestRecords DEF RequestsOK, NoRequest
  <2>3. req[r].code \in Verifiers
    BY <1>8 DEF Connected, AuthRequest
  <2>4. QED
    BY <1>8, <2>2, <2>3 DEF Connected, Request, RequestsOK
<1>9. CASE Restart
  <2>1. RequestsOK'
    BY <1>9, RequestRecords DEF Restart, RequestsOK, NoRequest
  <2>2. QED
    BY <1>9, <2>1 DEF Restart, Request, RequestsOK
<1>10. CASE UNCHANGED connectVars
  BY <1>10 DEF connectVars, RequestsOK
<1>11. QED
  BY <1>1, <1>2, <1>3, <1>4, <1>5, <1>6, <1>7, <1>8, <1>9, <1>10 DEF ConnectNext

\* Types and client hold throughout.
LEMMA Inductive == ConnectSpec => []ConnectInv
<1>1. ConnectInit => ConnectInv
  BY InitTypes
<1>2. ConnectInv /\ [ConnectNext]_connectVars => ConnectInv'
  BY ConnectStep
<1>3. QED
  BY <1>1, <1>2, PTL DEF ConnectSpec

\* The tables and the requests keep their types (make_router).
THEOREM ConnectTypes == ConnectSpec => []TypeOK
<1>1. ConnectInv => TypeOK
  BY DEF ConnectInv
<1>2. QED
  BY <1>1, Inductive, PTL

\* Whichever requests register a client at the same time, every consent page was
\* opened for the one in the table, which callbacks present (ensure_client).
THEOREM OneClient == ConnectSpec => []OneClientForStartAndCallback
<1>1. ConnectInv => OneClientForStartAndCallback
  BY DEF ConnectInv
<1>2. QED
  BY <1>1, Inductive, PTL

-----------------------------------------------------------------------------
(* The verifiers *)

VerifiersSent(v) == \E q \in Requests : <<v, q>> \in sent
ToSend(r) == Doing(r, "discover") \/ Doing(r, "register")

\* The next verifier is a new one.
NextIsNew ==
  /\ \A n \in Nonces : pkce[n] <= verifiers
  /\ \A r \in Requests : req[r].verifier <= verifiers
  /\ \A v \in Verifiers : VerifiersSent(v) => v <= verifiers

\* A verifier is in one place: under one link in the table, with one callback
\* that has yet to send it, or sent.
InOnePlace ==
  /\ \A n, m \in Nonces : pkce[n] # None /\ pkce[n] = pkce[m] => n = m
  /\ \A n \in Nonces, r \in Requests : pkce[n] # None => req[r].verifier # pkce[n]
  /\ \A r, q \in Requests :
       req[r].verifier # None /\ req[r].verifier = req[q].verifier => r = q
  /\ \A n \in Nonces : pkce[n] # None => ~VerifiersSent(pkce[n])
  /\ \A r \in Requests : req[r].verifier # None /\ ToSend(r) => ~VerifiersSent(req[r].verifier)

LinkInv == TableOfTheLink /\ VerifierOfTheLink
VerifierInv == LinkInv /\ NextIsNew /\ InOnePlace

\* The place of a verifier when its request goes on: sent, when it was that of a
\* callback.
LEMMA GoesOnLinked ==
  ASSUME ConnectInv, VerifierInv, NEW r \in Requests, NEW cid \in Clients,
         GoOn(r, cid), ToSend(r)
  PROVE  VerifierInv'
<1> USE DEF VerifierInv, LinkInv
<1>1. CASE req[r].kind = "start" /\ Redirected(r, cid)
  <2> DEFINE v == verifiers + 1
             k == req[r].nonce
  <2>1. /\ k \in Nonces /\ v \in Verifiers /\ v # None
        /\ req[r].verifier = None
    BY <1>1 DEF ConnectInv, TypeOK, RequestsOK, Redirected, Verifiers, None
  <2>2. /\ pkce' = [pkce EXCEPT ![k] = v] /\ verifiers' = v /\ sent' = sent
        /\ req' = [req EXCEPT ![r] = NoRequest]
        /\ asked' = asked \cup {[nonce |-> k, client |-> cid, verifier |-> v]}
    BY <1>1 DEF Redirected, Turns
  <2>3. /\ pkce \in [Nonces -> Verifiers \cup {None}] /\ verifiers \in Nat
        /\ req \in [Requests -> Request] /\ \A q \in Requests : req[q].verifier \in Nat
    BY DEF ConnectInv, TypeOK, RequestsOK, Request, Verifiers, None
  <2> HIDE DEF v, k
  <2>4. /\ \A n \in Nonces : pkce'[n] = IF n = k THEN v ELSE pkce[n]
        /\ \A q \in Requests : req'[q] = IF q = r THEN NoRequest ELSE req[q]
        /\ NoRequest.verifier = None
    BY <2>2, <2>3 DEF NoRequest
  <2>5. \A q \in Requests : req'[q].verifier = req[q].verifier
    BY <2>1, <2>4
  <2>6. \A n \in Nonces : pkce[n] # v
    BY <2>1, <2>3 DEF NextIsNew, v, Verifiers, None
  <2>7. \A q \in Requests : req[q].verifier # v
    BY <2>1, <2>3 DEF NextIsNew, v
  <2>8. ~VerifiersSent(v) /\ \A u : VerifiersSent(u)' <=> VerifiersSent(u)
    BY <2>1, <2>2, <2>3 DEF NextIsNew, VerifiersSent, v
  <2>9. LinkInv'
    <3> DEFINE b == [nonce |-> k, client |-> cid, verifier |-> v]
    <3>0. b \in asked' /\ b.nonce = k /\ b.verifier = v
      BY <2>2
    <3> HIDE DEF b
    <3>1. TableOfTheLink'
      <4> SUFFICES ASSUME NEW n \in Nonces, pkce'[n] # None
                   PROVE  \E a \in asked' : a.nonce = n /\ a.verifier = pkce'[n]
        BY DEF TableOfTheLink
      <4>1. CASE n = k
        BY <2>4, <3>0, <4>1
      <4>2. CASE n # k
        BY <2>2, <2>4, <4>2 DEF TableOfTheLink
      <4>3. QED
        BY <4>1, <4>2
    <3>2. VerifierOfTheLink'
      BY <2>1, <2>2, <2>4 DEF VerifierOfTheLink
    <3>3. QED
      BY <3>1, <3>2
  <2>10. NextIsNew'
    <3>1. \A u \in Verifiers \cup {None} : u <= verifiers => u <= v
      BY <2>3 DEF v, Verifiers, None
    <3>2. \A n \in Nonces : pkce'[n] <= v
      BY <2>1, <2>3, <2>4, <3>1 DEF NextIsNew, Verifiers
    <3>3. \A q \in Requests : req'[q].verifier <= v
      BY <2>3, <2>5 DEF NextIsNew, v
    <3>4. \A u \in Verifiers : VerifiersSent(u)' => u <= v
      BY <2>8, <3>1 DEF NextIsNew
    <3>5. QED
      BY <2>2, <3>2, <3>3, <3>4 DEF NextIsNew
  <2>11. InOnePlace'
    <3>1. \A q \in Requests : req'[q].verifier # None /\ ToSend(q)' => ToSend(q)
      BY <2>4 DEF ToSend, Doing
    <3>2. QED
      BY <2>4, <2>5, <2>6, <2>7, <2>8, <3>1 DEF InOnePlace
  <2>12. QED
    BY <2>9, <2>10, <2>11
<1>2. CASE req[r].kind = "callback" /\ Exchanging(r, cid)
  <2>1. req[r].verifier \in Verifiers /\ req[r].verifier # None
    BY <1>2 DEF ConnectInv, RequestsOK, Request
  <2>2. /\ req' = [req EXCEPT ![r] = [req[r] EXCEPT !.pc = "exchange", !.client = cid]]
        /\ sent' = sent \cup {<<req[r].verifier, r>>}
        /\ pkce' = pkce /\ verifiers' = verifiers /\ asked' = asked
    BY <1>2 DEF Exchanging, Turns
  <2>3. req \in [Requests -> Request]
    BY DEF ConnectInv, RequestsOK
  <2>4. \A q \in Requests : /\ req'[q].verifier = req[q].verifier
                            /\ req'[q].nonce = req[q].nonce
                            /\ req'[q].pc = IF q = r THEN "exchange" ELSE req[q].pc
    BY <2>2, <2>3 DEF Request
  <2>5. \A u : VerifiersSent(u)' <=> VerifiersSent(u) \/ u = req[r].verifier
    BY <2>2 DEF VerifiersSent
  <2>6. LinkInv'
    BY <2>2, <2>4 DEF TableOfTheLink, VerifierOfTheLink
  <2>7. NextIsNew'
    BY <2>2, <2>4, <2>5 DEF NextIsNew
  <2>8. InOnePlace'
    <3>1. \A q \in Requests : ToSend(q)' => q # r /\ ToSend(q)
      BY <2>4 DEF ToSend, Doing
    <3>2. QED
      BY <2>1, <2>2, <2>4, <2>5, <3>1 DEF InOnePlace
  <2>9. QED
    BY <2>6, <2>7, <2>8
<1>3. QED
  BY <1>1, <1>2 DEF GoOn

\* A request that ends takes its verifier with it.
LEMMA Dropped ==
  ASSUME ConnectInv, VerifierInv, req' \in [Requests -> Request],
         \A r \in Requests : req'[r] = req[r] \/ req'[r].verifier = None,
         UNCHANGED <<pkce, verifiers, asked, sent>>
  PROVE  VerifierInv'
<1> USE DEF VerifierInv, LinkInv
<1>1. \A u : VerifiersSent(u)' <=> VerifiersSent(u)
  BY DEF VerifiersSent
<1>2. verifiers \in Nat
  BY DEF ConnectInv, TypeOK
<1>3. LinkInv'
  BY DEF TableOfTheLink, VerifierOfTheLink
<1>4. NextIsNew'
  BY <1>1, <1>2 DEF NextIsNew, None
<1>5. InOnePlace'
  <2>1. \A r \in Requests : req'[r].verifier # None => req'[r] = req[r]
    OBVIOUS
  <2>2. \A r \in Requests : req'[r].verifier # None /\ ToSend(r)' => ToSend(r)
    BY <2>1 DEF ToSend, Doing
  <2>3. QED
    BY <1>1, <2>1, <2>2 DEF InOnePlace
<1>6. QED
  BY <1>3, <1>4, <1>5

\* Every handler leaves a verifier in one place (start, callback).
LEMMA VerifierStep ==
  ASSUME ConnectInv, ConnectInv', VerifierInv, [ConnectNext]_connectVars
  PROVE  VerifierInv'
<1> USE DEF VerifierInv
<1>0. req \in [Requests -> Request] /\ req' \in [Requests -> Request]
  BY DEF ConnectInv, RequestsOK
<1>1. ASSUME NEW r \in Requests, NEW n \in Nonces, ArriveStart(r, n)
      PROVE  VerifierInv'
  <2>1. \A q \in Requests : req'[q] = req[q] \/ req'[q].verifier = None
    BY <1>0, <1>1 DEF ArriveStart, Turns, Start, NoRequest
  <2>2. QED
    BY <1>0, <1>1, <2>1, Dropped DEF ArriveStart
<1>2. ASSUME NEW r \in Requests, NEW a \in asked, ArriveCallback(r, a)
      PROVE  VerifierInv'
  <2> DEFINE k == a.nonce
             v == pkce[k]
  <2>1. k \in Nonces /\ v \in Verifiers /\ v # None
    BY <1>2 DEF ArriveCallback, ConnectInv, TypeOK, AuthRequest
  <2>2. /\ pkce' = [pkce EXCEPT ![k] = None]
        /\ req' = [req EXCEPT ![r] = Callback(a, v)]
        /\ verifiers' = verifiers /\ asked' = asked /\ sent' = sent
    BY <1>2 DEF ArriveCallback, Turns
  <2>3. Callback(a, v).verifier = v /\ Callback(a, v).nonce = k
    BY DEF Callback, NoRequest
  <2>4. pkce \in [Nonces -> Verifiers \cup {None}] /\ verifiers \in Nat
    BY DEF ConnectInv, TypeOK
  <2>5. \E b \in asked : b.nonce = k /\ b.verifier = v
    BY <2>1 DEF LinkInv, TableOfTheLink
  <2> HIDE DEF k, v
  <2>6. /\ \A n \in Nonces : pkce'[n] = IF n = k THEN None ELSE pkce[n]
        /\ \A q \in Requests : /\ q # r => req'[q] = req[q]
                               /\ req'[r].verifier = v /\ req'[r].nonce = k
    BY <1>0, <2>2, <2>3, <2>4
  <2>7. \A u : VerifiersSent(u)' <=> VerifiersSent(u)
    BY <2>2 DEF VerifiersSent
  <2>8. v = pkce[k]
    BY DEF v
  <2>9. LinkInv'
    BY <2>2, <2>5, <2>6 DEF LinkInv, TableOfTheLink, VerifierOfTheLink
  <2>10. NextIsNew'
    BY <2>1, <2>2, <2>4, <2>6, <2>7, <2>8 DEF NextIsNew, None
  <2>11. InOnePlace'
    <3>1. \A q \in Requests : q # r => req'[q] = req[q] /\ (ToSend(q)' => ToSend(q))
      BY <2>6 DEF ToSend, Doing
    <3>2. \A q \in Requests : q # r => req[q].verifier # v
      BY <2>1, <2>8 DEF InOnePlace
    <3>3. QED
      BY <2>1, <2>6, <2>7, <2>8, <3>1, <3>2 DEF InOnePlace
  <2>12. QED
    BY <2>9, <2>10, <2>11
<1>3. ASSUME NEW r \in Requests, ClientKnown(r)
      PROVE  VerifierInv'
  BY <1>3, GoesOnLinked DEF ClientKnown, ToSend, ConnectInv, TypeOK
<1>4. ASSUME NEW r \in Requests, ClientUnknown(r)
      PROVE  VerifierInv'
  <2>1. /\ req' = [req EXCEPT ![r] = [req[r] EXCEPT !.pc = "register"]]
        /\ Doing(r, "discover")
    BY <1>4 DEF ClientUnknown, Turns
  <2>2. \A q \in Requests : /\ req'[q].verifier = req[q].verifier
                            /\ req'[q].nonce = req[q].nonce
                            /\ ToSend(q)' => ToSend(q)
    BY <1>0, <2>1 DEF Request, ToSend, Doing
  <2>3. UNCHANGED <<pkce, verifiers, asked, sent>> /\ \A u : VerifiersSent(u)' <=> VerifiersSent(u)
    BY <1>4 DEF ClientUnknown, VerifiersSent
  <2>4. LinkInv'
    BY <2>2, <2>3 DEF LinkInv, TableOfTheLink, VerifierOfTheLink
  <2>5. NextIsNew'
    BY <2>2, <2>3 DEF NextIsNew
  <2>6. InOnePlace'
    BY <2>2, <2>3 DEF InOnePlace
  <2>7. QED
    BY <2>4, <2>5, <2>6
<1>5. ASSUME NEW r \in Requests, Registered(r)
      PROVE  VerifierInv'
  <2>1. NewClient \in Clients /\ GoOn(r, NewClient) /\ ToSend(r)
    BY <1>5 DEF Registered, Registers, ToSend
  <2> HIDE DEF NewClient
  <2>2. QED
    BY <2>1, GoesOnLinked
<1>6. ASSUME NEW r \in Requests, RegisteredTwice(r) \/ Fails(r) \/ Connected(r)
      PROVE  VerifierInv'
  <2>1. req' = [req EXCEPT ![r] = NoRequest] /\ UNCHANGED <<pkce, verifiers, asked, sent>>
    BY <1>6 DEF RegisteredTwice, Fails, Connected, Turns
  <2>2. \A q \in Requests : req'[q] = req[q] \/ req'[q].verifier = None
    BY <1>0, <2>1 DEF NoRequest
  <2>3. QED
    BY <1>0, <2>1, <2>2, Dropped
<1>7. CASE Restart
  <2>1. \A q \in Requests : req'[q].verifier = None
    BY <1>7 DEF Restart, NoRequest
  <2>2. QED
    BY <1>0, <1>7, <2>1, Dropped DEF Restart
<1>8. CASE UNCHANGED connectVars
  BY <1>0, <1>8, Dropped DEF connectVars
<1>9. QED
  BY <1>1, <1>2, <1>3, <1>4, <1>5, <1>6, <1>7, <1>8 DEF ConnectNext

\* Verifiers are in one place throughout.
LEMMA VerifiersInductive == ConnectSpec => [](ConnectInv /\ VerifierInv)
<1>1. ConnectInit => ConnectInv /\ VerifierInv
  <2>1. ASSUME ConnectInit PROVE VerifierInv
    BY <2>1 DEF ConnectInit, VerifierInv, LinkInv, TableOfTheLink, VerifierOfTheLink,
                NextIsNew, InOnePlace, VerifiersSent, NoRequest, None
  <2>2. QED
    BY <2>1, InitTypes
<1>2. ConnectInv /\ VerifierInv /\ [ConnectNext]_connectVars => (ConnectInv /\ VerifierInv)'
  BY ConnectStep, VerifierStep
<1>3. QED
  BY <1>1, <1>2, PTL DEF ConnectSpec

\* A callback presents a verifier made for its own link, for any overlap of
\* starts and callbacks of any links.
THEOREM LinkVerifier == ConnectSpec => []VerifierOfTheLink
<1>1. VerifierInv => VerifierOfTheLink
  BY DEF VerifierInv, LinkInv
<1>2. QED
  BY <1>1, VerifiersInductive, PTL

\* A verifier is sent to the authorization server at most once, whatever is
\* repeated, fails or restarts.
THEOREM OneExchange == ConnectSpec => VerifierSentOnce
<1>1. ASSUME ConnectInv, VerifierInv, [ConnectNext]_connectVars
      PROVE  [ \A r \in Requests :
                 (Doing(r, "discover") \/ Doing(r, "register")) /\ req'[r].pc = "exchange"
                   => \A q \in Requests : <<req[r].verifier, q>> \notin sent ]_connectVars
  <2> SUFFICES ASSUME ConnectNext, NEW r \in Requests, ToSend(r), req'[r].pc = "exchange"
               PROVE  ~VerifiersSent(req[r].verifier)
    BY <1>1 DEF ToSend, VerifiersSent, connectVars, Doing
  <2>1. req[r].verifier # None
    <3>0. req \in [Requests -> Request] /\ req[r].pc # "exchange"
      BY <1>1 DEF ConnectInv, RequestsOK, ToSend, Doing
    <3>1. /\ NoRequest.pc # "exchange"
          /\ \A n : Start(n).pc # "exchange"
          /\ \A a, v : Callback(a, v).pc # "exchange"
      BY DEF NoRequest, Start, Callback
    <3>2. ASSUME NEW q \in Requests, NEW cid, GoOn(q, cid)
          PROVE  req[r].kind = "callback"
      BY <3>0, <3>1, <3>2 DEF GoOn, Redirected, Exchanging, Turns
    <3>3. ASSUME NEW q \in Requests, NEW n \in Nonces, ArriveStart(q, n)
          PROVE  FALSE
      BY <3>0, <3>1, <3>3 DEF ArriveStart, Turns
    <3>4. ASSUME NEW q \in Requests, NEW a \in asked, ArriveCallback(q, a)
          PROVE  FALSE
      BY <3>0, <3>1, <3>4 DEF ArriveCallback, Turns
    <3>5. ASSUME NEW q \in Requests,
                 ClientUnknown(q) \/ RegisteredTwice(q) \/ Fails(q) \/ Connected(q)
          PROVE  FALSE
      <4>1. CASE ClientUnknown(q)
        BY <3>0, <4>1 DEF ClientUnknown, Turns, Request
      <4>2. CASE RegisteredTwice(q) \/ Fails(q) \/ Connected(q)
        BY <3>0, <3>1, <4>2 DEF RegisteredTwice, Fails, Connected, Turns
      <4>3. QED
        BY <3>5, <4>1, <4>2
    <3>6. ASSUME Restart PROVE FALSE
      BY <3>0, <3>1, <3>6 DEF Restart
    <3>7. req[r].kind = "callback"
      BY <3>2, <3>3, <3>4, <3>5, <3>6 DEF ConnectNext, ClientKnown, Registered
    <3>8. QED
      BY <1>1, <3>7 DEF ConnectInv, RequestsOK
  <2>2. QED
    BY <1>1, <2>1 DEF VerifierInv, InOnePlace
<1>2. QED
  BY <1>1, VerifiersInductive, PTL DEF VerifierSentOnce, ConnectSpec

-----------------------------------------------------------------------------
(* Calls share the tokens *)

Tokens == 0..MaxGrants
Asking == {"refresh", "answer"}

CallState == [pc : {"idle", "wait", "post", "refresh", "answer"},
              token : Tokens, refresh : Tokens, again : BOOLEAN]

TypesOK ==
  /\ vault \in [token : Tokens, refresh : Tokens, expired : BOOLEAN]
  /\ queue \in [Backends -> Seq(Callers)]
  /\ call \in [Callers -> CallState]
  /\ issued \in Tokens
  /\ refresh \subseteq Grants
  /\ spentBy \in [Grants -> Backends \cup {Nobody}]
  /\ adrift \subseteq Tokens
  /\ rotates \in BOOLEAN

\* No token is anywhere before it is issued.
OnlyIssued ==
  /\ vault.token <= issued /\ vault.refresh <= issued
  /\ \A c \in Callers : call[c].token <= issued /\ call[c].refresh <= issued
  /\ \A g \in refresh \cup adrift : g <= issued

\* Past "wait" a caller holds the lock; a refresh on its way has brought no token.
LocksKept ==
  \A c \in Callers :
    /\ call[c].pc \in Asking \cup {"post"} => Holds(c)
    /\ call[c].pc \in Asking => call[c].refresh # NoToken
    /\ call[c].pc = "refresh" => call[c].token = NoToken

TypeInv == TypesOK /\ OnlyIssued /\ LocksKept

Brought(c, g) == call[c].pc = "answer" /\ call[c].token = g

\* A token that was answered and not yet stored is good and nowhere else, when the
\* authorization server rotates; when it does not, no token is ever spent.
NewTokens == rotates =>
  \A c \in Callers, g \in Grants : Brought(c, g) =>
    /\ g \in refresh /\ g \notin adrift /\ g # vault.refresh
    /\ \A d \in Callers :
         /\ call[d].pc \in Asking => call[d].refresh # g
         /\ Brought(d, g) => d = c

\* While the token of the row is spent, whoever spent it has yet to replace the row.
SpenderAnswers ==
  vault.refresh # NoToken /\ vault.refresh \notin refresh \cup adrift =>
    \E c \in Callers : /\ call[c].pc = "answer" /\ call[c].refresh = vault.refresh
                       /\ spentBy[vault.refresh] = Uses[c]

NothingSpent == ~rotates =>
  /\ vault.refresh # NoToken => vault.refresh \in refresh
  /\ \A c \in Callers : call[c].pc \in Asking => call[c].refresh \in refresh

TokenInv == NewTokens /\ NothingSpent /\ SpenderAnswers /\ OwnTokensSentOnce

\* The line of a backend has each of its calls that is under way, once, and no other.
Line(b) ==
  /\ \A i, j \in DOMAIN queue[b] : queue[b][i] = queue[b][j] => i = j
  /\ \A c \in Callers :
       (\E i \in DOMAIN queue[b] : queue[b][i] = c) <=> Uses[c] = b /\ call[c].pc # "idle"
Lines == \A b \in Backends : Line(b)

IInv == TypeInv /\ Lines /\ TokenInv

-----------------------------------------------------------------------------
(* The locks *)

\* Two callers that hold locks use different backends.
LEMMA HoldersApart ==
  ASSUME NEW c \in Callers, NEW d \in Callers, c # d, Holds(c), Holds(d)
  PROVE  Uses[c] # Uses[d]
  BY DEF Holds

\* A caller that leaves takes no lock from another.
LEMMA ReleaseKeepsHolders ==
  ASSUME TypeInv, NEW c \in Callers, Holds(c), Release(c),
         NEW d \in Callers, d # c, Holds(d)
  PROVE  Holds(d)'
<1>1. Uses[c] # Uses[d]
  BY HoldersApart
<1>2. queue'[Uses[d]] = queue[Uses[d]]
  BY <1>1 DEF Release, TypeInv, TypesOK
<1>3. QED
  BY <1>2 DEF Holds

\* Who waits for a lock takes it from nobody.
LEMMA EnterKeepsHolders ==
  ASSUME TypeInv, NEW c \in Callers, Enter(c), NEW d \in Callers, Holds(d)
  PROVE  Holds(d)'
<1>1. queue[Uses[d]] \in Seq(Callers) /\ queue[Uses[d]] # <<>>
  BY DEF Holds, TypeInv, TypesOK
<1>2. queue'[Uses[d]] \in {queue[Uses[d]], Append(queue[Uses[d]], c)}
  BY DEF Enter, TypeInv, TypesOK
<1>3. QED
  BY <1>1, <1>2 DEF Holds

-----------------------------------------------------------------------------
(* Calls go on *)

\* What a call may still do: wait, refresh at once, post, refresh after a 401, post again.
Ahead(s) ==
  CASE s.pc = "idle" -> 0
    [] s.pc = "wait" -> 7
    [] s.pc = "refresh" -> IF s.again THEN 3 ELSE 6
    [] s.pc = "answer" -> IF s.again THEN 2 ELSE 5
    [] OTHER -> IF s.again THEN 1 ELSE 4

\* Each step of a call, and whatever else befalls it, brings it nearer to its end.
CallGoesOn(c) ==
  \/ CallerStep(c) \/ AuthServerAccepts(c) \/ AuthServerRefuses(c)
  \/ call[c].pc # "idle" /\ call'[c] # call[c]
  => Ahead(call'[c]) < Ahead(call[c])

\* What the actions of the callers make of a call.
LEMMA CallBecomes ==
  ASSUME TypesOK, NEW c \in Callers
  PROVE  /\ \A s : Becomes(c, s) => call'[c] = s /\ \A d \in Callers \ {c} : call'[d] = call[d]
         /\ Idle.pc = "idle"
         /\ Release(c) => call'[c] = Idle /\ \A d \in Callers \ {c} : call'[d] = call[d]
<1>1. call \in [Callers -> CallState]
  BY DEF TypesOK
<1>2. \A s : Becomes(c, s) => call'[c] = s /\ \A d \in Callers \ {c} : call'[d] = call[d]
  BY <1>1 DEF Becomes
<1>3. Idle.pc = "idle"
  BY DEF Idle
<1>4. QED
  BY <1>2, <1>3 DEF Release

\* A call that is left, and one that goes on: the place it comes to is nearer the end.
LEMMA CallIsNearer ==
  ASSUME TypesOK, NEW c \in Callers,
         CallerStep(c) \/ AuthServerAccepts(c) \/ AuthServerRefuses(c)
  PROVE  /\ Ahead(call'[c]) < Ahead(call[c])
         /\ \A d \in Callers \ {c} : call'[d] = call[d]
<1>1. call[c] \in CallState
  BY DEF TypesOK
<1>2. CASE Unconnected(c) \/ Answered(c) \/ RefusedForGood(c) \/ RefreshGivesUp(c)
  <2>1. Release(c) /\ call[c].pc \in {"wait", "post", "refresh", "answer"}
    BY <1>2 DEF Unconnected, Answered, RefusedForGood, RefreshGivesUp, At
  <2>2. call'[c].pc = "idle" /\ \A d \in Callers \ {c} : call'[d] = call[d]
    BY <2>1, CallBecomes
  <2>3. QED
    BY <2>1, <2>2 DEF Ahead
<1>3. CASE Expired(c)
  <2> DEFINE s == [pc |-> "refresh", token |-> NoToken, refresh |-> vault.refresh,
                   again |-> FALSE]
  <2>1. Becomes(c, s) /\ call[c].pc = "wait"
    BY <1>3 DEF Expired, AskRefresh, At
  <2>2. s.pc = "refresh" /\ s.again = FALSE
    OBVIOUS
  <2> HIDE DEF s
  <2>3. call'[c] = s /\ \A d \in Callers \ {c} : call'[d] = call[d]
    BY <2>1, CallBecomes
  <2>4. QED
    BY <2>1, <2>2, <2>3 DEF Ahead
<1>4. CASE Refused(c)
  <2> DEFINE s == [pc |-> "refresh", token |-> NoToken, refresh |-> vault.refresh,
                   again |-> TRUE]
  <2>1. Becomes(c, s) /\ call[c].pc = "post" /\ ~call[c].again
    BY <1>4 DEF Refused, AskRefresh, At
  <2>2. s.pc = "refresh" /\ s.again = TRUE
    OBVIOUS
  <2> HIDE DEF s
  <2>3. call'[c] = s /\ \A d \in Callers \ {c} : call'[d] = call[d]
    BY <2>1, CallBecomes
  <2>4. QED
    BY <2>1, <2>2, <2>3 DEF Ahead
<1>5. CASE Send(c)
  <2> DEFINE s == [call[c] EXCEPT !.pc = "post", !.token = vault.token]
  <2>1. Becomes(c, s) /\ call[c].pc = "wait"
    BY <1>5 DEF Send, At
  <2>2. s.pc = "post"
    BY <1>1 DEF CallState
  <2> HIDE DEF s
  <2>3. call'[c] = s /\ \A d \in Callers \ {c} : call'[d] = call[d]
    BY <2>1, CallBecomes
  <2>4. QED
    BY <2>1, <2>2, <2>3 DEF Ahead
<1>6. CASE RefreshStored(c)
  <2> DEFINE s == [call[c] EXCEPT !.pc = "post"]
  <2>1. Becomes(c, s) /\ call[c].pc = "answer"
    BY <1>6 DEF RefreshStored, At
  <2>2. s.pc = "post" /\ s.again = call[c].again
    BY <1>1 DEF CallState
  <2> HIDE DEF s
  <2>3. call'[c] = s /\ \A d \in Callers \ {c} : call'[d] = call[d]
    BY <2>1, CallBecomes
  <2>4. QED
    BY <2>1, <2>2, <2>3 DEF Ahead
<1>7. CASE AuthServerAccepts(c)
  <2> DEFINE s == [call[c] EXCEPT !.pc = "answer", !.token = NewGrant]
  <2>1. Becomes(c, s) /\ call[c].pc = "refresh"
    BY <1>7 DEF AuthServerAccepts, At
  <2>2. s.pc = "answer" /\ s.again = call[c].again
    BY <1>1 DEF CallState
  <2> HIDE DEF s
  <2>3. call'[c] = s /\ \A d \in Callers \ {c} : call'[d] = call[d]
    BY <2>1, CallBecomes
  <2>4. QED
    BY <2>1, <2>2, <2>3 DEF Ahead
<1>8. CASE AuthServerRefuses(c)
  <2> DEFINE s == [call[c] EXCEPT !.pc = "answer"]
  <2>1. Becomes(c, s) /\ call[c].pc = "refresh"
    BY <1>8 DEF AuthServerRefuses, At
  <2>2. s.pc = "answer" /\ s.again = call[c].again
    BY <1>1 DEF CallState
  <2> HIDE DEF s
  <2>3. call'[c] = s /\ \A d \in Callers \ {c} : call'[d] = call[d]
    BY <2>1, CallBecomes
  <2>4. QED
    BY <2>1, <2>2, <2>3 DEF Ahead
<1>9. QED
  BY <1>2, <1>3, <1>4, <1>5, <1>6, <1>7, <1>8 DEF CallerStep

-----------------------------------------------------------------------------
(* Lines are served *)

\* What is in front of a call that is still under way stays as it is, or is short of one
\* call, which has ended.
PlaceKept(c) == LET now == queue[Uses[c]]
                    next == queue'[Uses[c]] IN
  \A i \in DOMAIN now :
    now[i] = c /\ call'[c].pc # "idle" =>
      \/ i \in DOMAIN next /\ \A j \in 1..i : next[j] = now[j]
      \/ \E k \in 1..i - 1 :
           /\ call'[now[k]].pc = "idle"
           /\ i - 1 \in DOMAIN next
           /\ \A j \in 1..i - 1 : next[j] = IF j < k THEN now[j] ELSE now[j + 1]

\* RemoveAt takes one place out of a sequence and leaves the others in order.
LEMMA RemoveAtPlaces ==
  ASSUME NEW S, NEW s \in Seq(S), NEW k \in 1..Len(s)
  PROVE  /\ RemoveAt(s, k) \in Seq(S)
         /\ Len(RemoveAt(s, k)) = Len(s) - 1
         /\ \A i \in 1..Len(s) - 1 : RemoveAt(s, k)[i] = IF i < k THEN s[i] ELSE s[i + 1]
<1> DEFINE a == SubSeq(s, 1, k - 1)
           b == SubSeq(s, k + 1, Len(s))
<1>1. Len(s) \in Nat /\ k \in Nat
  BY LenProperties
<1>2. /\ a \in Seq(S) /\ Len(a) = k - 1
      /\ \A i \in 1..k - 1 : a[i] = s[i]
  <2>1. \A i \in 1..k - 1 : s[i] \in S
    BY <1>1, ElementOfSeq
  <2>2. QED
    BY <1>1, <2>1, SubSeqProperties
<1>3. /\ b \in Seq(S) /\ Len(b) = Len(s) - k
      /\ \A i \in 1..Len(s) - k : b[i] = s[k + i]
  <2>1. \A i \in k + 1..Len(s) : s[i] \in S
    BY <1>1, ElementOfSeq
  <2>2. QED
    BY <1>1, <2>1, SubSeqProperties
<1> HIDE DEF a, b
<1>4. /\ a \o b \in Seq(S) /\ Len(a \o b) = Len(s) - 1
      /\ \A i \in 1..Len(s) - 1 : (a \o b)[i] = IF i <= k - 1 THEN a[i] ELSE b[i - (k - 1)]
  <2>1. Len(a) + Len(b) = Len(s) - 1
    BY <1>1, <1>2, <1>3
  <2>2. /\ a \o b \in Seq(S) /\ Len(a \o b) = Len(a) + Len(b)
        /\ \A i \in 1..Len(a) + Len(b) :
             (a \o b)[i] = IF i <= Len(a) THEN a[i] ELSE b[i - Len(a)]
    BY <1>2, <1>3, ConcatProperties
  <2>3. QED
    BY <1>2, <2>1, <2>2
<1>5. ASSUME NEW i \in 1..Len(s) - 1
      PROVE  (a \o b)[i] = IF i < k THEN s[i] ELSE s[i + 1]
  <2>1. CASE i < k
    BY <1>1, <1>2, <1>4, <2>1
  <2>2. CASE ~(i < k)
    <3>1. i - (k - 1) \in 1..Len(s) - k /\ k + (i - (k - 1)) = i + 1
      BY <1>1, <2>2
    <3>2. b[i - (k - 1)] = s[i + 1]
      BY <1>3, <3>1
    <3>3. ~(i <= k - 1)
      BY <1>1, <2>2
    <3>4. QED
      BY <1>4, <2>2, <3>2, <3>3
  <2>3. QED
    BY <2>1, <2>2
<1>6. RemoveAt(s, k) = a \o b
  BY DEF RemoveAt, a, b
<1>7. QED
  BY <1>4, <1>5, <1>6

\* A caller gets in line, at its end.
LEMMA LineGrows ==
  ASSUME TypesOK, Lines, NEW c \in Callers, Enter(c)
  PROVE  Lines' /\ \A d \in Callers : PlaceKept(d)
<1>1. PICK q : q = queue[Uses[c]]
  OBVIOUS
<1>2. q \in Seq(Callers) /\ Uses[c] \in Backends
  BY <1>1 DEF TypesOK
<1>3. Len(q) \in Nat /\ DOMAIN q = 1..Len(q)
  BY <1>2, LenProperties
<1>4. /\ queue'[Uses[c]] = Append(q, c)
      /\ \A b \in Backends : b # Uses[c] => queue'[b] = queue[b]
  BY <1>1, <1>2 DEF Enter, TypesOK
<1>5. /\ DOMAIN Append(q, c) = 1..Len(q) + 1 /\ Append(q, c)[Len(q) + 1] = c
      /\ \A i \in 1..Len(q) : Append(q, c)[i] = q[i]
  BY <1>2, AppendProperties
<1>6. /\ call[c].pc = "idle" /\ call'[c].pc = "wait"
      /\ \A d \in Callers : d # c => call'[d] = call[d]
  BY DEF Enter, Becomes, TypesOK, Idle
<1>7. \A i \in 1..Len(q) : q[i] # c
  BY <1>1, <1>2, <1>3, <1>6 DEF Lines, Line
<1>8. ASSUME NEW b \in Backends
      PROVE  Line(b)'
  <2>1. CASE b # Uses[c]
    <3>1. queue'[b] = queue[b]
      BY <1>4, <2>1
    <3>2. QED
      BY <1>6, <2>1, <3>1 DEF Lines, Line
  <2>2. CASE b = Uses[c]
    <3>1. queue'[b] = Append(q, c) /\ queue[b] = q
      BY <1>1, <1>4, <2>2
    <3>2. \A i, j \in DOMAIN queue'[b] : queue'[b][i] = queue'[b][j] => i = j
      <4>1. \A i, j \in 1..Len(q) : q[i] = q[j] => i = j
        BY <1>3, <3>1 DEF Lines, Line
      <4>2. \A i \in 1..Len(q) + 1 : i \in 1..Len(q) \/ i = Len(q) + 1
        BY <1>3
      <4>3. QED
        BY <1>5, <1>7, <3>1, <4>1, <4>2
    <3>3. ASSUME NEW d \in Callers
          PROVE  (\E i \in DOMAIN queue'[b] : queue'[b][i] = d)
                   <=> Uses[d] = b /\ call'[d].pc # "idle"
      <4>1. CASE d = c
        BY <1>3, <1>5, <1>6, <2>2, <3>1, <4>1
      <4>2. CASE d # c
        <5>1. (\E i \in 1..Len(q) : q[i] = d) <=> Uses[d] = b /\ call[d].pc # "idle"
          BY <1>3, <3>1 DEF Lines, Line
        <5>2. (\E i \in DOMAIN queue'[b] : queue'[b][i] = d) <=> (\E i \in 1..Len(q) : q[i] = d)
          <6>1. \A i \in 1..Len(q) + 1 : i \in 1..Len(q) \/ i = Len(q) + 1
            BY <1>3
          <6>2. \A i \in 1..Len(q) : i \in 1..Len(q) + 1
            BY <1>3
          <6>3. QED
            BY <1>5, <3>1, <4>2, <6>1, <6>2
        <5>3. QED
          BY <1>6, <4>2, <5>1, <5>2
      <4>3. QED
        BY <4>1, <4>2
    <3>4. QED
      BY <3>2, <3>3 DEF Line
  <2>3. QED
    BY <2>1, <2>2
<1>9. ASSUME NEW d \in Callers
      PROVE  PlaceKept(d)
  <2>1. CASE Uses[d] = Uses[c]
    <3>1. queue'[Uses[d]] = Append(q, c) /\ queue[Uses[d]] = q
      BY <1>1, <1>4, <2>1
    <3>2. \A i \in 1..Len(q) : i \in 1..Len(q) + 1 /\ 1 \in 1..Len(q)
      BY <1>3
    <3>3. QED
      BY <1>3, <1>5, <3>1, <3>2 DEF PlaceKept
  <2>2. CASE Uses[d] # Uses[c]
    <3>1. queue'[Uses[d]] = queue[Uses[d]]
      BY <1>4, <2>2
    <3>2. QED
      BY <3>1 DEF PlaceKept
  <2>3. QED
    BY <2>1, <2>2
<1>10. QED
  BY <1>8, <1>9 DEF Lines

\* A call leaves its place in the line.
Leaving(c, k) ==
  /\ k \in DOMAIN queue[Uses[c]] /\ queue[Uses[c]][k] = c
  /\ queue'[Uses[c]] \in Seq(Callers)
  /\ Len(queue'[Uses[c]]) = Len(queue[Uses[c]]) - 1
  /\ \A i \in 1..Len(queue[Uses[c]]) - 1 :
       queue'[Uses[c]][i] = IF i < k THEN queue[Uses[c]][i] ELSE queue[Uses[c]][i + 1]
  /\ \A b \in Backends : b # Uses[c] => queue'[b] = queue[b]
  /\ call'[c].pc = "idle"
  /\ \A d \in Callers \ {c} : call'[d] = call[d]

\* The holder leaves the first place.
LEMMA HolderLeaves ==
  ASSUME TypesOK, NEW c \in Callers, Holds(c), Release(c)
  PROVE  Leaving(c, 1)
<1>1. PICK q : q = queue[Uses[c]]
  OBVIOUS
<1>2. q \in Seq(Callers) /\ q # <<>> /\ Uses[c] \in Backends
  BY <1>1 DEF TypesOK, Holds
<1>3. Len(q) \in Nat \ {0} /\ DOMAIN q = 1..Len(q) /\ q[1] = c
  BY <1>1, <1>2, LenProperties DEF Holds
<1>4. /\ queue'[Uses[c]] = Tail(q)
      /\ \A b \in Backends : b # Uses[c] => queue'[b] = queue[b]
  BY <1>1, <1>2 DEF Release, TypesOK
<1>5. /\ Tail(q) \in Seq(Callers) /\ Len(Tail(q)) = Len(q) - 1
      /\ \A i \in 1..Len(q) - 1 : Tail(q)[i] = q[i + 1]
  BY <1>2, HeadTailProperties
<1>6. call'[c].pc = "idle" /\ \A d \in Callers \ {c} : call'[d] = call[d]
  BY CallBecomes
<1>7. \A i \in 1..Len(q) - 1 : ~(i < 1) /\ 1 \in 1..Len(q)
  BY <1>3
<1>8. 1 \in DOMAIN q
  BY <1>3
<1>9. QED
  BY <1>1, <1>3, <1>4, <1>5, <1>6, <1>7, <1>8 DEF Leaving

\* A call that is broken off leaves the place it has.
LEMMA BrokenOffLeaves ==
  ASSUME TypesOK, Lines, NEW c \in Callers, BreaksOff(c)
  PROVE  \E k \in DOMAIN queue[Uses[c]] : Leaving(c, k)
<1>1. PICK q : q = queue[Uses[c]]
  OBVIOUS
<1>2. q \in Seq(Callers) /\ Uses[c] \in Backends
  BY <1>1 DEF TypesOK
<1>3. Len(q) \in Nat /\ DOMAIN q = 1..Len(q)
  BY <1>2, LenProperties
<1>4. \E i \in DOMAIN q : q[i] = c
  BY <1>1, <1>2 DEF BreaksOff, Lines, Line
<1>5. PICK k : k = CHOOSE i \in DOMAIN queue[Uses[c]] : queue[Uses[c]][i] = c
  OBVIOUS
<1>6. k \in DOMAIN q /\ q[k] = c
  BY <1>1, <1>4, <1>5
<1>7. queue' = [queue EXCEPT ![Uses[c]] = RemoveAt(@, k)]
  BY <1>5 DEF BreaksOff
<1>8. /\ queue'[Uses[c]] = RemoveAt(q, k)
      /\ \A b \in Backends : b # Uses[c] => queue'[b] = queue[b]
  BY <1>1, <1>2, <1>7 DEF TypesOK
<1>9. /\ RemoveAt(q, k) \in Seq(Callers)
      /\ Len(RemoveAt(q, k)) = Len(q) - 1
      /\ \A i \in 1..Len(q) - 1 : RemoveAt(q, k)[i] = IF i < k THEN q[i] ELSE q[i + 1]
  BY <1>2, <1>3, <1>6, RemoveAtPlaces
<1>10. call'[c].pc = "idle" /\ \A d \in Callers \ {c} : call'[d] = call[d]
  BY CallBecomes DEF BreaksOff
<1>11. QED
  BY <1>1, <1>6, <1>8, <1>9, <1>10 DEF Leaving

\* Those behind a call that leaves move up.
LEMMA LineMoves ==
  ASSUME TypesOK, Lines, NEW c \in Callers, NEW k \in DOMAIN queue[Uses[c]], Leaving(c, k)
  PROVE  Lines' /\ \A d \in Callers : PlaceKept(d)
<1>1. PICK q : q = queue[Uses[c]]
  OBVIOUS
<1>2. PICK n : n = queue'[Uses[c]]
  OBVIOUS
<1>3. q \in Seq(Callers) /\ Uses[c] \in Backends
  BY <1>1 DEF TypesOK
<1>4. Len(q) \in Nat /\ DOMAIN q = 1..Len(q) /\ k \in 1..Len(q) /\ q[k] = c
  BY <1>1, <1>3, LenProperties DEF Leaving
<1>5. /\ n \in Seq(Callers) /\ Len(n) = Len(q) - 1
      /\ \A i \in 1..Len(q) - 1 : n[i] = IF i < k THEN q[i] ELSE q[i + 1]
  BY <1>1, <1>2 DEF Leaving
<1>6. DOMAIN n = 1..Len(q) - 1
  BY <1>5, LenProperties
<1>7. /\ call'[c].pc = "idle"
      /\ \A d \in Callers : d # c => call'[d] = call[d]
      /\ \A b \in Backends : b # Uses[c] => queue'[b] = queue[b]
  BY DEF Leaving
<1>8. \A i, j \in 1..Len(q) : q[i] = q[j] => i = j
  BY <1>1, <1>3, <1>4 DEF Lines, Line
<1>9. \A i \in 1..Len(q) - 1 : i \in 1..Len(q) /\ i + 1 \in 1..Len(q)
  BY <1>4
<1>10. ASSUME NEW b \in Backends
       PROVE  Line(b)'
  <2>1. CASE b # Uses[c]
    <3>1. queue'[b] = queue[b]
      BY <1>7, <2>1
    <3>2. (\E i \in DOMAIN queue[b] : queue[b][i] = c) <=> FALSE
      BY <2>1 DEF Lines, Line
    <3>3. QED
      BY <1>7, <2>1, <3>1, <3>2 DEF Lines, Line
  <2>2. CASE b = Uses[c]
    <3>1. queue'[b] = n /\ queue[b] = q
      BY <1>1, <1>2, <2>2
    <3>2. \A i, j \in DOMAIN queue'[b] : queue'[b][i] = queue'[b][j] => i = j
      <4>1. SUFFICES ASSUME NEW i \in 1..Len(q) - 1, NEW j \in 1..Len(q) - 1, n[i] = n[j]
                     PROVE  i = j
        BY <1>6, <3>1
      <4>2. /\ n[i] = IF i < k THEN q[i] ELSE q[i + 1]
            /\ n[j] = IF j < k THEN q[j] ELSE q[j + 1]
        BY <1>5
      <4>3. (IF i < k THEN i ELSE i + 1) = (IF j < k THEN j ELSE j + 1)
        BY <1>8, <1>9, <4>1, <4>2
      <4>4. QED
        BY <1>4, <4>3
    <3>3. ASSUME NEW d \in Callers
          PROVE  (\E i \in DOMAIN queue'[b] : queue'[b][i] = d)
                   <=> Uses[d] = b /\ call'[d].pc # "idle"
      <4>1. (\E i \in 1..Len(q) : q[i] = d) <=> Uses[d] = b /\ call[d].pc # "idle"
        BY <1>4, <3>1 DEF Lines, Line
      <4>2. CASE d = c
        <5>1. SUFFICES ASSUME NEW i \in 1..Len(q) - 1, n[i] = c
                       PROVE  FALSE
          BY <1>6, <1>7, <3>1, <4>2
        <5>2. (IF i < k THEN i ELSE i + 1) = k
          BY <1>4, <1>5, <1>8, <1>9, <5>1
        <5>3. QED
          BY <1>4, <5>2
      <4>3. CASE d # c
        <5>1. ASSUME NEW i \in 1..Len(q), q[i] = d
              PROVE  \E j \in DOMAIN queue'[b] : queue'[b][j] = d
          <6>1. i # k
            BY <1>4, <4>3, <5>1
          <6>2. CASE i < k
            <7>1. i \in 1..Len(q) - 1 /\ n[i] = d
              BY <1>4, <1>5, <5>1, <6>2
            <7>2. QED
              BY <1>6, <3>1, <7>1
          <6>3. CASE i > k
            <7>1. i - 1 \in 1..Len(q) - 1 /\ ~(i - 1 < k) /\ (i - 1) + 1 = i
              BY <1>4, <6>3
            <7>2. n[i - 1] = d
              BY <1>5, <5>1, <7>1
            <7>3. QED
              BY <1>6, <3>1, <7>1, <7>2
          <6>4. QED
            BY <1>4, <6>1, <6>2, <6>3
        <5>2. ASSUME NEW i \in DOMAIN queue'[b], queue'[b][i] = d
              PROVE  \E j \in 1..Len(q) : q[j] = d
          BY <1>5, <1>6, <1>9, <3>1, <5>2
        <5>3. QED
          BY <1>7, <4>1, <4>3, <5>1, <5>2
      <4>4. QED
        BY <4>2, <4>3
    <3>4. QED
      BY <3>2, <3>3 DEF Line
  <2>3. QED
    BY <2>1, <2>2
<1>11. ASSUME NEW d \in Callers
       PROVE  PlaceKept(d)
  <2>1. CASE Uses[d] = Uses[c]
    <3>1. queue'[Uses[d]] = n /\ queue[Uses[d]] = q
      BY <1>1, <1>2, <2>1
    <3>2. ASSUME NEW i \in 1..Len(q), q[i] = d, call'[d].pc # "idle"
          PROVE  \/ i \in DOMAIN n /\ \A j \in 1..i : n[j] = q[j]
                 \/ \E m \in 1..i - 1 :
                      /\ call'[q[m]].pc = "idle"
                      /\ i - 1 \in DOMAIN n
                      /\ \A j \in 1..i - 1 : n[j] = IF j < m THEN q[j] ELSE q[j + 1]
      <4>1. i # k
        BY <1>4, <1>7, <3>2
      <4>2. CASE i < k
        <5>1. i \in 1..Len(q) - 1 /\ \A j \in 1..i : j \in 1..Len(q) - 1 /\ j < k
          BY <1>4, <4>2
        <5>2. QED
          BY <1>5, <1>6, <5>1
      <4>3. CASE i > k
        <5>1. /\ i - 1 \in 1..Len(q) - 1 /\ k \in 1..i - 1
              /\ \A j \in 1..i - 1 : j \in 1..Len(q) - 1
          BY <1>4, <4>3
        <5>2. call'[q[k]].pc = "idle"
          BY <1>4, <1>7
        <5>3. QED
          BY <1>5, <1>6, <5>1, <5>2
      <4>4. QED
        BY <1>4, <4>1, <4>2, <4>3
    <3>3. QED
      BY <1>4, <3>1, <3>2 DEF PlaceKept
  <2>2. CASE Uses[d] # Uses[c]
    <3>1. queue'[Uses[d]] = queue[Uses[d]]
      BY <1>7, <2>2
    <3>2. QED
      BY <3>1 DEF PlaceKept
  <2>3. QED
    BY <2>1, <2>2
<1>12. QED
  BY <1>10, <1>11 DEF Lines

\* Calls go on where they are.
LEMMA LineStays ==
  ASSUME Lines, queue' = queue,
         \A d \in Callers : call'[d].pc # "idle" <=> call[d].pc # "idle"
  PROVE  Lines' /\ \A d \in Callers : PlaceKept(d)
  BY DEF Lines, Line, PlaceKept

\* A call with the lock that asks the authorization server, or its own server.
LEMMA CallStays ==
  ASSUME TypesOK, NEW c \in Callers,
         \/ Expired(c) \/ Send(c) \/ Refused(c) \/ RefreshStored(c)
         \/ AuthServerAccepts(c) \/ AuthServerRefuses(c)
  PROVE  queue' = queue /\ \A d \in Callers : call'[d].pc # "idle" <=> call[d].pc # "idle"
<1>1. queue' = queue /\ call[c].pc # "idle"
  BY DEF Expired, Send, Refused, RefreshStored, AuthServerAccepts, AuthServerRefuses, AskRefresh, At
<1>2. call'[c].pc \in {"refresh", "post", "answer"}
  <2>1. call[c] \in CallState /\ call \in [Callers -> CallState]
    BY DEF TypesOK
  <2>2. CASE Expired(c) \/ Refused(c)
    BY <2>1, <2>2 DEF Expired, Refused, AskRefresh, Becomes
  <2>3. CASE Send(c)
    <3> DEFINE s == [call[c] EXCEPT !.pc = "post", !.token = vault.token]
    <3>1. Becomes(c, s)
      BY <2>3 DEF Send
    <3>2. s.pc = "post"
      BY <2>1 DEF CallState
    <3> HIDE DEF s
    <3>3. call'[c] = s
      BY <3>1, CallBecomes
    <3>4. QED
      BY <3>2, <3>3
  <2>4. CASE RefreshStored(c)
    <3> DEFINE s == [call[c] EXCEPT !.pc = "post"]
    <3>1. Becomes(c, s)
      BY <2>4 DEF RefreshStored
    <3>2. s.pc = "post"
      BY <2>1 DEF CallState
    <3> HIDE DEF s
    <3>3. call'[c] = s
      BY <3>1, CallBecomes
    <3>4. QED
      BY <3>2, <3>3
  <2>5. CASE AuthServerAccepts(c)
    <3> DEFINE s == [call[c] EXCEPT !.pc = "answer", !.token = NewGrant]
    <3>1. Becomes(c, s)
      BY <2>5 DEF AuthServerAccepts
    <3>2. s.pc = "answer"
      BY <2>1 DEF CallState
    <3> HIDE DEF s
    <3>3. call'[c] = s
      BY <3>1, CallBecomes
    <3>4. QED
      BY <3>2, <3>3
  <2>6. CASE AuthServerRefuses(c)
    <3> DEFINE s == [call[c] EXCEPT !.pc = "answer"]
    <3>1. Becomes(c, s)
      BY <2>6 DEF AuthServerRefuses
    <3>2. s.pc = "answer"
      BY <2>1 DEF CallState
    <3> HIDE DEF s
    <3>3. call'[c] = s
      BY <3>1, CallBecomes
    <3>4. QED
      BY <3>2, <3>3
  <2>7. QED
    BY <2>2, <2>3, <2>4, <2>5, <2>6
<1>3. \A d \in Callers \ {c} : call'[d] = call[d]
  BY CallIsNearer DEF CallerStep
<1>4. QED
  BY <1>1, <1>2, <1>3

\* Each step, but for the death of the process, after which there is no line.
LEMMA LineStep ==
  ASSUME TypesOK, Lines, [Next]_vars
  PROVE  Lines' /\ \A c \in Callers : PlaceKept(c)
<1>1. ASSUME NEW c \in Callers, Enter(c)
      PROVE  Lines' /\ \A d \in Callers : PlaceKept(d)
  BY <1>1, LineGrows
<1>2. ASSUME NEW c \in Callers,
             Unconnected(c) \/ Answered(c) \/ RefusedForGood(c) \/ RefreshGivesUp(c)
      PROVE  Lines' /\ \A d \in Callers : PlaceKept(d)
  <2>1. Holds(c) /\ Release(c)
    BY <1>2 DEF Unconnected, Answered, RefusedForGood, RefreshGivesUp, At
  <2>2. Leaving(c, 1)
    BY <2>1, HolderLeaves
  <2>3. QED
    BY <2>2, LineMoves DEF Leaving
<1>3. ASSUME NEW c \in Callers,
             \/ Expired(c) \/ Send(c) \/ Refused(c) \/ RefreshStored(c)
             \/ AuthServerAccepts(c) \/ AuthServerRefuses(c)
      PROVE  Lines' /\ \A d \in Callers : PlaceKept(d)
  BY <1>3, CallStays, LineStays
<1>4. CASE Connect \/ RowExpires \/ (\E g \in Grants : AuthServerAcceptsAdrift(g))
           \/ UNCHANGED vars
  <2>1. queue' = queue /\ call' = call
    BY <1>4 DEF Connect, RowExpires, AuthServerAcceptsAdrift, vars
  <2>2. QED
    BY <2>1, LineStays
<1>5. CASE Crash
  <2>1. /\ \A b \in Backends : queue'[b] = <<>>
        /\ \A c \in Callers : call'[c].pc = "idle"
    BY <1>5 DEF Crash, Idle
  <2>2. Lines'
    BY <2>1 DEF Lines, Line
  <2>3. QED
    BY <2>1, <2>2 DEF PlaceKept
<1>6. ASSUME NEW c \in Callers, BreaksOff(c)
      PROVE  Lines' /\ \A d \in Callers : PlaceKept(d)
  BY <1>6, BrokenOffLeaves, LineMoves
<1>7. QED
  BY <1>1, <1>2, <1>3, <1>4, <1>5, <1>6 DEF Next, CallerStep

-----------------------------------------------------------------------------
(* Types *)

\* Nothing is issued and nobody calls, at first.
LEMMA InitInv ==
  ASSUME Init
  PROVE  IInv
<1> USE DEF Init, Idle, NoRow, NoToken, Grants, Tokens
<1>1. TypesOK
  BY DEF TypesOK, CallState
<1>2. OnlyIssued /\ LocksKept
  BY DEF OnlyIssued, LocksKept, Asking
<1>3. NewTokens /\ NothingSpent /\ SpenderAnswers /\ OwnTokensSentOnce
  BY DEF NewTokens, NothingSpent, Brought, SpenderAnswers, OwnTokensSentOnce, Asking
<1>4. Lines
  BY DEF Lines, Line
<1>5. QED
  BY <1>1, <1>2, <1>3, <1>4 DEF IInv, TypeInv, TokenInv

\* What the record of a caller becomes is such a record.
LEMMA Records ==
  /\ Idle \in CallState /\ Idle.pc = "idle" /\ Idle.token = NoToken /\ Idle.refresh = NoToken
  /\ \A r \in CallState :
       /\ r.token \in Tokens /\ r.refresh \in Tokens
       /\ \A pc \in {"wait", "post", "answer"} :
            [r EXCEPT !.pc = pc] \in CallState
       /\ \A pc \in {"post", "answer"}, g \in Tokens :
            [r EXCEPT !.pc = pc, !.token = g] \in CallState
<1>1. NoToken \in Tokens
  BY DEF NoToken, Tokens
<1>2. QED
  BY <1>1 DEF Idle, CallState

\* One caller whose record changes, the others as they are.
LEMMA Becoming ==
  ASSUME call \in [Callers -> CallState], NEW c \in Callers, NEW s \in CallState,
         Becomes(c, s)
  PROVE  /\ call' \in [Callers -> CallState]
         /\ call'[c] = s
         /\ \A d \in Callers : d # c => call'[d] = call[d]
  BY DEF Becomes

\* No row is a row without tokens.
LEMMA NoRowTyped == NoRow \in [token : Tokens, refresh : Tokens, expired : BOOLEAN]
<1>1. NoToken \in Tokens
  BY DEF NoToken, Tokens
<1>2. QED
  BY <1>1 DEF NoRow

\* A caller that leaves, with the row or without it.
LEMMA Leaves ==
  ASSUME TypeInv, NEW c \in Callers, Holds(c), Release(c), vault' \in {vault, NoRow},
         UNCHANGED <<issued, refresh, spentBy, adrift, rotates>>
  PROVE  TypeInv' /\ call'[c] = Idle /\ \A d \in Callers : d # c => call'[d] = call[d]
<1> USE DEF TypeInv, NoToken, Tokens
<1>1. Idle \in CallState /\ Becomes(c, Idle)
  BY DEF Idle, CallState, Release, CallsAssumption
<1>2. /\ call' \in [Callers -> CallState] /\ call'[c] = Idle
      /\ \A d \in Callers : d # c => call'[d] = call[d]
  BY <1>1, Becoming DEF TypesOK
<1>3. queue' \in [Backends -> Seq(Callers)]
  <2>1. queue[Uses[c]] \in Seq(Callers) /\ queue[Uses[c]] # <<>>
    BY DEF TypesOK, Holds
  <2>2. Tail(queue[Uses[c]]) \in Seq(Callers)
    BY <2>1
  <2>3. QED
    BY <2>2 DEF Release, TypesOK
<1>4. TypesOK'
  <2>1. vault' \in [token : Tokens, refresh : Tokens, expired : BOOLEAN]
    BY NoRowTyped DEF TypesOK
  <2>2. QED
    BY <1>2, <1>3, <2>1 DEF TypesOK
<1>5. OnlyIssued'
  <2>1. NoToken <= issued
    BY DEF TypesOK
  <2>2. vault'.token <= issued /\ vault'.refresh <= issued
    BY <2>1 DEF OnlyIssued, NoRow
  <2>3. \A d \in Callers : call'[d].token <= issued /\ call'[d].refresh <= issued
    BY <1>2, <2>1, Records DEF OnlyIssued
  <2>4. QED
    BY <2>2, <2>3 DEF OnlyIssued
<1>6. LocksKept'
  BY <1>2, ReleaseKeepsHolders DEF LocksKept, Idle, Asking
<1>7. QED
  BY <1>2, <1>4, <1>5, <1>6

\* A caller with the lock that goes on.
LEMMA GoesOn ==
  ASSUME TypeInv, NEW c \in Callers, Holds(c), NEW s \in CallState, Becomes(c, s),
         queue' = queue, issued' \in Tokens, issued <= issued',
         s.token <= issued', s.refresh <= issued',
         s.pc \in Asking => s.refresh # NoToken,
         s.pc = "refresh" => s.token = NoToken
  PROVE  /\ call' \in [Callers -> CallState] /\ call'[c] = s
         /\ \A d \in Callers : d # c => call'[d] = call[d]
         /\ \A d \in Callers : call'[d].token <= issued' /\ call'[d].refresh <= issued'
         /\ LocksKept'
<1> USE DEF TypeInv, Tokens
<1>1. /\ call' \in [Callers -> CallState] /\ call'[c] = s
      /\ \A d \in Callers : d # c => call'[d] = call[d]
  BY Becoming DEF TypesOK
<1>2. \A d \in Callers : call'[d].token <= issued' /\ call'[d].refresh <= issued'
  <2>1. ASSUME NEW d \in Callers, d # c
        PROVE  call'[d].token <= issued' /\ call'[d].refresh <= issued'
    <3>1. /\ call[d].token \in Int /\ call[d].refresh \in Int
          /\ call[d].token <= issued /\ call[d].refresh <= issued
      BY DEF TypesOK, CallState, OnlyIssued
    <3>2. issued \in Int /\ issued' \in Int
      BY DEF TypesOK
    <3>3. QED
      BY <1>1, <2>1, <3>1, <3>2
  <2>2. QED
    BY <1>1, <2>1
<1>3. \A d \in Callers : Holds(d)' <=> Holds(d)
  BY DEF Holds
<1>4. LocksKept'
  BY <1>1, <1>3 DEF LocksKept
<1>5. QED
  BY <1>1, <1>2, <1>4

\* A caller that asks for a refresh (Expired, Refused).
LEMMA Asks ==
  ASSUME TypeInv, NEW c \in Callers, Holds(c), NEW again \in BOOLEAN,
         Refreshable, AskRefresh(c, again),
         UNCHANGED <<issued, refresh, spentBy, adrift, rotates>>
  PROVE  /\ TypeInv' /\ vault' = vault
         /\ call'[c] = [pc |-> "refresh", token |-> NoToken, refresh |-> vault.refresh,
                        again |-> again]
         /\ \A d \in Callers : d # c => call'[d] = call[d]
<1> DEFINE s == [pc |-> "refresh", token |-> NoToken, refresh |-> vault.refresh,
                 again |-> again]
<1>1. NoToken \in Tokens /\ NoToken <= issued
  BY DEF NoToken, Tokens, TypeInv, TypesOK
<1>2. vault.refresh \in Tokens /\ vault.refresh <= issued /\ vault.refresh # NoToken
  BY DEF TypeInv, TypesOK, OnlyIssued, Refreshable
<1>3. s \in CallState
  BY <1>1, <1>2 DEF CallState
<1>4. Becomes(c, s) /\ queue' = queue /\ vault' = vault
  BY DEF AskRefresh
<1>5. issued' \in Tokens /\ issued <= issued' /\ issued' = issued
  BY DEF TypeInv, TypesOK, Tokens
<1> HIDE DEF s
<1>6. /\ s.token = NoToken /\ s.refresh = vault.refresh /\ s.pc = "refresh"
  BY DEF s
<1>7. /\ call' \in [Callers -> CallState] /\ call'[c] = s
      /\ \A d \in Callers : d # c => call'[d] = call[d]
      /\ \A d \in Callers : call'[d].token <= issued' /\ call'[d].refresh <= issued'
      /\ LocksKept'
  BY <1>1, <1>2, <1>3, <1>4, <1>5, <1>6, GoesOn
<1>8. TypesOK' /\ OnlyIssued'
  BY <1>4, <1>7 DEF TypeInv, TypesOK, OnlyIssued
<1>9. QED
  BY <1>4, <1>7, <1>8 DEF TypeInv, s

\* A grant is issued: its number is new, and nothing older changes hands.
LEMMA Issues ==
  ASSUME TypeInv, IssueGrant, refresh' \in SUBSET (refresh \cup {NewGrant})
  PROVE  /\ issued' = NewGrant /\ NewGrant \in Grants /\ issued <= issued' /\ issued' \in Tokens
         /\ refresh' \subseteq Grants
         /\ \A g \in refresh' \cup adrift : g <= issued'
         /\ NewGrant \notin refresh \cup adrift /\ NewGrant # vault.refresh
         /\ NewGrant # NoToken
         /\ \A c \in Callers : call[c].token # NewGrant /\ call[c].refresh # NewGrant
         /\ \A c \in Callers : call[c].token <= issued' /\ call[c].refresh <= issued'
         /\ vault.token <= issued' /\ vault.refresh <= issued'
<1>1. issued \in Nat /\ issued < MaxGrants /\ issued' = issued + 1
  BY DEF TypeInv, TypesOK, Tokens, IssueGrant, NewGrant
<1>2. refresh \subseteq Grants /\ adrift \subseteq Tokens
  BY DEF TypeInv, TypesOK
<1>3. /\ issued' = NewGrant /\ NewGrant \in Grants /\ issued <= issued' /\ issued' \in Tokens
      /\ NewGrant # NoToken
  BY <1>1 DEF NewGrant, Grants, Tokens, NoToken
<1>4. refresh' \subseteq Grants
  BY <1>2, <1>3 DEF IssueGrant
<1>5. /\ \A g \in refresh' \cup adrift : g <= issued'
      /\ NewGrant \notin refresh \cup adrift
  BY <1>1, <1>2, <1>4 DEF TypeInv, OnlyIssued, NewGrant, Grants, Tokens
<1>6. /\ vault.token \in Int /\ vault.refresh \in Int
      /\ vault.token <= issued /\ vault.refresh <= issued
  BY DEF TypeInv, TypesOK, OnlyIssued, Tokens
<1>7. \A c \in Callers : /\ call[c].token \in Int /\ call[c].refresh \in Int
                         /\ call[c].token <= issued /\ call[c].refresh <= issued
  BY DEF TypeInv, TypesOK, OnlyIssued, CallState, Tokens
<1>8. QED
  BY <1>1, <1>3, <1>4, <1>5, <1>6, <1>7 DEF NewGrant

\* Who waits for the lock.
LEMMA Enters ==
  ASSUME TypeInv, NEW c \in Callers, Enter(c)
  PROVE  /\ TypeInv'
         /\ call'[c].pc = "wait" /\ \A d \in Callers : d # c => call'[d] = call[d]
<1> DEFINE s == [Idle EXCEPT !.pc = "wait"]
<1>1. /\ s \in CallState /\ s.pc = "wait" /\ s.token = NoToken /\ s.refresh = NoToken
  <2>1. s \in CallState
    BY Records
  <2>2. QED
    BY <2>1 DEF Idle
<1>2. Becomes(c, s) /\ UNCHANGED <<vault, issued, refresh, spentBy, adrift, rotates>>
  BY DEF Enter
<1> HIDE DEF s
<1>3. /\ call' \in [Callers -> CallState] /\ call'[c] = s
      /\ \A d \in Callers : d # c => call'[d] = call[d]
  BY <1>1, <1>2, Becoming DEF TypeInv, TypesOK
<1>4. queue' \in [Backends -> Seq(Callers)]
  BY DEF Enter, TypeInv, TypesOK
<1>5. TypesOK'
  BY <1>2, <1>3, <1>4 DEF TypeInv, TypesOK
<1>6. OnlyIssued'
  <2>1. NoToken <= issued
    BY DEF TypeInv, TypesOK, Tokens, NoToken
  <2>2. \A d \in Callers : call'[d].token <= issued /\ call'[d].refresh <= issued
    BY <1>1, <1>3, <2>1 DEF TypeInv, OnlyIssued
  <2>3. QED
    BY <1>2, <2>2 DEF TypeInv, OnlyIssued
<1>7. LocksKept'
  BY <1>1, <1>3, EnterKeepsHolders DEF TypeInv, LocksKept, Asking
<1>8. QED
  BY <1>1, <1>3, <1>5, <1>6, <1>7 DEF TypeInv

\* A request is sent with the token of the row.
LEMMA Sends ==
  ASSUME TypeInv, NEW c \in Callers, Send(c)
  PROVE  /\ TypeInv'
         /\ call'[c].pc = "post" /\ \A d \in Callers : d # c => call'[d] = call[d]
<1> DEFINE s == [call[c] EXCEPT !.pc = "post", !.token = vault.token]
<1>1. /\ s \in CallState /\ s.pc = "post"
      /\ s.token = vault.token /\ s.refresh = call[c].refresh
  <2>1. call[c] \in CallState /\ vault.token \in Tokens
    BY DEF TypeInv, TypesOK
  <2>2. s \in CallState
    BY <2>1, Records
  <2>3. QED
    BY <2>1, <2>2 DEF CallState
<1>2. /\ Becomes(c, s) /\ Holds(c)
      /\ UNCHANGED <<vault, queue, issued, refresh, spentBy, adrift, rotates>>
  BY DEF Send
<1> HIDE DEF s
<1>3. issued' \in Tokens /\ issued <= issued' /\ s.token <= issued' /\ s.refresh <= issued'
  BY <1>1, <1>2 DEF TypeInv, TypesOK, OnlyIssued, Tokens
<1>4. /\ call' \in [Callers -> CallState] /\ call'[c] = s
      /\ \A d \in Callers : d # c => call'[d] = call[d]
      /\ \A d \in Callers : call'[d].token <= issued' /\ call'[d].refresh <= issued'
      /\ LocksKept'
  BY <1>1, <1>2, <1>3, GoesOn DEF Asking
<1>5. TypesOK' /\ OnlyIssued'
  BY <1>2, <1>4 DEF TypeInv, TypesOK, OnlyIssued
<1>6. QED
  BY <1>1, <1>4, <1>5 DEF TypeInv

\* The token of an answer becomes the row.
LEMMA Stores ==
  ASSUME TypeInv, NEW c \in Callers, RefreshStored(c)
  PROVE  /\ TypeInv'
         /\ call[c].token \in Grants /\ call[c].pc = "answer" /\ Holds(c)
         /\ vault'.refresh = IF rotates THEN call[c].token ELSE call[c].refresh
         /\ call'[c].pc = "post" /\ \A d \in Callers : d # c => call'[d] = call[d]
<1> DEFINE s == [call[c] EXCEPT !.pc = "post"]
<1>1. /\ s \in CallState /\ s.pc = "post"
      /\ s.token = call[c].token /\ s.refresh = call[c].refresh
  <2>1. call[c] \in CallState /\ vault.token \in Tokens
    BY DEF TypeInv, TypesOK
  <2>2. s \in CallState
    BY <2>1, Records
  <2>3. QED
    BY <2>1, <2>2 DEF CallState
<1>2. /\ Becomes(c, s) /\ Holds(c) /\ call[c].pc = "answer"
      /\ UNCHANGED <<queue, issued, refresh, spentBy, adrift, rotates>>
  BY DEF RefreshStored, At
<1> HIDE DEF s
<1>3. issued' \in Tokens /\ issued <= issued' /\ s.token <= issued' /\ s.refresh <= issued'
  BY <1>1, <1>2 DEF TypeInv, TypesOK, OnlyIssued, Tokens
<1>4. /\ call' \in [Callers -> CallState] /\ call'[c] = s
      /\ \A d \in Callers : d # c => call'[d] = call[d]
      /\ \A d \in Callers : call'[d].token <= issued' /\ call'[d].refresh <= issued'
      /\ LocksKept'
  BY <1>1, <1>2, <1>3, GoesOn DEF Asking
<1>5. call[c].token \in Tokens /\ call[c].token # NoToken
  BY DEF RefreshStored, TypeInv, TypesOK, CallState
<1>6. PICK rt : rt = IF rotates THEN call[c].token ELSE call[c].refresh
  OBVIOUS
<1>7. rt \in Tokens /\ rt <= issued'
  BY <1>1, <1>2, <1>3, <1>5, <1>6 DEF TypeInv, TypesOK, CallState
<1>8. vault' = [token |-> call[c].token, refresh |-> rt, expired |-> FALSE]
  BY <1>6 DEF RefreshStored, Row
<1>9. /\ vault' \in [token : Tokens, refresh : Tokens, expired : BOOLEAN]
      /\ vault'.token = call[c].token /\ vault'.refresh = rt
  BY <1>5, <1>7, <1>8
<1>10. TypesOK' /\ OnlyIssued'
  BY <1>1, <1>2, <1>3, <1>4, <1>7, <1>9 DEF TypeInv, TypesOK, OnlyIssued
<1>11. QED
  BY <1>1, <1>2, <1>4, <1>5, <1>6, <1>9, <1>10 DEF TypeInv, Grants, Tokens, NoToken

\* The authorization server answers, with a new grant or with a refusal.
LEMMA Accepts ==
  ASSUME TypeInv, NEW c \in Callers, AuthServerAccepts(c)
  PROVE  /\ TypeInv'
         /\ call[c].pc = "refresh" /\ Holds(c) /\ call[c].refresh \in refresh
         /\ IssueGrant /\ UNCHANGED <<vault, adrift, rotates>>
         /\ refresh' = IF rotates THEN (refresh \ {call[c].refresh}) \cup {NewGrant}
                                  ELSE refresh
         /\ call'[c] = [call[c] EXCEPT !.pc = "answer", !.token = NewGrant]
         /\ \A d \in Callers : d # c => call'[d] = call[d]
         /\ \A g \in Grants :
              spentBy'[g] = IF rotates /\ g = call[c].refresh THEN Uses[c] ELSE spentBy[g]
<1> DEFINE s == [call[c] EXCEPT !.pc = "answer", !.token = NewGrant]
<1>1. /\ IssueGrant /\ Becomes(c, s) /\ Holds(c)
      /\ call[c].pc = "refresh" /\ call[c].refresh \in refresh
      /\ refresh' = IF rotates THEN (refresh \ {call[c].refresh}) \cup {NewGrant}
                               ELSE refresh
      /\ UNCHANGED <<vault, queue, adrift, rotates>>
  BY DEF AuthServerAccepts, At, Issue
<1>2. /\ issued' = NewGrant /\ NewGrant \in Grants /\ issued <= issued' /\ issued' \in Tokens
      /\ refresh' \subseteq Grants
      /\ \A g \in refresh' \cup adrift : g <= issued'
      /\ vault.token <= issued' /\ vault.refresh <= issued'
      /\ \A d \in Callers : call[d].token <= issued' /\ call[d].refresh <= issued'
  <2>1. refresh' \in SUBSET (refresh \cup {NewGrant})
    BY <1>1
  <2>2. QED
    BY <1>1, <2>1, Issues
<1>3. NewGrant \in Tokens
  BY <1>2 DEF Grants, Tokens
<1>4. /\ s \in CallState /\ s.pc = "answer"
      /\ s.token = NewGrant /\ s.refresh = call[c].refresh
  <2>1. call[c] \in CallState
    BY DEF TypeInv, TypesOK
  <2>2. s \in CallState
    BY <1>3, <2>1, Records
  <2>3. QED
    BY <2>1, <2>2 DEF CallState
<1>5. s.token <= issued' /\ s.refresh <= issued' /\ s.refresh # NoToken
  BY <1>1, <1>2, <1>4 DEF TypeInv, LocksKept, Asking, Tokens
<1> HIDE DEF s
<1>6. /\ call' \in [Callers -> CallState] /\ call'[c] = s
      /\ \A d \in Callers : d # c => call'[d] = call[d]
      /\ \A d \in Callers : call'[d].token <= issued' /\ call'[d].refresh <= issued'
      /\ LocksKept'
  BY <1>1, <1>2, <1>4, <1>5, GoesOn
<1>7. /\ spentBy' \in [Grants -> Backends \cup {Nobody}]
      /\ \A g \in Grants :
           spentBy'[g] = IF rotates /\ g = call[c].refresh THEN Uses[c] ELSE spentBy[g]
  BY DEF AuthServerAccepts, TypeInv, TypesOK
<1>8. TypesOK' /\ OnlyIssued'
  BY <1>1, <1>2, <1>6, <1>7 DEF TypeInv, TypesOK, OnlyIssued
<1>9. QED
  BY <1>1, <1>6, <1>7, <1>8 DEF TypeInv, s

LEMMA Refuses ==
  ASSUME TypeInv, NEW c \in Callers, AuthServerRefuses(c)
  PROVE  /\ TypeInv'
         /\ call[c].pc = "refresh" /\ Holds(c)
         /\ call'[c] = [call[c] EXCEPT !.pc = "answer"] /\ call[c].token = NoToken
         /\ \A d \in Callers : d # c => call'[d] = call[d]
<1> DEFINE s == [call[c] EXCEPT !.pc = "answer"]
<1>1. /\ Becomes(c, s) /\ Holds(c) /\ call[c].pc = "refresh"
      /\ UNCHANGED <<vault, queue, issued, refresh, spentBy, adrift, rotates>>
  BY DEF AuthServerRefuses, At
<1>2. /\ s \in CallState /\ s.pc = "answer"
      /\ s.token = call[c].token /\ s.refresh = call[c].refresh
  <2>1. call[c] \in CallState /\ vault.token \in Tokens
    BY DEF TypeInv, TypesOK
  <2>2. s \in CallState
    BY <2>1, Records
  <2>3. QED
    BY <2>1, <2>2 DEF CallState
<1>3. call[c].token = NoToken /\ call[c].refresh # NoToken
  BY <1>1 DEF TypeInv, LocksKept, Asking
<1>4. issued' \in Tokens /\ issued <= issued' /\ s.token <= issued' /\ s.refresh <= issued'
  BY <1>1, <1>2 DEF TypeInv, TypesOK, OnlyIssued, Tokens
<1> HIDE DEF s
<1>5. /\ call' \in [Callers -> CallState] /\ call'[c] = s
      /\ \A d \in Callers : d # c => call'[d] = call[d]
      /\ \A d \in Callers : call'[d].token <= issued' /\ call'[d].refresh <= issued'
      /\ LocksKept'
  BY <1>1, <1>2, <1>3, <1>4, GoesOn
<1>6. TypesOK' /\ OnlyIssued'
  BY <1>1, <1>5 DEF TypeInv, TypesOK, OnlyIssued
<1>7. QED
  BY <1>1, <1>3, <1>5, <1>6 DEF TypeInv, s

\* The user connects, and the row is new.
LEMMA Connects ==
  ASSUME TypeInv, Connect
  PROVE  /\ TypeInv' /\ Issue({}) /\ vault'.refresh \in {NewGrant, NoToken}
         /\ UNCHANGED <<call, spentBy, adrift, rotates>>
<1>1. /\ issued' = NewGrant /\ NewGrant \in Grants /\ issued' \in Tokens
      /\ refresh' \subseteq Grants
      /\ \A g \in refresh' \cup adrift : g <= issued'
      /\ \A d \in Callers : call[d].token <= issued' /\ call[d].refresh <= issued'
  BY Issues DEF Connect, Issue
<1>2. PICK rt \in {NewGrant, NoToken} : vault' = Row(NewGrant, rt)
  BY DEF Connect
<1>3. rt \in Tokens /\ NewGrant \in Tokens /\ rt <= issued'
  BY <1>1, <1>2 DEF Grants, Tokens, NoToken
<1>4. /\ vault' \in [token : Tokens, refresh : Tokens, expired : BOOLEAN]
      /\ vault'.refresh = rt /\ vault'.token = NewGrant
  BY <1>2, <1>3 DEF Row
<1>5. Issue({}) /\ UNCHANGED <<queue, call, spentBy, adrift, rotates>>
  BY DEF Connect
<1>6. TypesOK'
  BY <1>1, <1>4, <1>5 DEF TypeInv, TypesOK
<1>7. OnlyIssued'
  BY <1>1, <1>3, <1>4, <1>5 DEF TypeInv, OnlyIssued, Tokens
<1>8. LocksKept'
  BY <1>5 DEF TypeInv, LocksKept, Holds
<1>9. QED
  BY <1>2, <1>4, <1>5, <1>6, <1>7, <1>8 DEF TypeInv

\* A request of a call that was broken off is accepted.
LEMMA Drifts ==
  ASSUME TypeInv, NEW rt \in Grants, AuthServerAcceptsAdrift(rt)
  PROVE  /\ TypeInv' /\ Issue({rt}) /\ rt \in adrift /\ rt \in refresh /\ rotates
         /\ UNCHANGED <<vault, call, spentBy, adrift, rotates>>
<1>1. /\ issued' = NewGrant /\ issued' \in Tokens
      /\ refresh' \subseteq Grants
      /\ \A g \in refresh' \cup adrift : g <= issued'
      /\ \A d \in Callers : call[d].token <= issued' /\ call[d].refresh <= issued'
      /\ vault.token <= issued' /\ vault.refresh <= issued'
  BY Issues DEF AuthServerAcceptsAdrift, Issue
<1>2. /\ Issue({rt}) /\ rt \in adrift /\ rt \in refresh /\ rotates
      /\ UNCHANGED <<vault, queue, call, spentBy, adrift, rotates>>
  BY DEF AuthServerAcceptsAdrift
<1>3. TypesOK' /\ OnlyIssued' /\ LocksKept'
  BY <1>1, <1>2 DEF TypeInv, TypesOK, OnlyIssued, LocksKept, Holds
<1>4. QED
  BY <1>2, <1>3 DEF TypeInv

\* What calls that are broken off have sent is adrift, and has been issued.
LEMMA Drifting ==
  ASSUME TypeInv, NEW callers \in SUBSET Callers, Drift(callers)
  PROVE  /\ adrift' \subseteq Tokens /\ \A g \in adrift' : g <= issued
         /\ adrift \subseteq adrift'
         /\ \A g \in adrift' : g \in adrift \/
              \E c \in callers : call[c].pc \in Asking /\ call[c].refresh = g
         /\ \A c \in callers : call[c].pc \in Asking => call[c].refresh \in adrift'
<1>1. SentBy(callers) \subseteq Tokens /\ \A g \in SentBy(callers) : g <= issued
  BY DEF SentBy, TypeInv, TypesOK, OnlyIssued, CallState
<1>2. adrift \subseteq Tokens /\ \A g \in adrift : g <= issued
  BY DEF TypeInv, TypesOK, OnlyIssued
<1>3. adrift' = adrift \cup SentBy(callers)
  BY DEF Drift
<1>4. QED
  BY <1>1, <1>2, <1>3 DEF SentBy, Asking

\* The process dies: what it had sent is adrift from then on.
LEMMA Dies ==
  ASSUME TypeInv, Crash
  PROVE  /\ TypeInv'
         /\ \A c \in Callers : call'[c] = Idle
         /\ UNCHANGED <<vault, refresh, rotates>> /\ Drift(Callers)
<1>1. /\ call' = [c \in Callers |-> Idle] /\ queue' = [b \in Backends |-> <<>>]
      /\ spentBy' = [g \in Grants |-> Nobody]
      /\ UNCHANGED <<vault, issued, refresh, rotates>> /\ Drift(Callers)
  BY DEF Crash
<1>2. adrift' \subseteq Tokens /\ \A g \in adrift' : g <= issued
  BY <1>1, Drifting
<1>3. NoToken <= issued
  BY DEF TypeInv, TypesOK, Tokens, NoToken
<1>4. TypesOK'
  <2>1. queue' \in [Backends -> Seq(Callers)]
    BY <1>1
  <2>2. spentBy' \in [Grants -> Backends \cup {Nobody}]
    BY <1>1
  <2>3. call' \in [Callers -> CallState]
    BY <1>1, Records
  <2>4. QED
    BY <1>1, <1>2, <2>1, <2>2, <2>3 DEF TypeInv, TypesOK
<1>5. OnlyIssued'
  BY <1>1, <1>2, <1>3, Records DEF TypeInv, OnlyIssued
<1>6. LocksKept'
  BY <1>1, Records DEF LocksKept, Asking
<1>7. QED
  BY <1>1, <1>4, <1>5, <1>6 DEF TypeInv

\* A call is broken off, and no other call loses the lock.
LEMMA Breaks ==
  ASSUME TypeInv, Lines, NEW c \in Callers, BreaksOff(c)
  PROVE  /\ TypeInv'
         /\ call'[c] = Idle /\ \A d \in Callers : d # c => call'[d] = call[d]
         /\ UNCHANGED <<vault, refresh, spentBy, rotates>> /\ Drift({c})
<1>1. /\ Becomes(c, Idle) /\ Drift({c})
      /\ UNCHANGED <<vault, issued, refresh, spentBy, rotates>>
  BY DEF BreaksOff
<1>2. /\ call' \in [Callers -> CallState] /\ call'[c] = Idle
      /\ \A d \in Callers : d # c => call'[d] = call[d]
  BY <1>1, Records, Becoming DEF TypeInv, TypesOK
<1>3. adrift' \subseteq Tokens /\ \A g \in adrift' : g <= issued
  BY <1>1, Drifting
<1>4. PICK k \in DOMAIN queue[Uses[c]] : Leaving(c, k)
  BY BrokenOffLeaves DEF TypeInv
<1>5. queue' \in [Backends -> Seq(Callers)]
  <2>1. \E q : queue' = [queue EXCEPT ![Uses[c]] = q]
    BY DEF BreaksOff
  <2>2. DOMAIN queue' = Backends /\ queue' = [b \in Backends |-> queue'[b]]
    BY <2>1 DEF TypeInv, TypesOK
  <2>3. \A b \in Backends : queue'[b] \in Seq(Callers)
    BY <1>4 DEF Leaving, TypeInv, TypesOK
  <2>4. QED
    BY <2>2, <2>3
<1>6. TypesOK'
  BY <1>1, <1>2, <1>3, <1>5 DEF TypeInv, TypesOK
<1>7. OnlyIssued'
  <2>1. NoToken <= issued
    BY DEF TypeInv, TypesOK, Tokens, NoToken
  <2>2. QED
    BY <1>1, <1>2, <1>3, <2>1, Records DEF TypeInv, OnlyIssued
<1>8. ASSUME NEW d \in Callers, d # c, Holds(d)
      PROVE  Holds(d)'
  <2>1. CASE Uses[d] # Uses[c]
    <3>1. queue'[Uses[d]] = queue[Uses[d]]
      BY <1>4, <2>1 DEF Leaving
    <3>2. QED
      BY <1>8, <3>1 DEF Holds
  <2>2. CASE Uses[d] = Uses[c]
    <3>1. PICK q : q = queue[Uses[c]]
      OBVIOUS
    <3>2. q \in Seq(Callers) /\ q # <<>> /\ Head(q) = d
      BY <1>8, <2>2, <3>1 DEF Holds, TypeInv, TypesOK
    <3>3. Len(q) \in Nat \ {0} /\ DOMAIN q = 1..Len(q) /\ q[1] = d
      BY <3>2, LenProperties
    <3>4. k \in 1..Len(q) /\ q[k] = c /\ k # 1
      BY <1>4, <1>8, <3>1, <3>3 DEF Leaving
    <3>5. PICK n : n = queue'[Uses[c]]
      OBVIOUS
    <3>6. n \in Seq(Callers) /\ Len(n) = Len(q) - 1 /\ Len(n) \in Nat \ {0}
      BY <1>4, <3>1, <3>3, <3>4, <3>5 DEF Leaving
    <3>7. n[1] = d
      <4>1. 1 \in 1..Len(q) - 1 /\ 1 < k
        BY <3>3, <3>4
      <4>2. n[1] = IF 1 < k THEN q[1] ELSE q[2]
        BY <1>4, <3>1, <3>5, <4>1 DEF Leaving
      <4>3. QED
        BY <3>3, <4>1, <4>2
    <3>8. n # <<>> /\ Head(n) = d
      BY <3>6, <3>7
    <3>9. QED
      BY <2>2, <3>5, <3>8 DEF Holds
  <2>3. QED
    BY <2>1, <2>2
<1>9. LocksKept'
  BY <1>2, <1>8, Records DEF TypeInv, LocksKept, Asking
<1>10. QED
  BY <1>1, <1>2, <1>6, <1>7, <1>9 DEF TypeInv

\* Who leaves the lock without a refresh, or with the row gone.
LEMMA Ends ==
  ASSUME TypeInv, NEW c \in Callers,
         Unconnected(c) \/ Answered(c) \/ RefusedForGood(c) \/ RefreshGivesUp(c)
  PROVE  /\ Holds(c) /\ Release(c) /\ vault' \in {vault, NoRow}
         /\ vault' = NoRow \/ call[c].pc \notin Asking
         /\ UNCHANGED <<issued, refresh, spentBy, adrift, rotates>>
  BY DEF Unconnected, Answered, RefusedForGood, RefreshGivesUp, At, Asking

\* Who asks for a refresh.
LEMMA Begins ==
  ASSUME NEW c \in Callers, Expired(c) \/ Refused(c)
  PROVE  /\ Holds(c) /\ Refreshable /\ call[c].pc \notin Asking
         /\ \E again \in BOOLEAN : AskRefresh(c, again)
         /\ UNCHANGED <<issued, refresh, spentBy, adrift, rotates>>
  BY DEF Expired, Refused, At, Asking

\* Every step keeps the types, and the locks (_call).
LEMMA TypeStep ==
  ASSUME TypeInv, Lines, [Next]_vars
  PROVE  TypeInv'
<1>1. ASSUME NEW c \in Callers, Enter(c)
      PROVE  TypeInv'
  BY <1>1, Enters
<1>2. ASSUME NEW c \in Callers,
             Unconnected(c) \/ Answered(c) \/ RefusedForGood(c) \/ RefreshGivesUp(c)
      PROVE  TypeInv'
  BY <1>2, Ends, Leaves
<1>3. ASSUME NEW c \in Callers, Expired(c) \/ Refused(c)
      PROVE  TypeInv'
  BY <1>3, Begins, Asks
<1>4. ASSUME NEW c \in Callers, Send(c)
      PROVE  TypeInv'
  BY <1>4, Sends
<1>5. ASSUME NEW c \in Callers, RefreshStored(c)
      PROVE  TypeInv'
  BY <1>5, Stores
<1>6. ASSUME NEW c \in Callers, AuthServerAccepts(c)
      PROVE  TypeInv'
  BY <1>6, Accepts
<1>7. ASSUME NEW c \in Callers, AuthServerRefuses(c)
      PROVE  TypeInv'
  BY <1>7, Refuses
<1>8. CASE Connect
  BY <1>8, Connects
<1>9. CASE RowExpires
  <2>1. /\ vault' = [vault EXCEPT !.expired = TRUE]
        /\ UNCHANGED <<queue, call, issued, refresh, spentBy, adrift, rotates>>
    BY <1>9 DEF RowExpires
  <2>2. /\ vault' \in [token : Tokens, refresh : Tokens, expired : BOOLEAN]
        /\ vault'.token = vault.token /\ vault'.refresh = vault.refresh
    BY <2>1 DEF TypeInv, TypesOK
  <2>3. QED
    BY <2>1, <2>2 DEF TypeInv, TypesOK, OnlyIssued, LocksKept, Holds
<1>10. ASSUME NEW g \in Grants, AuthServerAcceptsAdrift(g)
       PROVE  TypeInv'
  BY <1>10, Drifts
<1>11. CASE Crash
  BY <1>11, Dies
<1>12. CASE UNCHANGED vars
  BY <1>12 DEF vars, TypeInv, TypesOK, OnlyIssued, LocksKept, Holds
<1>13. ASSUME NEW c \in Callers, BreaksOff(c)
       PROVE  TypeInv'
  BY <1>13, Breaks
<1>14. QED
  BY <1>1, <1>2, <1>3, <1>4, <1>5, <1>6, <1>7, <1>8, <1>9, <1>10, <1>11, <1>12, <1>13
  DEF Next, CallerStep

-----------------------------------------------------------------------------
(* Tokens *)

\* A caller that goes away, and the row with it if it was to be refreshed.
LEMMA TokensEnd ==
  ASSUME IInv, NEW c \in Callers,
         Unconnected(c) \/ Answered(c) \/ RefusedForGood(c) \/ RefreshGivesUp(c)
  PROVE  TokenInv'
<1> USE DEF IInv, TokenInv
<1>1. /\ vault' \in {vault, NoRow}
      /\ vault' = NoRow \/ call[c].pc \notin Asking
      /\ UNCHANGED <<issued, refresh, spentBy, adrift, rotates>>
      /\ call'[c] = Idle /\ \A d \in Callers : d # c => call'[d] = call[d]
  BY Ends, Leaves
<1>2. Idle.pc = "idle" /\ NoRow.refresh = NoToken
  BY Records DEF NoRow
<1>3. NewTokens'
  <2>1. \A g \in Grants : g # vault.refresh => g # vault'.refresh
    BY <1>1, <1>2 DEF Grants, NoToken
  <2>2. \A d \in Callers :
          /\ call'[d].pc \in Asking => call'[d] = call[d]
          /\ \A g \in Grants : Brought(d, g)' => Brought(d, g)
    BY <1>1, <1>2 DEF Brought, Asking
  <2>3. QED
    BY <1>1, <2>1, <2>2 DEF NewTokens
<1>4. SpenderAnswers'
  <2>1. CASE vault' = NoRow
    BY <1>2, <2>1 DEF SpenderAnswers
  <2>2. CASE vault' = vault /\ call[c].pc \notin Asking
    BY <1>1, <2>2 DEF SpenderAnswers, Asking
  <2>3. QED
    BY <1>1, <2>1, <2>2
<1>5. OwnTokensSentOnce'
  BY <1>1, <1>2 DEF OwnTokensSentOnce
<1>6. NothingSpent'
  BY <1>1, <1>2 DEF NothingSpent, Asking
<1>7. QED
  BY <1>3, <1>4, <1>5, <1>6

\* The token that is asked for anew is good, adrift, or was spent by another backend,
\* whose caller has the answer and its own lock.
LEMMA TokensAsk ==
  ASSUME IInv, NEW c \in Callers, Expired(c) \/ Refused(c)
  PROVE  TokenInv'
<1> USE DEF IInv, TokenInv
<1>1. PICK again \in BOOLEAN : AskRefresh(c, again)
  BY Begins
<1>2. /\ Holds(c) /\ Refreshable /\ call[c].pc \notin Asking
      /\ UNCHANGED <<issued, refresh, spentBy, adrift, rotates>>
  BY Begins
<1>3. /\ vault' = vault
      /\ call'[c] = [pc |-> "refresh", token |-> NoToken, refresh |-> vault.refresh,
                     again |-> again]
      /\ \A d \in Callers : d # c => call'[d] = call[d]
  BY <1>1, <1>2, Asks
<1>4. /\ call'[c].pc = "refresh" /\ call'[c].refresh = vault.refresh
      /\ vault.refresh # NoToken
  BY <1>2, <1>3 DEF Refreshable
<1>5. NewTokens'
  BY <1>2, <1>3, <1>4 DEF NewTokens, Brought
<1>6. SpenderAnswers'
  BY <1>2, <1>3, <1>4 DEF SpenderAnswers, Asking
<1>7. ASSUME vault.refresh \notin refresh \cup adrift
      PROVE  spentBy[vault.refresh] \notin {Uses[c], Nobody}
  <2>1. PICK d \in Callers : /\ call[d].pc = "answer" /\ call[d].refresh = vault.refresh
                             /\ spentBy[vault.refresh] = Uses[d]
    BY <1>4, <1>7 DEF SpenderAnswers
  <2>2. d # c /\ Holds(d)
    BY <1>2, <2>1 DEF Asking, TypeInv, LocksKept
  <2>3. Uses[d] # Uses[c] /\ Uses[d] \in Backends
    BY <1>2, <2>2, HoldersApart
  <2>4. QED
    BY <2>1, <2>3
<1>8. OwnTokensSentOnce'
  BY <1>2, <1>3, <1>4, <1>7 DEF OwnTokensSentOnce
<1>9. NothingSpent'
  BY <1>2, <1>3, <1>4 DEF NothingSpent
<1>10. QED
  BY <1>5, <1>6, <1>8, <1>9

\* A caller that begins, or sends its request, has nothing to do with these tokens.
LEMMA TokensPost ==
  ASSUME IInv, NEW c \in Callers, Enter(c) \/ Send(c)
  PROVE  TokenInv'
<1> USE DEF IInv, TokenInv
<1>1. /\ call[c].pc \notin Asking /\ call'[c].pc \notin Asking
      /\ UNCHANGED <<vault, issued, refresh, spentBy, adrift, rotates>>
      /\ \A d \in Callers : d # c => call'[d] = call[d]
  BY Enters, Sends DEF Enter, Send, At, Asking
<1>2. NewTokens'
  BY <1>1 DEF NewTokens, Brought, Asking
<1>3. SpenderAnswers'
  BY <1>1 DEF SpenderAnswers, Asking
<1>4. OwnTokensSentOnce'
  BY <1>1 DEF OwnTokensSentOnce, Asking
<1>5. NothingSpent'
  BY <1>1 DEF NothingSpent
<1>6. QED
  BY <1>2, <1>3, <1>4, <1>5

\* What is stored was answered, so it is good and nobody else has it.
LEMMA TokensStored ==
  ASSUME IInv, NEW c \in Callers, RefreshStored(c)
  PROVE  TokenInv'
<1> USE DEF IInv, TokenInv
<1>1. /\ call[c].token \in Grants /\ call[c].pc = "answer"
      /\ vault'.refresh = IF rotates THEN call[c].token ELSE call[c].refresh
      /\ call'[c].pc = "post"
      /\ \A d \in Callers : d # c => call'[d] = call[d]
      /\ UNCHANGED <<refresh, spentBy, adrift, rotates>>
  BY Stores DEF RefreshStored
<1>2. vault'.refresh \in refresh'
  BY <1>1 DEF NewTokens, NothingSpent, Brought, Asking
<1>3. NewTokens'
  BY <1>1 DEF NewTokens, Brought, Asking
<1>4. SpenderAnswers'
  BY <1>2 DEF SpenderAnswers
<1>5. OwnTokensSentOnce'
  BY <1>1 DEF OwnTokensSentOnce
<1>6. NothingSpent'
  BY <1>1, <1>2 DEF NothingSpent, Asking
<1>7. QED
  BY <1>3, <1>4, <1>5, <1>6

\* The caller whose token is spent has the answer, and others that ask for the same
\* token use other backends.
LEMMA TokensAccepted ==
  ASSUME IInv, NEW c \in Callers, AuthServerAccepts(c), rotates
  PROVE  TokenInv'
<1> USE DEF IInv, TokenInv
<1> DEFINE rt == call[c].refresh
<1>1. /\ call[c].pc = "refresh" /\ Holds(c) /\ rt \in refresh
      /\ IssueGrant /\ UNCHANGED <<vault, adrift, rotates>>
      /\ refresh' = (refresh \ {rt}) \cup {NewGrant}
      /\ \A d \in Callers : d # c => call'[d] = call[d]
      /\ \A g \in Grants : spentBy'[g] = IF g = rt THEN Uses[c] ELSE spentBy[g]
  BY Accepts
<1>2. /\ NewGrant \in Grants
      /\ NewGrant \notin refresh \cup adrift /\ NewGrant # vault.refresh
      /\ \A d \in Callers : call[d].token # NewGrant /\ call[d].refresh # NewGrant
  <2>1. refresh' \in SUBSET (refresh \cup {NewGrant})
    BY <1>1
  <2>2. QED
    BY <1>1, <2>1, Issues
<1>3. call'[c].pc = "answer" /\ call'[c].token = NewGrant /\ call'[c].refresh = rt
  <2>1. call'[c] = [call[c] EXCEPT !.pc = "answer", !.token = NewGrant]
    BY Accepts
  <2>2. QED
    BY <2>1 DEF TypeInv, TypesOK, CallState
<1>4. rt \in Grants /\ refresh \subseteq Grants
  BY <1>1 DEF TypeInv, TypesOK
<1> HIDE DEF rt
<1>5. rt # NewGrant /\ \A d \in Callers : call'[d].refresh # NewGrant
  BY <1>1, <1>2, <1>3
<1>6. NewTokens'
  <2> SUFFICES ASSUME NEW d \in Callers, NEW g \in Grants, Brought(d, g)'
               PROVE  /\ g \in refresh' /\ g \notin adrift' /\ g # vault'.refresh
                      /\ \A e \in Callers :
                           /\ call'[e].pc \in Asking => call'[e].refresh # g
                           /\ Brought(e, g)' => e = d
    BY DEF NewTokens
  <2>1. CASE d = c
    <3>1. g = NewGrant
      BY <1>3, <2>1 DEF Brought
    <3>2. QED
      BY <1>1, <1>2, <1>3, <1>5, <2>1, <3>1 DEF Brought
  <2>2. CASE d # c
    <3>1. Brought(d, g) /\ g # NewGrant
      BY <1>1, <1>2, <2>2 DEF Brought
    <3>2. g # rt
      BY <1>1, <3>1 DEF NewTokens, Asking, rt
    <3>3. /\ g \in refresh /\ g \notin adrift /\ g # vault.refresh
          /\ \A e \in Callers :
               /\ call[e].pc \in Asking => call[e].refresh # g
               /\ Brought(e, g) => e = d
      BY <3>1 DEF NewTokens
    <3>4. g \in refresh' /\ g \notin adrift' /\ g # vault'.refresh
      BY <1>1, <1>2, <3>2, <3>3
    <3>5. ASSUME NEW e \in Callers
          PROVE  /\ call'[e].pc \in Asking => call'[e].refresh # g
                 /\ Brought(e, g)' => e = d
      BY <1>1, <1>3, <3>1, <3>2, <3>3, <3>5 DEF Brought
    <3>6. QED
      BY <3>4, <3>5
  <2>3. QED
    BY <2>1, <2>2
<1>7. SpenderAnswers'
  <2>1. CASE vault.refresh = rt
    <3>1. vault'.refresh = rt /\ spentBy'[rt] = Uses[c]
      BY <1>1, <1>4, <2>1
    <3>2. QED
      BY <1>3, <3>1 DEF SpenderAnswers
  <2>2. CASE vault.refresh # rt
    <3>1. ASSUME vault.refresh # NoToken, vault.refresh \notin refresh \cup adrift
          PROVE  SpenderAnswers'
      <4>1. PICK d \in Callers :
               /\ call[d].pc = "answer" /\ call[d].refresh = vault.refresh
               /\ spentBy[vault.refresh] = Uses[d]
        BY <3>1 DEF SpenderAnswers
      <4>2. d # c
        BY <1>1, <4>1
      <4>3. vault.refresh \in Grants
        BY <3>1 DEF TypeInv, TypesOK, Tokens, Grants, NoToken
      <4>4. call'[d] = call[d] /\ spentBy'[vault.refresh] = Uses[d] /\ vault' = vault
        BY <1>1, <2>2, <4>1, <4>2, <4>3
      <4>5. QED
        BY <4>1, <4>4 DEF SpenderAnswers
    <3>2. QED
      BY <1>1, <1>2, <2>2, <3>1 DEF SpenderAnswers
  <2>3. QED
    BY <2>1, <2>2
<1>8. OwnTokensSentOnce'
  <2> SUFFICES ASSUME NEW d \in Callers, call'[d].pc = "refresh",
                      call'[d].refresh \notin refresh' \cup adrift'
               PROVE  spentBy'[call'[d].refresh] \notin {Uses[d], Nobody}
    BY DEF OwnTokensSentOnce
  <2>1. d # c /\ call'[d] = call[d] /\ call[d].pc = "refresh"
    BY <1>1, <1>3
  <2>2. call[d].refresh \in Grants
    BY <2>1 DEF TypeInv, TypesOK, CallState, LocksKept, Asking, Tokens, Grants, NoToken
  <2>3. CASE call[d].refresh = rt
    <3>1. Holds(d)
      BY <2>1 DEF TypeInv, LocksKept, Asking
    <3>2. Uses[c] # Uses[d] /\ Uses[c] \in Backends
      BY <1>1, <2>1, <3>1, HoldersApart
    <3>3. QED
      BY <1>1, <1>4, <2>1, <2>3, <3>2
  <2>4. CASE call[d].refresh # rt
    <3>1. call[d].refresh \notin refresh \cup adrift
      BY <1>1, <1>2, <2>1, <2>4
    <3>2. QED
      BY <1>1, <2>1, <2>2, <2>4, <3>1 DEF OwnTokensSentOnce
  <2>5. QED
    BY <2>3, <2>4
<1>9. NothingSpent'
  BY <1>1 DEF NothingSpent
<1>10. QED
  BY <1>6, <1>7, <1>8, <1>9

\* A server that does not rotate spends nothing.
LEMMA TokensAcceptedAgain ==
  ASSUME IInv, NEW c \in Callers, AuthServerAccepts(c), ~rotates
  PROVE  TokenInv'
<1> USE DEF IInv, TokenInv
<1>1. /\ call[c].pc = "refresh" /\ call[c].refresh \in refresh
      /\ UNCHANGED <<vault, refresh, adrift, rotates>>
      /\ \A d \in Callers : d # c => call'[d] = call[d]
  BY Accepts
<1>2. call'[c].pc = "answer" /\ call'[c].refresh = call[c].refresh
  <2>1. call'[c] = [call[c] EXCEPT !.pc = "answer", !.token = NewGrant]
    BY Accepts
  <2>2. QED
    BY <2>1 DEF TypeInv, TypesOK, CallState
<1>3. NewTokens'
  BY <1>1 DEF NewTokens
<1>4. NothingSpent'
  BY <1>1, <1>2 DEF NothingSpent
<1>5. SpenderAnswers'
  BY <1>1 DEF SpenderAnswers, NothingSpent
<1>6. OwnTokensSentOnce'
  BY <1>1, <1>2 DEF OwnTokensSentOnce, NothingSpent, Asking
<1>7. QED
  BY <1>3, <1>4, <1>5, <1>6

\* A refusal brings no token.
LEMMA TokensRefused ==
  ASSUME IInv, NEW c \in Callers, AuthServerRefuses(c)
  PROVE  TokenInv'
<1> USE DEF IInv, TokenInv
<1>1. /\ call[c].pc = "refresh" /\ call[c].token = NoToken
      /\ UNCHANGED <<vault, issued, refresh, spentBy, adrift, rotates>>
      /\ \A d \in Callers : d # c => call'[d] = call[d]
  BY Refuses DEF AuthServerRefuses
<1>2. call'[c].pc = "answer" /\ call'[c].token = NoToken /\ call'[c].refresh = call[c].refresh
  <2>1. call'[c] = [call[c] EXCEPT !.pc = "answer"]
    BY Refuses
  <2>2. QED
    BY <1>1, <2>1 DEF TypeInv, TypesOK, CallState
<1>3. \A d \in Callers : /\ call'[d].refresh = call[d].refresh
                         /\ call'[d].pc \in Asking => call[d].pc \in Asking
                         /\ \A g \in Grants : Brought(d, g)' => Brought(d, g)
  BY <1>1, <1>2 DEF Brought, Asking, Grants, NoToken
<1>4. NewTokens'
  BY <1>1, <1>3 DEF NewTokens
<1>5. SpenderAnswers'
  BY <1>1 DEF SpenderAnswers
<1>6. OwnTokensSentOnce'
  BY <1>1, <1>2 DEF OwnTokensSentOnce
<1>7. NothingSpent'
  BY <1>1, <1>3 DEF NothingSpent
<1>8. QED
  BY <1>4, <1>5, <1>6, <1>7

\* A grant that no caller asked for is new to all of them, whatever it spends that is
\* adrift.
LEMMA TokensIssued ==
  ASSUME IInv, NEW spent \in SUBSET adrift, Issue(spent), rotates \/ spent = {},
         UNCHANGED <<call, spentBy, adrift, rotates>>,
         vault'.refresh \in {NewGrant, NoToken, vault.refresh}
  PROVE  TokenInv'
<1> USE DEF IInv, TokenInv
<1>1. /\ NewGrant \in Grants /\ refresh' = (refresh \ spent) \cup {NewGrant}
      /\ NewGrant \notin refresh \cup adrift
      /\ \A d \in Callers : call[d].token # NewGrant /\ call[d].refresh # NewGrant
  BY Issues DEF Issue
<1>2. NewTokens'
  <2> SUFFICES ASSUME rotates, NEW c \in Callers, NEW g \in Grants, Brought(c, g)
               PROVE  /\ g \in refresh' /\ g # vault'.refresh /\ g \notin adrift
                      /\ \A d \in Callers :
                           /\ call[d].pc \in Asking => call[d].refresh # g
                           /\ Brought(d, g) => d = c
    BY DEF NewTokens, Brought
  <2>1. g # NewGrant /\ g # NoToken
    BY <1>1 DEF Brought, Grants, NoToken
  <2>2. QED
    BY <1>1, <2>1 DEF NewTokens
<1>3. SpenderAnswers'
  BY <1>1 DEF SpenderAnswers
<1>4. OwnTokensSentOnce'
  BY <1>1 DEF OwnTokensSentOnce
<1>5. NothingSpent'
  BY <1>1 DEF NothingSpent
<1>6. QED
  BY <1>2, <1>3, <1>4, <1>5

\* Calls are broken off, and what they had sent is adrift.
LEMMA TokensDrift ==
  ASSUME IInv, NEW callers \in SUBSET Callers, Drift(callers),
         \A c \in callers : call'[c] = Idle,
         \A c \in Callers \ callers : call'[c] = call[c],
         UNCHANGED <<vault, refresh, rotates>>, spentBy' = spentBy \/ callers = Callers
  PROVE  TokenInv'
<1> USE DEF IInv, TokenInv
<1>1. /\ adrift \subseteq adrift'
      /\ \A g \in adrift' : g \in adrift \/
           \E c \in callers : call[c].pc \in Asking /\ call[c].refresh = g
      /\ \A c \in callers : call[c].pc \in Asking => call[c].refresh \in adrift'
  BY Drifting
<1>2. \A c \in Callers : \/ c \in callers /\ call'[c].pc = "idle"
                         \/ c \notin callers /\ call'[c] = call[c]
  BY Records
<1>3. NewTokens'
  <2> SUFFICES ASSUME rotates, NEW c \in Callers, NEW g \in Grants, Brought(c, g)'
               PROVE  /\ g \in refresh' /\ g \notin adrift' /\ g # vault'.refresh
                      /\ \A d \in Callers :
                           /\ call'[d].pc \in Asking => call'[d].refresh # g
                           /\ Brought(d, g)' => d = c
    BY DEF NewTokens
  <2>1. Brought(c, g) /\ \A d \in Callers : Brought(d, g)' => Brought(d, g)
    BY <1>2 DEF Brought
  <2>2. /\ g \in refresh /\ g \notin adrift /\ g # vault.refresh
        /\ \A d \in Callers :
             /\ call[d].pc \in Asking => call[d].refresh # g
             /\ Brought(d, g) => d = c
    BY <2>1 DEF NewTokens
  <2>3. QED
    BY <1>1, <1>2, <2>1, <2>2 DEF Asking
<1>4. NothingSpent'
  BY <1>2 DEF NothingSpent, Asking
<1>5. SpenderAnswers'
  <2> SUFFICES ASSUME vault.refresh # NoToken, vault.refresh \notin refresh \cup adrift'
               PROVE  \E c \in Callers :
                        /\ call'[c].pc = "answer" /\ call'[c].refresh = vault.refresh
                        /\ spentBy'[vault.refresh] = Uses[c]
    BY DEF SpenderAnswers
  <2>1. PICK c \in Callers : /\ call[c].pc = "answer" /\ call[c].refresh = vault.refresh
                             /\ spentBy[vault.refresh] = Uses[c]
    BY <1>1 DEF SpenderAnswers
  <2>2. c \notin callers
    BY <1>1, <2>1 DEF Asking
  <2>3. QED
    BY <1>2, <2>1, <2>2
<1>6. OwnTokensSentOnce'
  <2> SUFFICES ASSUME NEW c \in Callers, call'[c].pc = "refresh",
                      call'[c].refresh \notin refresh' \cup adrift'
               PROVE  spentBy'[call'[c].refresh] \notin {Uses[c], Nobody}
    BY DEF OwnTokensSentOnce
  <2>1. c \notin callers /\ call'[c] = call[c]
    BY <1>2
  <2>2. QED
    BY <1>1, <2>1 DEF OwnTokensSentOnce
<1>7. QED
  BY <1>3, <1>4, <1>5, <1>6

\* Time moves no token.
LEMMA TokensRest ==
  ASSUME IInv, RowExpires \/ UNCHANGED vars
  PROVE  TokenInv'
<1>1. /\ vault'.refresh = vault.refresh
      /\ UNCHANGED <<call, refresh, spentBy, adrift, rotates>>
  BY DEF RowExpires, vars, IInv, TypeInv, TypesOK
<1>2. QED
  BY <1>1 DEF IInv, TokenInv, NewTokens, NothingSpent, Brought, SpenderAnswers,
             OwnTokensSentOnce

\* Every step keeps what is said of tokens (_refresh_then_get and what races with it).
LEMMA TokenStep ==
  ASSUME IInv, [Next]_vars
  PROVE  TokenInv'
<1>1. ASSUME NEW c \in Callers, Enter(c) \/ Send(c)
      PROVE  TokenInv'
  BY <1>1, TokensPost
<1>2. ASSUME NEW c \in Callers,
             Unconnected(c) \/ Answered(c) \/ RefusedForGood(c) \/ RefreshGivesUp(c)
      PROVE  TokenInv'
  BY <1>2, TokensEnd
<1>3. ASSUME NEW c \in Callers, Expired(c) \/ Refused(c)
      PROVE  TokenInv'
  BY <1>3, TokensAsk
<1>4. ASSUME NEW c \in Callers, RefreshStored(c)
      PROVE  TokenInv'
  BY <1>4, TokensStored
<1>5. ASSUME NEW c \in Callers, AuthServerAccepts(c)
      PROVE  TokenInv'
  BY <1>5, TokensAccepted, TokensAcceptedAgain
<1>6. ASSUME NEW c \in Callers, AuthServerRefuses(c)
      PROVE  TokenInv'
  BY <1>6, TokensRefused
<1>7. CASE Connect
  BY <1>7, Connects, TokensIssued DEF IInv
<1>8. ASSUME NEW g \in Grants, AuthServerAcceptsAdrift(g)
      PROVE  TokenInv'
  <2>1. Issue({g}) /\ {g} \in SUBSET adrift /\ rotates
        /\ UNCHANGED <<vault, call, spentBy, adrift, rotates>>
    BY <1>8, Drifts DEF IInv
  <2>2. QED
    BY <2>1, TokensIssued
<1>9. CASE Crash
  <2>1. /\ Drift(Callers) /\ \A c \in Callers : call'[c] = Idle
        /\ UNCHANGED <<vault, refresh, rotates>>
    BY <1>9, Dies DEF IInv
  <2>2. QED
    BY <2>1, TokensDrift
<1>10. CASE RowExpires \/ UNCHANGED vars
  BY <1>10, TokensRest
<1>11. ASSUME NEW c \in Callers, BreaksOff(c)
       PROVE  TokenInv'
  <2>1. /\ Drift({c}) /\ call'[c] = Idle /\ \A d \in Callers : d # c => call'[d] = call[d]
        /\ UNCHANGED <<vault, refresh, spentBy, rotates>>
    BY <1>11, Breaks DEF IInv
  <2>2. QED
    BY <2>1, TokensDrift
<1>12. QED
  BY <1>1, <1>2, <1>3, <1>4, <1>5, <1>6, <1>7, <1>8, <1>9, <1>10, <1>11
  DEF Next, CallerStep

-----------------------------------------------------------------------------

\* The invariant that the theorems follow from.
THEOREM CallsInvariant == Spec => []IInv
<1>1. Init => IInv
  BY InitInv
<1>2. IInv /\ [Next]_vars => IInv'
  <2> SUFFICES ASSUME IInv, [Next]_vars
               PROVE  IInv'
    OBVIOUS
  <2>1. TypeInv' /\ Lines' /\ TokenInv'
    BY TypeStep, LineStep, TokenStep DEF IInv, TypeInv
  <2>2. QED
    BY <2>1 DEF IInv
<1>3. QED
  BY <1>1, <1>2, PTL DEF Spec

\* However many calls and backends race to refresh, the vault keeps no refresh token that
\* was spent, but for one that is being replaced, or that a call had sent which was then
\* broken off: cancelled, by an exception of the vault, or by the death of the process
\* (_refresh_then_get).
THEOREM VaultIsHonoured == Spec => []VaultHonoured
<1>1. IInv => VaultHonoured
  BY DEF IInv, TokenInv, SpenderAnswers, VaultHonoured, Refreshing
<1>2. QED
  BY <1>1, CallsInvariant, PTL

\* No backend sends a refresh token that it has spent itself, unless a call that had sent
\* it was broken off: its lock is held from the reading of the row until the row was
\* replaced or deleted (_call).
THEOREM OwnTokensOnce == Spec => []OwnTokensSentOnce
<1>1. IInv => OwnTokensSentOnce
  BY DEF IInv, TokenInv
<1>2. QED
  BY <1>1, CallsInvariant, PTL

\* Whatever the servers answer and others do meanwhile, a call that has the lock takes
\* at most seven steps until it gives it up: it asks to refresh and sends its request
\* at most twice each, and nothing makes it begin anew (_call, _refresh_then_get).
THEOREM CallsGoOn == Spec => [][\A c \in Callers : CallGoesOn(c)]_vars
<1>1. TypesOK /\ [Next]_vars => [\A c \in Callers : CallGoesOn(c)]_vars
  <2> SUFFICES ASSUME TypesOK, Next, NEW c \in Callers
               PROVE  CallGoesOn(c)
    BY DEF vars
  <2>1. CASE CallerStep(c) \/ AuthServerAccepts(c) \/ AuthServerRefuses(c)
    BY <2>1, CallIsNearer DEF CallGoesOn
  <2>2. ASSUME ~(CallerStep(c) \/ AuthServerAccepts(c) \/ AuthServerRefuses(c)),
               call[c].pc # "idle", call'[c] # call[c]
        PROVE  Ahead(call'[c]) < Ahead(call[c])
    <3>1. ~Connect /\ ~RowExpires /\ \A g \in Grants : ~AuthServerAcceptsAdrift(g)
      BY <2>2 DEF Connect, RowExpires, AuthServerAcceptsAdrift
    <3>2. ASSUME NEW d \in Callers, Enter(d)
          PROVE  FALSE
      <4>1. d # c
        BY <2>2, <3>2 DEF Enter
      <4>2. QED
        BY <2>2, <3>2, <4>1, CallBecomes DEF Enter
    <3>3. ASSUME NEW d \in Callers,
                 CallerStep(d) \/ AuthServerAccepts(d) \/ AuthServerRefuses(d)
          PROVE  FALSE
      BY <2>2, <3>3, CallIsNearer
    <3>4. Crash \/ \E d \in Callers : BreaksOff(d)
      BY <3>1, <3>2, <3>3 DEF Next
    <3>5. call'[c].pc = "idle"
      BY <2>2, <3>4, CallBecomes DEF Crash, BreaksOff, Idle
    <3>6. call[c].pc \in {"wait", "post", "refresh", "answer"}
      BY <2>2 DEF TypesOK, CallState
    <3>7. QED
      BY <3>5, <3>6 DEF Ahead
  <2>3. QED
    BY <2>1, <2>2 DEF CallGoesOn
<1>2. IInv => TypesOK
  BY DEF IInv, TypeInv
<1>3. QED
  BY <1>1, <1>2, CallsInvariant, PTL DEF Spec

\* The lock of a backend serves its calls in the order they came, one after the other,
\* whatever errors they meet and wherever they are broken off: a call that waits is
\* overtaken by none, and what is in front of it are calls under way, each of which ends
\* as CallsGoOn says (_call).
THEOREM LinesAreServed == Spec => []Lines /\ [][\A c \in Callers : PlaceKept(c)]_vars
<1>1. IInv => Lines
  BY DEF IInv
<1>2. IInv /\ [Next]_vars => [\A c \in Callers : PlaceKept(c)]_vars
  BY LineStep DEF IInv, TypeInv
<1>3. QED
  BY <1>1, <1>2, CallsInvariant, PTL DEF Spec
=============================================================================
