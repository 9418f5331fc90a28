------------------------ MODULE TokenEndpointProofs ------------------------
(***************************************************************************)
(* What holds of TokenEndpoint for every number of sessions, requests,     *)
(* clients and instants, however requests overlap, with races on the maps, *)
(* restarts and lost responses; and what clients that await each answer,   *)
(* and keep to their own tokens, can rely on besides.                      *)
(***************************************************************************)
EXTENDS TokenProperties, FiniteSetTheorems, TLAPS

(***************************************************************************)
(* The inductive invariant.                                                *)
(***************************************************************************)
\* The states of a request that works for a session.
Working == Creating \cup Storing \cup {"respond"}

(***************************************************************************)
(* A request that works for a session has a session of this JVM; one that  *)
(* has none yet, or no longer wants one, has issued nothing; and the token *)
(* it presents was issued to somebody.                                     *)
(***************************************************************************)
RequestInv(r) ==
  /\ req[r].at = "new" => req[r] = NewRequest
  /\ req[r].at \in Working => req[r].session # NULL /\ Live(req[r].session)
  /\ req[r].at \in Creating => req[r].audience # NULL
  /\ req[r].at \in Creating \cup {"consume"} => req[r].refreshToken = NULL
  /\ req[r].at \in Storing => req[r].refreshToken # NULL
  /\ req[r].at = "consume" => req[r].session = NULL /\ req[r].presented # NULL
  /\ req[r].at = "answered" => req[r].session # NULL
  /\ req[r].session # NULL => req[r].client # NULL /\ heap[req[r].session] # NULL
  /\ req[r].refreshToken # NULL => req[r].refreshToken \in Jwts /\ req[r].session # NULL
  /\ req[r].presented # NULL =>
       req[r].client # NULL /\ \E q \in Requests : Issues(q, req[r].presented)

\* Somebody was issued token for s.
IssuedFor(token, s) == \E r \in Requests : Issues(r, token) /\ req[r].session = s

\* The map, and an OauthSession, only have JWTs that were issued for it.
RefreshInv ==
  /\ \A token \in Jwts :
       storeRefresh[token] # NULL =>
         /\ Live(storeRefresh[token])
         /\ IssuedFor(token, storeRefresh[token])
  /\ \A s \in Sessions :
       (Live(s) /\ heap[s].refreshToken \in Jwts) => IssuedFor(heap[s].refreshToken, s)

\* What request r was authorized for: with its code, or with a token.
Authorized(r) ==
  (req[r].session # NULL /\ Live(req[r].session)) =>
    IF req[r].presented = NULL
    THEN heap[req[r].session].request.clientId = req[r].client
    ELSE \E q \in Requests \ {r} :
           Issues(q, req[r].presented) /\ req[q].session = req[r].session

(***************************************************************************)
(* The sessions of a client that keeps to itself are the sessions that its *)
(* requests, and nobody else's, work for.                                  *)
(***************************************************************************)
Own(r) ==
  (req[r].session # NULL /\ Live(req[r].session)) =>
    \A client : KeepsToItself(client) =>
      (req[r].client = client <=> heap[req[r].session].request.clientId = client)

TokenInv ==
  /\ TokenTypeOK
  /\ \A r \in Requests : RequestInv(r)
  /\ RefreshInv
  /\ \A r \in Requests : Authorized(r) /\ Own(r)
-----------------------------------------------------------------------------
\* What requests have sent, been issued and worked for stays as it is.
Grows ==
  \A q \in Requests :
    /\ req[q].client # NULL => req'[q].client = req[q].client
    /\ req[q].presented # NULL => req'[q].presented = req[q].presented
    /\ req[q].refreshToken # NULL =>
         req'[q].refreshToken = req[q].refreshToken /\ req'[q].session = req[q].session

\* An object keeps the authorization request it was made for, or goes.
HeapKeeps ==
  \A s \in Sessions :
    heap[s] # NULL =>
      /\ heap'[s] # NULL
      /\ heap'[s] \notin {NULL, Gone} =>
           Live(s) /\ heap'[s].request = heap[s].request

LEMMA KeepsShared ==
  ASSUME Grows, NEW token, token # NULL, Shared(token)
  PROVE  Shared(token)'
<1>1. PICK r \in Requests, q \in Requests :
        /\ req[r].refreshToken = token /\ req[q].refreshToken = token
        /\ req[r].session # req[q].session
  BY DEF Shared, Issues
<1>2. /\ req'[r].refreshToken = token /\ req'[q].refreshToken = token
      /\ req'[r].session # req'[q].session
  BY <1>1 DEF Grows
<1> QED
  BY <1>2 DEF Shared, Issues

\* Who keeps to itself now has always done so.
LEMMA KeptToItself ==
  ASSUME Grows, \A r \in Requests : RequestInv(r), NEW client, KeepsToItself(client)'
  PROVE  KeepsToItself(client)
<1> SUFFICES ASSUME NEW r \in Requests, NEW q \in Requests,
                    req[r].presented # NULL, req[q].refreshToken = req[r].presented
             PROVE  req[r].client = client <=> req[q].client = client
  BY DEF KeepsToItself, Issues
<1>1. /\ req'[r].presented = req[r].presented
      /\ req'[q].refreshToken = req[q].refreshToken
  BY DEF Grows
<1>2. req'[r].client = req[r].client /\ req'[q].client = req[q].client
  BY DEF Grows, RequestInv
<1> QED
  BY <1>1, <1>2 DEF KeepsToItself, Issues

LEMMA KeepsIssued ==
  ASSUME Grows, NEW token, token # NULL, NEW s, IssuedFor(token, s)
  PROVE  IssuedFor(token, s)'
BY DEF Grows, IssuedFor, Issues

\* A step that leaves r and its session alone preserves what holds of them.
LEMMA OwnStep ==
  ASSUME TokenInv, Grows, HeapKeeps, NEW r \in Requests,
         req'[r].session = req[r].session, req'[r].presented = req[r].presented
  PROVE  Authorized(r)' /\ Own(r)'
<1> SUFFICES ASSUME req'[r].session # NULL, heap'[req'[r].session] \notin {NULL, Gone}
             PROVE  Authorized(r)' /\ Own(r)'
  BY DEF Authorized, Own, Live
<1> DEFINE s == req[r].session
<1>1. s \in Sessions /\ s # NULL /\ heap[s] # NULL /\ req'[r].client = req[r].client
  BY DEF TokenInv, TokenTypeOK, RequestInv, Request, Grows
<1>2. Live(s) /\ heap'[s].request = heap[s].request
  BY <1>1 DEF HeapKeeps
<1>3. ASSUME req[r].presented # NULL
      PROVE  \E q \in Requests \ {r} :
               req'[q].refreshToken = req[r].presented /\ req'[q].session = s
  BY <1>1, <1>2, <1>3 DEF TokenInv, Authorized, Issues, Grows
<1>4. Authorized(r)'
  BY <1>1, <1>2, <1>3 DEF TokenInv, Authorized, Issues
<1>5. ASSUME NEW client, KeepsToItself(client)'
      PROVE  req'[r].client = client <=> heap'[req'[r].session].request.clientId = client
  <2>1. KeepsToItself(client)
    BY <1>5, KeptToItself DEF TokenInv
  <2> QED
    BY <1>1, <1>2, <2>1 DEF TokenInv, Own
<1> QED
  BY <1>4, <1>5 DEF Own

LEMMA RequestStep ==
  ASSUME TokenInv, Grows, HeapKeeps, NEW r \in Requests, req'[r] = req[r],
         req[r].at \in Working => Live(req[r].session)'
  PROVE  RequestInv(r)'
<1> USE DEF TokenInv
<1>1. RequestInv(r)
  OBVIOUS
<1>2. req[r].session # NULL => heap'[req[r].session] # NULL
  BY <1>1 DEF RequestInv, HeapKeeps, TokenTypeOK, Request
<1>3. ASSUME req[r].presented # NULL
      PROVE  \E q \in Requests : req'[q].refreshToken = req'[r].presented
  BY <1>1, <1>3 DEF RequestInv, Grows, Issues
<1> QED
  BY <1>1, <1>2, <1>3 DEF RequestInv, Live, Issues

\* A step of one request, whatever it does to the maps and its session.
LEMMA StepOfRequest ==
  ASSUME TokenInv, TokenTypeOK', Grows, HeapKeeps, NEW r \in Requests,
         \A q \in Requests \ {r} : req'[q] = req[q],
         \A s \in Sessions : Live(s) => Live(s)',
         RequestInv(r)', Authorized(r)', Own(r)', RefreshInv'
  PROVE  TokenInv'
<1>1. ASSUME NEW q \in Requests \ {r} PROVE RequestInv(q)' /\ Authorized(q)' /\ Own(q)'
  <2>1. req[q].at \in Working => Live(req[q].session)'
    <3>1. req[q].at \in Working => req[q].session \in Sessions /\ Live(req[q].session)
      BY <1>1 DEF TokenInv, RequestInv, TokenTypeOK, Request
    <3>2. PICK s : s = req[q].session
      OBVIOUS
    <3> QED
      BY <3>1, <3>2 DEF Live
  <2> QED
    BY <1>1, <2>1, OwnStep, RequestStep
<1> QED
  BY <1>1 DEF TokenInv

\* The maps and the objects did not change.
LEMMA RefreshKept ==
  ASSUME TokenInv, Grows, UNCHANGED <<heap, storeRefresh>>
  PROVE  RefreshInv'
<1>1. ASSUME NEW token \in Jwts, NEW s \in Sessions, IssuedFor(token, s)
      PROVE  IssuedFor(token, s)'
  BY <1>1, KeepsIssued, TokenAssumption
<1>2. ASSUME NEW token \in Jwts, storeRefresh'[token] # NULL
      PROVE  Live(storeRefresh[token])' /\ IssuedFor(token, storeRefresh[token])'
  <2>1. PICK s \in Sessions : s = storeRefresh[token]
    BY <1>2, TokenAssumption DEF TokenInv, TokenTypeOK, ServiceTypeOK
  <2>2. Live(s) /\ IssuedFor(token, s)
    BY <2>1, <1>2 DEF TokenInv, RefreshInv
  <2> QED
    BY <2>1, <2>2, <1>1 DEF Live, IssuedFor
<1>3. ASSUME NEW s \in Sessions, Live(s)', heap'[s].refreshToken \in Jwts
      PROVE  IssuedFor(heap[s].refreshToken, s)'
  <2>1. PICK token \in Jwts : token = heap[s].refreshToken
    BY <1>3
  <2>2. IssuedFor(token, s)
    BY <2>1, <1>3 DEF TokenInv, RefreshInv, Live
  <2> QED
    BY <2>1, <2>2, <1>1 DEF IssuedFor
<1> QED
  BY <1>2, <1>3 DEF RefreshInv

-----------------------------------------------------------------------------
(***************************************************************************)
(* Type correctness is preserved.                                          *)
(***************************************************************************)
LEMMA JwtType ==
  ASSUME NEW subject \in Subjects \cup {NULL}, NEW audience \in BaseUrls,
         NEW issuedAt \in Instants
  PROVE  /\ Jwt(subject, audience, issuedAt) \in Jwts
         /\ Jwt(subject, audience, issuedAt) \in RefreshTokens
BY TokenAssumption DEF Jwts

LEMMA StoreType ==
  ASSUME ServiceTypeOK, NEW s \in Sessions, NEW token \in RefreshTokens, Store(s, token)
  PROVE  /\ storeId' \in [Ids -> Sessions \cup {NULL}]
         /\ storeCode' \in [Codes -> Sessions \cup {NULL}]
         /\ storeRefresh' \in [RefreshTokens -> Sessions \cup {NULL}]
BY DEF ServiceTypeOK, Store, Ids, Codes

LEMMA NewRequestType == NewRequest \in Request
BY TokenAssumption DEF NewRequest, Request

LEMMA TypeStep ==
  ASSUME TokenInv, [TokenNext]_tokenVars
  PROVE  TokenTypeOK'
<1> USE DEF TokenInv, TokenTypeOK, ServiceTypeOK
<1>1. ASSUME NEW s \in Sessions, NEW l \in Launches, NEW b \in Browsers,
             NEW v \in Subjects, Login(s, l, b, v)
      PROVE  TokenTypeOK'
  <2>1. [NewOauthSession(s, l, b) EXCEPT !.userIdentification = v] \in OauthSession
    BY SessionServiceAssumption DEF NewOauthSession, OauthSession
  <2>2. RandomToken[s] \in RefreshTokens
    BY SessionServiceAssumption
  <2> QED
    BY <1>1, <2>1, <2>2, StoreType DEF Login
<1>2. ASSUME NEW r \in Requests, NEW s \in Sessions, NEW client \in Clients,
             NEW uri, NEW grant \in Grants, NEW url \in BaseUrls,
             Exchange(r, s, client, uri, grant, url)
      PROVE  TokenTypeOK'
  <2>1. [NewRequest EXCEPT !.at = "id", !.grant = grant, !.client = client,
                           !.session = s, !.audience = url] \in Request
    BY NewRequestType DEF Request, NewRequest, Pending, Creating, Storing
  <2> QED
    BY <1>2, <2>1 DEF Exchange, storeVars
<1>3. ASSUME NEW r \in Requests, NEW s \in Sessions, NEW client \in Clients,
             NEW token \in Handed, Refresh(r, s, client, token)
      PROVE  TokenTypeOK'
  <2>1. token \in RefreshTokens
    BY <1>3 DEF Handed, Request
  <2>2. [NewRequest EXCEPT !.at = "consume", !.grant = "refresh_token",
                           !.client = client, !.presented = token] \in Request
    BY <2>1, NewRequestType DEF Request, NewRequest, Pending, Storing, Grants
  <2> QED
    BY <1>3, <2>2 DEF Refresh, storeVars
<1>4. ASSUME NEW r \in Requests, Refuse(r)
      PROVE  TokenTypeOK'
  BY <1>4 DEF Refuse, Request, storeVars
<1>5. ASSUME NEW r \in Requests, Consume(r)
      PROVE  TokenTypeOK'
  <2>1. PICK s \in Sessions \cup {NULL} :
          /\ ConsumeRefreshToken(req[r].presented, s)
          /\ \/ req' = [req EXCEPT ![r].at = "refused", ![r].session = s]
             \/ req' = [req EXCEPT ![r].at = "failed", ![r].session = s]
             \/ req' = [req EXCEPT ![r].at = "id", ![r].session = s,
                                   ![r].audience = Audience(req[r].presented)]
    BY <1>5 DEF Consume
  <2>2. Audience(req[r].presented) \in BaseUrls
    <3>1. req[r].presented \in Jwts
      BY <1>5 DEF Consume, RequestInv, Issues
    <3> QED
      BY <3>1 DEF Jwts, Jwt, Audience
  <2>3. req' \in [Requests -> Request]
    BY <2>1, <2>2 DEF Request, Pending, Creating, Storing
  <2>4. storeRefresh' \in [RefreshTokens -> Sessions \cup {NULL}]
    BY <2>1 DEF ConsumeRefreshToken
  <2> QED
    BY <1>5, <2>3, <2>4 DEF Consume
<1>6. ASSUME NEW r \in Requests, req[r].at \in Working
      PROVE  /\ req[r].session \in Sessions /\ heap[req[r].session] \in OauthSession
             /\ userIdentification(r) \in Subjects \cup {NULL}
  BY <1>6 DEF RequestInv, Request, Live, OauthSession, userIdentification
<1>7. ASSUME NEW r \in Requests, CreateIdToken(r) \/ CreateAccessToken(r)
      PROVE  TokenTypeOK'
  <2>1. req[r].at \in Working
    BY <1>7 DEF CreateIdToken, CreateAccessToken, Working, Creating, Storing
  <2>2. userIdentification(r) \in Subjects \cup {NULL}
    BY <1>6, <2>1
  <2>3. CASE CreateIdToken(r)
    BY <2>2, <2>3 DEF CreateIdToken, Request, Pending, Creating, Storing, storeVars
  <2>4. CASE CreateAccessToken(r)
    BY <2>2, <2>4 DEF CreateAccessToken, Request, Pending, Creating, Storing, storeVars
  <2> QED
    BY <1>7, <2>3, <2>4
<1>8. ASSUME NEW r \in Requests, CreateRefreshToken(r)
      PROVE  TokenTypeOK'
  <2> DEFINE token == Jwt(userIdentification(r), req[r].audience, now)
  <2>1. req[r].at \in Working /\ req[r].at \in Creating
    BY <1>8 DEF CreateRefreshToken, Working, Creating
  <2>2. token \in RefreshTokens
    BY <2>1, <1>6, JwtType DEF RequestInv, Request
  <2> HIDE DEF token
  <2>3. req' \in [Requests -> Request]
    BY <1>8, <2>2 DEF CreateRefreshToken, Request, Pending, Storing, token
  <2> QED
    BY <1>8, <2>3 DEF CreateRefreshToken, storeVars
<1>14. ASSUME NEW r \in Requests, SetRefreshToken(r)
       PROVE  TokenTypeOK'
  <2>1. req[r].at \in Working /\ req[r].at \in Storing
    BY <1>14 DEF SetRefreshToken, Working, Storing
  <2>2. req[r].refreshToken \in RefreshTokens
    BY <2>1, TokenAssumption DEF RequestInv
  <2>3. heap' \in [Sessions -> OauthSession \cup {NULL, Gone}]
    BY <1>6, <1>14, <2>1, <2>2 DEF SetRefreshToken, OauthSession
  <2>4. req' \in [Requests -> Request]
    BY <1>14, SMTT(30) DEF SetRefreshToken, Request, Pending, Storing
  <2> QED
    BY <1>14, <2>3, <2>4 DEF SetRefreshToken, storeVars
<1>9. ASSUME NEW r \in Requests, StoreSession(r)
      PROVE  TokenTypeOK'
  <2>1. req[r].session \in Sessions /\ heap[req[r].session].refreshToken \in RefreshTokens
    BY <1>6, <1>9 DEF StoreSession, Working, Storing, OauthSession
  <2>2. req' \in [Requests -> Request]
    BY <1>9 DEF StoreSession, Request, Pending, Storing
  <2> QED
    BY <1>9, <2>1, <2>2, StoreType DEF StoreSession
<1>10. ASSUME NEW r \in Requests, Respond(r)
      PROVE  TokenTypeOK'
  BY <1>10 DEF Respond, Request, storeVars
<1>11. CASE Tick
  BY <1>11 DEF Tick, storeVars
<1>12. CASE Crash
  <2>1. ServiceTypeOK'
    BY <1>12 DEF Crash, ServiceRestart, Unstored
  <2>2. req' \in [Requests -> Request]
    BY <1>12 DEF Crash, Request
  <2> QED
    BY <1>12, <2>1, <2>2 DEF Crash
<1>13. CASE UNCHANGED tokenVars
  BY <1>13 DEF tokenVars, storeVars
<1> QED
  BY <1>1, <1>2, <1>3, <1>4, <1>5, <1>7, <1>8, <1>14, <1>9, <1>10, <1>11,
     <1>12, <1>13 DEF TokenNext, Post, PostCode, Serve

-----------------------------------------------------------------------------
(***************************************************************************)
(* The rest of the invariant is preserved, action by action.               *)
(***************************************************************************)
\* A step of one request that leaves the maps and the objects alone.
LEMMA StepOfRequestOnly ==
  ASSUME TokenInv, TokenTypeOK', Grows, UNCHANGED <<heap, storeVars>>, NEW r \in Requests,
         \A q \in Requests \ {r} : req'[q] = req[q],
         RequestInv(r)', Authorized(r)', Own(r)'
  PROVE  TokenInv'
<1>1. HeapKeeps /\ \A s \in Sessions : Live(s) => Live(s)'
  BY DEF HeapKeeps, Live
<1>2. RefreshInv'
  BY RefreshKept DEF storeVars
<1> QED
  BY <1>1, <1>2, StepOfRequest

LEMMA PresentedKept ==
  ASSUME TokenInv, Grows, NEW r \in Requests,
         req[r].presented # NULL, req'[r].presented = req[r].presented
  PROVE  /\ req'[r].client # NULL
         /\ \E q \in Requests : req'[q].refreshToken = req'[r].presented
<1>1. req[r].client # NULL /\ req'[r].client = req[r].client
  BY DEF TokenInv, RequestInv, Grows
<1>2. PICK q \in Requests : req[q].refreshToken = req[r].presented
  BY DEF TokenInv, RequestInv, Issues
<1>3. req'[q].refreshToken = req[q].refreshToken
  BY <1>2 DEF Grows
<1> QED
  BY <1>1, <1>2, <1>3

LEMMA ExchangeStep ==
  ASSUME TokenInv, TokenTypeOK', NEW r \in Requests, NEW s \in Sessions,
         NEW client \in Clients, NEW uri, NEW grant \in Grants, NEW url \in BaseUrls,
         Exchange(r, s, client, uri, grant, url)
  PROVE  TokenInv'
<1> DEFINE new == [NewRequest EXCEPT !.at = "id", !.grant = grant, !.client = client,
                                     !.session = s, !.audience = url]
<1>1. /\ req[r] = NewRequest /\ Live(s) /\ client = heap[s].request.clientId
      /\ s # NULL /\ client # NULL /\ url # NULL
  BY SessionServiceAssumption, TokenAssumption
     DEF TokenInv, RequestInv, Exchange, Finds, validateAuthorization
<1>2. /\ req \in [Requests -> Request] /\ req' = [req EXCEPT ![r] = new]
      /\ UNCHANGED <<heap, storeVars>>
  BY DEF TokenInv, TokenTypeOK, Exchange
<1>3. /\ new.at = "id" /\ new.session = s /\ new.client = client /\ new.audience = url
      /\ new.refreshToken = NULL /\ new.presented = NULL
  BY DEF NewRequest
<1> HIDE DEF new
<1>4. req'[r] = new /\ \A q \in Requests \ {r} : req'[q] = req[q]
  BY <1>2
<1>5. Grows
  BY <1>1, <1>4 DEF Grows, NewRequest
<1>6. RequestInv(r)'
  BY <1>1, <1>2, <1>3, <1>4 DEF RequestInv, Working, Creating, Storing, Live
<1>7. Authorized(r)' /\ Own(r)'
  BY <1>1, <1>2, <1>3, <1>4 DEF Authorized, Own
<1> QED
  BY <1>2, <1>4, <1>5, <1>6, <1>7, StepOfRequestOnly

LEMMA RefreshStep ==
  ASSUME TokenInv, TokenTypeOK', NEW r \in Requests, NEW s \in Sessions,
         NEW client \in Clients, NEW token \in Handed, Refresh(r, s, client, token)
  PROVE  TokenInv'
<1> DEFINE new == [NewRequest EXCEPT !.at = "consume", !.grant = "refresh_token",
                                     !.client = client, !.presented = token]
<1>1. /\ req[r] = NewRequest /\ client # NULL
      /\ req \in [Requests -> Request] /\ req' = [req EXCEPT ![r] = new]
      /\ UNCHANGED <<heap, storeVars>>
  BY TokenAssumption DEF TokenInv, TokenTypeOK, RequestInv, Refresh, Finds
<1>2. PICK q \in Requests : req[q].at = "answered" /\ req[q].refreshToken = token
  BY DEF Handed
<1>3. /\ new.at = "consume" /\ new.session = NULL /\ new.client = client
      /\ new.refreshToken = NULL /\ new.presented = token /\ token # NULL
  BY DEF NewRequest, Handed
<1> HIDE DEF new
<1>4. req'[r] = new /\ \A p \in Requests \ {r} : req'[p] = req[p]
  BY <1>1
<1>5. Grows
  BY <1>1, <1>4 DEF Grows, NewRequest
<1>6. q # r
  BY <1>1, <1>2 DEF NewRequest
<1>7. RequestInv(r)'
  BY <1>1, <1>2, <1>3, <1>4, <1>6 DEF RequestInv, Working, Creating, Storing, Issues
<1>8. Authorized(r)' /\ Own(r)'
  BY <1>3, <1>4 DEF Authorized, Own
<1> QED
  BY <1>1, <1>4, <1>5, <1>7, <1>8, StepOfRequestOnly

LEMMA RefuseStep ==
  ASSUME TokenInv, TokenTypeOK', NEW r \in Requests, Refuse(r)
  PROVE  TokenInv'
<1>1. /\ req[r] = NewRequest /\ req' = [req EXCEPT ![r].at = "refused"]
      /\ req \in [Requests -> Request]
      /\ UNCHANGED <<heap, storeVars>>
  BY DEF TokenInv, TokenTypeOK, RequestInv, Refuse
<1>2. /\ req'[r] = [NewRequest EXCEPT !.at = "refused"]
      /\ \A q \in Requests \ {r} : req'[q] = req[q]
  BY <1>1
<1>3. Grows
  BY <1>1, <1>2 DEF Grows, NewRequest
<1>4. RequestInv(r)' /\ Authorized(r)' /\ Own(r)'
  BY <1>2 DEF RequestInv, Authorized, Own, NewRequest, Working, Creating, Storing
<1> QED
  BY <1>1, <1>2, <1>3, <1>4, StepOfRequestOnly

\* One more token, or an answer, for the session a request works for.
LEMMA WorkStep ==
  ASSUME TokenInv, TokenTypeOK', NEW r \in Requests,
         CreateIdToken(r) \/ CreateAccessToken(r) \/ Respond(r)
  PROVE  TokenInv'
<1>1. /\ \A q \in Requests \ {r} : req'[q] = req[q]
      /\ UNCHANGED <<heap, storeVars>>
  BY DEF TokenInv, TokenTypeOK, CreateIdToken, CreateAccessToken, Respond
<1>2. /\ req'[r].client = req[r].client /\ req'[r].session = req[r].session
      /\ req'[r].presented = req[r].presented /\ req'[r].audience = req[r].audience
      /\ req'[r].refreshToken = req[r].refreshToken
  BY DEF TokenInv, TokenTypeOK, Request, CreateIdToken, CreateAccessToken, Respond
<1>3. /\ req[r].at \in Working
      /\ \/ req[r].at \in Creating /\ req'[r].at \in Creating
         \/ req'[r].at \in {"respond", "answered", "lost"}
  BY DEF TokenInv, TokenTypeOK, Request, CreateIdToken, CreateAccessToken, Respond,
         Working, Creating, Storing
<1>4. Grows
  BY <1>1, <1>2 DEF Grows
<1>5. RequestInv(r)'
  BY <1>1, <1>2, <1>3, <1>4, PresentedKept
     DEF TokenInv, RequestInv, Working, Creating, Storing, Live, Issues
<1>6. Authorized(r)' /\ Own(r)'
  BY <1>1, <1>2, <1>4, OwnStep DEF HeapKeeps, Live
<1> QED
  BY <1>1, <1>4, <1>5, <1>6, StepOfRequestOnly

(***************************************************************************)
(* The session a refresh token leads to is one that somebody was issued it *)
(* for; a client that keeps to itself is only led to sessions of its own,  *)
(* and nobody else is led to those.                                        *)
(***************************************************************************)
LEMMA ConsumedOwn ==
  ASSUME TokenInv, NEW r \in Requests, req[r].presented # NULL,
         storeRefresh[req[r].presented] # NULL
  PROVE  /\ Live(storeRefresh[req[r].presented])
         /\ \E q \in Requests :
              /\ Issues(q, req[r].presented)
              /\ req[q].session = storeRefresh[req[r].presented]
         /\ \A client : KeepsToItself(client) =>
              (req[r].client = client <=>
                 heap[storeRefresh[req[r].presented]].request.clientId = client)
<1>1. req[r].presented \in Jwts
  BY DEF TokenInv, RequestInv, Issues
<1>2. PICK q \in Requests :
        /\ Issues(q, req[r].presented)
        /\ req[q].session = storeRefresh[req[r].presented]
  BY <1>1 DEF TokenInv, RefreshInv, IssuedFor
<1>3. Live(storeRefresh[req[r].presented])
  BY <1>1 DEF TokenInv, RefreshInv
<1>4. ASSUME NEW client, KeepsToItself(client)
      PROVE  req[r].client = client <=>
               heap[storeRefresh[req[r].presented]].request.clientId = client
  <2>1. req[r].client = client <=> req[q].client = client
    BY <1>2, <1>4 DEF KeepsToItself
  <2>2. req[q].session # NULL /\ Live(req[q].session)
    BY <1>2, <1>3
  <2> QED
    BY <1>2, <1>4, <2>1, <2>2 DEF TokenInv, Own
<1> QED
  BY <1>2, <1>3, <1>4

LEMMA ConsumeStep ==
  ASSUME TokenInv, TokenTypeOK', NEW r \in Requests, Consume(r)
  PROVE  TokenInv'
<1> DEFINE token == req[r].presented
<1>1. PICK s \in Sessions \cup {NULL} :
        /\ ConsumeRefreshToken(token, s)
        /\ \/ req' = [req EXCEPT ![r].at = "refused", ![r].session = s]
           \/ s # NULL /\ req' = [req EXCEPT ![r].at = "failed", ![r].session = s]
           \/ s # NULL /\ req' = [req EXCEPT ![r].at = "id", ![r].session = s,
                                             ![r].audience = Audience(token)]
  BY DEF Consume
<1>2. /\ req[r].at = "consume" /\ req[r].session = NULL /\ req[r].refreshToken = NULL
      /\ req[r].client # NULL /\ token # NULL /\ token \in Jwts
      /\ req \in [Requests -> Request] /\ UNCHANGED heap
  <2>1. /\ req[r].at = "consume" /\ req \in [Requests -> Request] /\ UNCHANGED heap
    BY DEF Consume, TokenInv, TokenTypeOK
  <2> QED
    BY <2>1 DEF TokenInv, RequestInv, Issues
<1>3. Audience(token) # NULL
  BY <1>2, TokenAssumption DEF Jwts, Jwt, Audience
<1>4. /\ \A q \in Requests \ {r} : req'[q] = req[q]
      /\ req'[r].session = s /\ req'[r].client = req[r].client
      /\ req'[r].presented = token /\ req'[r].refreshToken = NULL
      /\ \/ req'[r].at \in {"refused", "failed"}
         \/ req'[r].at = "id" /\ s # NULL /\ req'[r].audience # NULL
  BY <1>1, <1>2, <1>3 DEF Request
<1>5. Grows /\ HeapKeeps
  BY <1>2, <1>4 DEF Grows, HeapKeeps, Live
<1>6. s # NULL => s = storeRefresh[token]
  BY <1>1 DEF ConsumeRefreshToken, Gets
<1>7. s # NULL =>
        /\ Live(s)
        /\ \E q \in Requests : Issues(q, token) /\ req[q].session = s
        /\ \A client : KeepsToItself(client) =>
             (req[r].client = client <=> heap[s].request.clientId = client)
  BY <1>2, <1>6, ConsumedOwn
<1>8. RequestInv(r)'
  BY <1>2, <1>4, <1>5, <1>7, PresentedKept
     DEF RequestInv, Working, Creating, Storing, Live, Issues
<1>9. Authorized(r)' /\ Own(r)'
  <2>1. ASSUME s # NULL
        PROVE  \E q \in Requests \ {r} :
                 req'[q].refreshToken = token /\ req'[q].session = s
    <3>1. PICK q \in Requests : req[q].refreshToken = token /\ req[q].session = s
      BY <1>7, <2>1 DEF Issues
    <3>2. q # r
      BY <1>2, <3>1
    <3> QED
      BY <1>4, <3>1, <3>2
  <2>2. Authorized(r)'
    BY <1>2, <1>4, <2>1 DEF Authorized, Issues
  <2>3. ASSUME NEW client, KeepsToItself(client)', s # NULL
        PROVE  req[r].client = client <=> heap[s].request.clientId = client
    <3>1. KeepsToItself(client)
      BY <1>5, <2>3, KeptToItself DEF TokenInv
    <3> QED
      BY <1>7, <2>3, <3>1
  <2>4. Own(r)'
    BY <1>2, <1>4, <2>3 DEF Own
  <2> QED
    BY <2>2, <2>4
<1>10. RefreshInv'
  <2>1. ASSUME NEW t \in Jwts, storeRefresh'[t] # NULL
        PROVE  Live(storeRefresh[t])' /\ IssuedFor(t, storeRefresh[t])'
    <3>1. storeRefresh'[t] = storeRefresh[t]
      BY <1>1, <1>2, <2>1, TokenAssumption
         DEF ConsumeRefreshToken, TokenInv, TokenTypeOK, ServiceTypeOK
    <3>2. PICK x : x = storeRefresh[t]
      OBVIOUS
    <3>3. Live(x) /\ IssuedFor(t, x)
      BY <2>1, <3>1, <3>2 DEF TokenInv, RefreshInv
    <3>4. IssuedFor(t, x)'
      BY <1>5, <3>3, KeepsIssued, TokenAssumption
    <3> QED
      BY <1>2, <3>1, <3>2, <3>3, <3>4 DEF Live, IssuedFor
  <2>2. ASSUME NEW x \in Sessions, Live(x)', heap'[x].refreshToken \in Jwts
        PROVE  IssuedFor(heap[x].refreshToken, x)'
    <3>1. PICK t \in Jwts : t = heap[x].refreshToken
      BY <1>2, <2>2
    <3>2. IssuedFor(t, x)
      BY <1>2, <2>2, <3>1 DEF TokenInv, RefreshInv, Live
    <3>3. IssuedFor(t, x)'
      BY <1>5, <3>2, KeepsIssued, TokenAssumption
    <3> QED
      BY <1>2, <3>1, <3>3 DEF IssuedFor
  <2> QED
    BY <2>1, <2>2 DEF RefreshInv
<1> QED
  BY <1>2, <1>4, <1>5, <1>8, <1>9, <1>10, StepOfRequest DEF Live

\* A refresh token is issued for the session of its request.
LEMMA CreateRefreshTokenStep ==
  ASSUME TokenInv, TokenTypeOK', NEW r \in Requests, CreateRefreshToken(r)
  PROVE  TokenInv'
<1> DEFINE s == req[r].session
<1>1. PICK token : token = Jwt(userIdentification(r), req[r].audience, now)
  OBVIOUS
<1>2. /\ req[r].at = "refresh" /\ req[r].at \in Creating /\ req[r].at \in Working
      /\ req' = [req EXCEPT ![r].refreshToken = token, ![r].at = "set"]
      /\ UNCHANGED <<heap, storeVars>>
      /\ req \in [Requests -> Request]
      /\ heap \in [Sessions -> OauthSession \cup {NULL, Gone}]
  BY <1>1 DEF CreateRefreshToken, Creating, Working, TokenInv, TokenTypeOK, ServiceTypeOK
<1>3. /\ s \in Sessions /\ s # NULL /\ Live(s) /\ heap[s] \in OauthSession
      /\ req[r].audience \in BaseUrls /\ req[r].refreshToken = NULL /\ req[r].client # NULL
  BY <1>2 DEF TokenInv, RequestInv, Request, Live
<1>4. token \in Jwts
  BY <1>1, <1>3, JwtType DEF userIdentification, OauthSession, TokenInv, TokenTypeOK
<1>5. /\ \A q \in Requests \ {r} : req'[q] = req[q]
      /\ req'[r].session = s /\ req'[r].client = req[r].client /\ req'[r].at = "set"
      /\ req'[r].presented = req[r].presented /\ req'[r].refreshToken = token
  BY <1>2 DEF Request
<1>6. Grows /\ HeapKeeps
  BY <1>2, <1>3, <1>5 DEF Grows, HeapKeeps, Live
<1>7. token # NULL
  BY <1>4, TokenAssumption
<1>8. RequestInv(r)'
  BY <1>2, <1>3, <1>4, <1>5, <1>6, <1>7, PresentedKept
     DEF RequestInv, Working, Creating, Storing, Live, Issues
<1>9. Authorized(r)' /\ Own(r)'
  BY <1>5, <1>6, OwnStep
<1> QED
  BY <1>2, <1>5, <1>6, <1>8, <1>9, StepOfRequestOnly

\* The session learns its refresh token: it was issued for that session.
LEMMA SetRefreshTokenStep ==
  ASSUME TokenInv, TokenTypeOK', NEW r \in Requests, SetRefreshToken(r)
  PROVE  TokenInv'
<1> DEFINE s == req[r].session
<1>1. PICK token : token = req[r].refreshToken
  OBVIOUS
<1>2. /\ req[r].at = "set" /\ req[r].at \in Storing /\ req[r].at \in Working
      /\ req' = [req EXCEPT ![r].at = "store"]
      /\ heap' = [heap EXCEPT ![s].refreshToken = token]
      /\ UNCHANGED storeVars
      /\ req \in [Requests -> Request]
      /\ heap \in [Sessions -> OauthSession \cup {NULL, Gone}]
  BY <1>1 DEF SetRefreshToken, Storing, Working, TokenInv, TokenTypeOK, ServiceTypeOK
<1>3. s \in Sessions /\ s # NULL /\ heap[s] \in OauthSession /\ req[r].client # NULL
  BY <1>2 DEF TokenInv, RequestInv, Request, Live
<1>4. token \in Jwts /\ token # NULL
  BY <1>1, <1>2 DEF TokenInv, RequestInv
<1>5. /\ \A q \in Requests \ {r} : req'[q] = req[q]
      /\ req'[r].session = s /\ req'[r].client = req[r].client /\ req'[r].at = "store"
      /\ req'[r].presented = req[r].presented /\ req'[r].refreshToken = token
  BY <1>1, <1>2 DEF Request
<1>6. /\ \A x \in Sessions \ {s} : heap'[x] = heap[x]
      /\ heap'[s] \in OauthSession /\ heap'[s].request = heap[s].request
      /\ heap'[s].refreshToken = token
  <2>1. token \in RefreshTokens
    BY <1>4, TokenAssumption
  <2> QED
    BY <1>2, <1>3, <2>1 DEF OauthSession
<1>7. \A x \in Sessions : Live(x)' <=> Live(x)
  <2>1. Live(s) /\ heap'[s] \notin {NULL, Gone}
    BY <1>3, <1>6, ObjectAssumption DEF Live
  <2>2. ASSUME NEW x \in Sessions PROVE heap'[x] \in {NULL, Gone} <=> heap[x] \in {NULL, Gone}
    BY <1>6, <2>1 DEF Live
  <2> QED
    BY <2>2 DEF Live
<1>8. Grows /\ HeapKeeps
  <2>1. Grows
    BY <1>1, <1>5 DEF Grows
  <2>2. ASSUME NEW x \in Sessions, heap[x] # NULL
        PROVE  /\ heap'[x] # NULL
               /\ heap'[x] \notin {NULL, Gone} =>
                    Live(x) /\ heap'[x].request = heap[x].request
    BY <1>6, <1>7, <2>2, ObjectAssumption DEF Live
  <2> QED
    BY <2>1, <2>2 DEF HeapKeeps
<1>9. RequestInv(r)'
  <2>1. heap'[s] \notin {NULL, Gone}
    BY <1>6, ObjectAssumption
  <2> QED
    BY <1>3, <1>4, <1>5, <1>8, <2>1, PresentedKept
       DEF RequestInv, Working, Creating, Storing, Live, Issues
<1>10. Authorized(r)' /\ Own(r)'
  BY <1>5, <1>8, OwnStep
<1>11. ASSUME NEW t \in Jwts, NEW x \in Sessions, IssuedFor(t, x)
       PROVE  IssuedFor(t, x)'
  BY <1>8, <1>11, KeepsIssued, TokenAssumption
<1>12. RefreshInv'
  <2>1. ASSUME NEW t \in Jwts, storeRefresh'[t] # NULL
        PROVE  Live(storeRefresh[t])' /\ IssuedFor(t, storeRefresh[t])'
    <3>1. PICK x \in Sessions : x = storeRefresh[t]
      BY <1>2, <2>1, TokenAssumption
         DEF storeVars, TokenInv, TokenTypeOK, ServiceTypeOK
    <3>2. Live(x) /\ IssuedFor(t, x)
      BY <1>2, <2>1, <3>1 DEF storeVars, TokenInv, RefreshInv
    <3>3. Live(x)' /\ IssuedFor(t, x)'
      BY <1>7, <1>11, <3>2
    <3> QED
      BY <1>2, <3>1, <3>3 DEF storeVars, Live, IssuedFor
  <2>2. ASSUME NEW x \in Sessions, Live(x)', heap'[x].refreshToken \in Jwts
        PROVE  IssuedFor(heap[x].refreshToken, x)'
    <3>1. CASE x = s
      BY <1>5, <1>6, <3>1 DEF IssuedFor, Issues
    <3>2. CASE x # s
      <4>1. PICK t \in Jwts : t = heap[x].refreshToken
        BY <1>6, <2>2, <3>2
      <4>2. IssuedFor(t, x)
        BY <1>6, <1>7, <2>2, <3>2, <4>1 DEF TokenInv, RefreshInv
      <4>3. IssuedFor(t, x)'
        BY <1>11, <4>2
      <4> QED
        BY <1>6, <3>2, <4>1, <4>3 DEF IssuedFor
    <3> QED
      BY <3>1, <3>2
  <2> QED
    BY <2>1, <2>2 DEF RefreshInv
<1> QED
  BY <1>5, <1>7, <1>8, <1>9, <1>10, <1>12, StepOfRequest

\* The put uses whatever token the session has by now; it was issued for it.
LEMMA StoreSessionStep ==
  ASSUME TokenInv, TokenTypeOK', NEW r \in Requests, StoreSession(r)
  PROVE  TokenInv'
<1>1. PICK s : s = req[r].session
  OBVIOUS
<1>2. /\ req[r].at = "store" /\ req[r].at \in Working
      /\ req' = [req EXCEPT ![r].at = "respond"] /\ UNCHANGED heap
      /\ storeRefresh' = [storeRefresh EXCEPT ![heap[s].refreshToken] = s]
      /\ req \in [Requests -> Request]
      /\ storeRefresh \in [RefreshTokens -> Sessions \cup {NULL}]
  BY <1>1 DEF StoreSession, Store, Working, Storing, TokenInv, TokenTypeOK, ServiceTypeOK
<1>3. s \in Sessions /\ s # NULL /\ Live(s)
  BY <1>1, <1>2 DEF TokenInv, RequestInv, Request
<1>4. /\ \A q \in Requests \ {r} : req'[q] = req[q]
      /\ req'[r].session = s /\ req'[r].client = req[r].client /\ req'[r].at = "respond"
      /\ req'[r].presented = req[r].presented
      /\ req'[r].refreshToken = req[r].refreshToken
  BY <1>1, <1>2 DEF Request
<1>5. Grows /\ HeapKeeps
  BY <1>1, <1>2, <1>4 DEF Grows, HeapKeeps, Live
<1>6. RequestInv(r)'
  BY <1>1, <1>2, <1>3, <1>4, <1>5, PresentedKept
     DEF TokenInv, RequestInv, Working, Creating, Storing, Live, Issues
<1>7. Authorized(r)' /\ Own(r)'
  BY <1>1, <1>4, <1>5, OwnStep
<1>8. ASSUME NEW t \in Jwts, NEW x, IssuedFor(t, x)
      PROVE  IssuedFor(t, x)'
  BY <1>5, <1>8, KeepsIssued, TokenAssumption
<1>9. RefreshInv'
  <2>1. ASSUME NEW t \in Jwts, storeRefresh'[t] # NULL
        PROVE  Live(storeRefresh[t])' /\ IssuedFor(t, storeRefresh[t])'
    <3>1. PICK x : x = storeRefresh'[t]
      OBVIOUS
    <3>2. Live(x) /\ IssuedFor(t, x)
      <4>1. CASE t = heap[s].refreshToken
        <5>1. x = s
          BY <1>2, <3>1, <4>1, TokenAssumption
        <5> QED
          BY <1>3, <4>1, <5>1 DEF TokenInv, RefreshInv
      <4>2. CASE t # heap[s].refreshToken
        <5>1. x = storeRefresh[t]
          BY <1>2, <3>1, <4>2, TokenAssumption
        <5> QED
          BY <2>1, <3>1, <5>1 DEF TokenInv, RefreshInv
      <4> QED
        BY <4>1, <4>2
    <3>3. IssuedFor(t, x)'
      BY <1>8, <3>2
    <3> QED
      BY <1>2, <3>1, <3>2, <3>3 DEF Live, IssuedFor
  <2>2. ASSUME NEW x \in Sessions, Live(x)', heap'[x].refreshToken \in Jwts
        PROVE  IssuedFor(heap[x].refreshToken, x)'
    <3>1. PICK t \in Jwts : t = heap[x].refreshToken
      BY <1>2, <2>2
    <3>2. IssuedFor(t, x)
      BY <1>2, <2>2, <3>1 DEF TokenInv, RefreshInv, Live
    <3>3. IssuedFor(t, x)'
      BY <1>8, <3>2
    <3> QED
      BY <1>2, <3>1, <3>3 DEF IssuedFor
  <2> QED
    BY <2>1, <2>2 DEF RefreshInv
<1> QED
  BY <1>2, <1>4, <1>5, <1>6, <1>7, <1>9, StepOfRequest DEF Live

\* A new object has a UUID, which is no JWT, for its refresh token.
LEMMA LoginStep ==
  ASSUME TokenInv, TokenTypeOK', NEW s \in Sessions, NEW l \in Launches,
         NEW b \in Browsers, NEW v \in Subjects, Login(s, l, b, v)
  PROVE  TokenInv'
<1> DEFINE new == [NewOauthSession(s, l, b) EXCEPT !.userIdentification = v]
<1>1. /\ heap[s] = NULL /\ heap' = [heap EXCEPT ![s] = new] /\ UNCHANGED req
      /\ storeRefresh' = [storeRefresh EXCEPT ![RandomToken[s]] = s]
      /\ heap \in [Sessions -> OauthSession \cup {NULL, Gone}]
      /\ storeRefresh \in [RefreshTokens -> Sessions \cup {NULL}]
  BY DEF Login, Store, TokenInv, TokenTypeOK, ServiceTypeOK
<1>2. new \in OauthSession /\ new.refreshToken = RandomToken[s]
  BY SessionServiceAssumption DEF NewOauthSession, OauthSession
<1> HIDE DEF new
<1>3. /\ heap'[s].refreshToken \notin Jwts
      /\ \A x \in Sessions \ {s} : heap'[x] = heap[x]
      /\ \A t \in Jwts : storeRefresh'[t] = storeRefresh[t]
  BY <1>1, <1>2, TokenAssumption
<1>4. Grows /\ HeapKeeps /\ \A x \in Sessions : Live(x) => Live(x)'
  BY <1>1, <1>3 DEF Grows, HeapKeeps, Live
<1>5. ASSUME NEW q \in Requests PROVE RequestInv(q)' /\ Authorized(q)' /\ Own(q)'
  <2>1. PICK x : x = req[q].session
    OBVIOUS
  <2>2. req[q].at \in Working => x \in Sessions /\ Live(x)
    BY <2>1 DEF TokenInv, RequestInv, TokenTypeOK, Request
  <2>3. req[q].at \in Working => Live(req[q].session)'
    BY <1>1, <1>4, <2>1, <2>2 DEF Live
  <2> QED
    BY <1>1, <1>4, <2>3, OwnStep, RequestStep
<1>6. ASSUME NEW t \in Jwts, NEW x, IssuedFor(t, x)
      PROVE  IssuedFor(t, x)'
  BY <1>4, <1>6, KeepsIssued, TokenAssumption
<1>7. ASSUME NEW t \in Jwts, storeRefresh'[t] # NULL
      PROVE  Live(storeRefresh[t])' /\ IssuedFor(t, storeRefresh[t])'
  <2>1. PICK x \in Sessions : x = storeRefresh[t] /\ x = storeRefresh'[t]
    BY <1>1, <1>3, <1>7, TokenAssumption
  <2>2. Live(x) /\ IssuedFor(t, x)
    BY <1>3, <1>7, <2>1 DEF TokenInv, RefreshInv
  <2>3. Live(x)' /\ IssuedFor(t, x)'
    BY <1>4, <1>6, <2>2
  <2> QED
    BY <2>1, <2>3 DEF Live, IssuedFor
<1>8. ASSUME NEW x \in Sessions, Live(x)', heap'[x].refreshToken \in Jwts
      PROVE  IssuedFor(heap[x].refreshToken, x)'
  <2>1. x # s
    BY <1>3, <1>8
  <2>2. PICK t \in Jwts : t = heap[x].refreshToken
    BY <1>3, <1>8, <2>1
  <2>3. IssuedFor(t, x)
    BY <1>3, <1>8, <2>1, <2>2 DEF TokenInv, RefreshInv, Live
  <2>4. IssuedFor(t, x)'
    BY <1>6, <2>3
  <2> QED
    BY <1>3, <2>1, <2>2, <2>4 DEF IssuedFor
<1> QED
  BY <1>5, <1>7, <1>8 DEF TokenInv, RefreshInv

\* Time passes, or nothing does.
LEMMA IdleStep ==
  ASSUME TokenInv, TokenTypeOK', UNCHANGED <<heap, storeVars, req>>
  PROVE  TokenInv'
<1>1. Grows /\ HeapKeeps
  BY DEF Grows, HeapKeeps, Live
<1>2. ASSUME NEW q \in Requests PROVE RequestInv(q)' /\ Authorized(q)' /\ Own(q)'
  <2>1. req[q].at \in Working => Live(req[q].session)'
    BY DEF TokenInv, RequestInv, Live
  <2> QED
    BY <1>1, <2>1, OwnStep, RequestStep
<1> QED
  BY <1>1, <1>2, RefreshKept DEF TokenInv, storeVars

\* Nothing that was only in memory is left to be wrong about.
LEMMA CrashStep ==
  ASSUME TokenInv, TokenTypeOK', Crash
  PROVE  TokenInv'
<1>1. /\ heap' = [s \in Sessions |-> IF heap[s] = NULL THEN NULL ELSE Gone]
      /\ storeRefresh' = Unstored(RefreshTokens)
      /\ req \in [Requests -> Request]
  BY DEF Crash, ServiceRestart, TokenInv, TokenTypeOK
<1>2. \A s \in Sessions : heap'[s] \in {NULL, Gone}
  BY <1>1
<1>3. ASSUME NEW q \in Requests
      PROVE  /\ req'[q].client = req[q].client /\ req'[q].session = req[q].session
             /\ req'[q].presented = req[q].presented
             /\ req'[q].refreshToken = req[q].refreshToken
             /\ \/ req'[q].at = "failed"
                \/ req'[q] = req[q] /\ req[q].at \notin Pending
  BY <1>1 DEF Crash, InProgress, Request
<1>4. Grows /\ HeapKeeps
  BY <1>1, <1>2, <1>3, SessionServiceAssumption DEF Grows, HeapKeeps
<1>5. ASSUME NEW q \in Requests PROVE RequestInv(q)'
  <2>1. req[q].session # NULL => heap'[req[q].session] # NULL
    BY <1>4 DEF TokenInv, RequestInv, HeapKeeps, TokenTypeOK, Request
  <2>2. CASE req'[q].at = "failed"
    BY <1>3, <1>4, <2>1, <2>2, PresentedKept
       DEF TokenInv, RequestInv, Working, Creating, Storing, Issues
  <2>3. CASE req'[q] = req[q] /\ req[q].at \notin Pending
    BY <1>4, <2>3, RequestStep DEF Working, Storing, Pending
  <2> QED
    BY <1>3, <2>2, <2>3
<1>6. ASSUME NEW q \in Requests PROVE Authorized(q)' /\ Own(q)'
  BY <1>3, <1>4, OwnStep
<1>7. RefreshInv'
  BY <1>1, <1>2, TokenAssumption DEF RefreshInv, Unstored, Live
<1> QED
  BY <1>5, <1>6, <1>7 DEF TokenInv

-----------------------------------------------------------------------------
(***************************************************************************)
(* The theorems.                                                           *)
(***************************************************************************)
LEMMA TokenInitially ==
  ASSUME TokenInit
  PROVE  TokenInv
<1>1. TokenTypeOK
  BY TokenAssumption, NewRequestType
     DEF TokenInit, ServiceInit, Unstored, TokenTypeOK, ServiceTypeOK
<1>2. /\ \A r \in Requests : req[r] = NewRequest
      /\ \A s \in Sessions : ~Live(s)
      /\ \A token \in Jwts : storeRefresh[token] = NULL
  BY TokenAssumption DEF TokenInit, ServiceInit, Unstored, Live
<1>3. \A r \in Requests : RequestInv(r) /\ Authorized(r) /\ Own(r)
  BY <1>2 DEF RequestInv, Authorized, Own, NewRequest, Working, Creating, Storing
<1>4. RefreshInv
  BY <1>2 DEF RefreshInv
<1> QED
  BY <1>1, <1>3, <1>4 DEF TokenInv

LEMMA TokenStep ==
  ASSUME TokenInv, [TokenNext]_tokenVars
  PROVE  TokenInv'
<1> USE TypeStep
<1>1. ASSUME NEW s \in Sessions, NEW l \in Launches, NEW b \in Browsers,
             NEW v \in Subjects, Login(s, l, b, v)
      PROVE  TokenInv'
  BY <1>1, LoginStep
<1>2. ASSUME NEW r \in Requests, Post(r)
      PROVE  TokenInv'
  BY <1>2, ExchangeStep, RefreshStep, RefuseStep DEF Post, PostCode
<1>3. ASSUME NEW r \in Requests, Serve(r)
      PROVE  TokenInv'
  BY <1>3, ConsumeStep, WorkStep, CreateRefreshTokenStep, SetRefreshTokenStep,
     StoreSessionStep DEF Serve
<1>4. CASE Tick
  BY <1>4, IdleStep DEF Tick
<1>5. CASE Crash
  BY <1>5, CrashStep
<1>6. CASE UNCHANGED tokenVars
  BY <1>6, IdleStep DEF tokenVars
<1> QED
  BY <1>1, <1>2, <1>3, <1>4, <1>5, <1>6 DEF TokenNext

(***************************************************************************)
(* The invariant holds however requests overlap: in particular a JWT in    *)
(* STORE_REFRESH_TOKEN always leads to a session it was issued for, since  *)
(* OauthSessionService.store() reads the token from the session it stores. *)
(***************************************************************************)
THEOREM TokenInvariance == TokenSpec => []TokenInv
<1>1. TokenInit => TokenInv
  BY TokenInitially
<1>2. TokenInv /\ [TokenNext]_tokenVars => TokenInv'
  BY TokenStep
<1> QED
  BY <1>1, <1>2, PTL DEF TokenSpec

(***************************************************************************)
(* The fields of Oauth2Controller's requests and of the session service    *)
(* keep their types.                                                       *)
(***************************************************************************)
THEOREM TokenTypeCorrect == TokenSpec => []TokenTypeOK
<1>1. TokenInv => TokenTypeOK
  BY DEF TokenInv
<1> QED
  BY <1>1, TokenInvariance, PTL

(***************************************************************************)
(* Oauth2Controller.token answers a code only to the client of its session *)
(* (validateAuthorization), and a refresh token, from whichever client,    *)
(* only for a session that this token was issued for: tokenRefresh relies  *)
(* on STORE_REFRESH_TOKEN alone.                                           *)
(***************************************************************************)
THEOREM AnswersAsIssued == TokenSpec => []AnsweredAsIssued
<1>1. ASSUME TokenInv PROVE AnsweredAsIssued
  BY <1>1 DEF AnsweredAsIssued, Answered, TokenInv, RequestInv, Authorized
<1> QED
  BY <1>1, TokenInvariance, PTL

-----------------------------------------------------------------------------
(***************************************************************************)
(* What clients that await their answers can rely on.  The rest of the     *)
(* module is about what one step does to one refresh token.                *)
(***************************************************************************)
\* Two requests of one client are under way only if the client allows it.
OneAtATime ==
  \A r, q \in Requests :
    (r # q /\ InProgress(r) /\ InProgress(q) /\ req[r].client = req[q].client) =>
      req[r].client \in Overlapping

\* Between setRefreshToken and the put, the session keeps the token.
Learnt(r) ==
  (req[r].at = "store" /\ Awaits(req[r].client)) =>
    heap[req[r].session].refreshToken = req[r].refreshToken

AwaitInv ==
  /\ TokenInv
  /\ OneAtATime
  /\ \A r \in Requests : Learnt(r)

\* Sessions of requests, and instants, only ever move on.
MovesOn ==
  /\ \A r \in Requests : req[r].session # NULL => req'[r].session = req[r].session
  /\ now' >= now

LEMMA AnyStep ==
  ASSUME TokenInv, [TokenNext]_tokenVars
  PROVE  Grows /\ HeapKeeps /\ MovesOn
<1> USE DEF TokenInv, TokenTypeOK
<1> USE TokenAssumption
<1>0. now' >= now
  <2>1. now \in Nat
    OBVIOUS
  <2>2. CASE UNCHANGED now
    BY <2>1, <2>2
  <2>3. CASE Tick
    BY <2>1, <2>3 DEF Tick
  <2>4. ASSUME NEW s, NEW l, NEW b, NEW v, Login(s, l, b, v) PROVE UNCHANGED now
    BY <2>4 DEF Login
  <2>5. ASSUME NEW r, Post(r) PROVE UNCHANGED now
    BY <2>5 DEF Post, PostCode, Exchange, Refresh, Refuse
  <2>6. ASSUME NEW r, Serve(r) PROVE UNCHANGED now
    BY <2>6 DEF Serve, Consume, CreateIdToken, CreateAccessToken, CreateRefreshToken,
                SetRefreshToken, StoreSession, Respond
  <2>7. ASSUME Crash \/ UNCHANGED tokenVars PROVE UNCHANGED now
    BY <2>7 DEF Crash, tokenVars
  <2> QED
    BY <2>2, <2>3, <2>4, <2>5, <2>6, <2>7 DEF TokenNext
<1>1. ASSUME NEW s \in Sessions, NEW l \in Launches, NEW b \in Browsers,
             NEW v \in Subjects, Login(s, l, b, v)
      PROVE  Grows /\ HeapKeeps /\ MovesOn
  BY <1>1, <1>0 DEF Login, Grows, HeapKeeps, MovesOn, Live, ServiceTypeOK
<1>2. ASSUME NEW r \in Requests, Post(r)
      PROVE  Grows /\ HeapKeeps /\ MovesOn
  <2>1. req[r] = NewRequest /\ UNCHANGED heap
    BY <1>2 DEF RequestInv, Post, PostCode, Exchange, Refresh, Refuse, Finds
  <2>2. \A q \in Requests \ {r} : req'[q] = req[q]
    BY <1>2 DEF Post, PostCode, Exchange, Refresh, Refuse
  <2> QED
    BY <2>1, <2>2, <1>0 DEF Grows, HeapKeeps, MovesOn, NewRequest, Live
<1>3. ASSUME NEW r \in Requests, Serve(r)
      PROVE  Grows /\ HeapKeeps /\ MovesOn
  <2>1. \A q \in Requests \ {r} : req'[q] = req[q]
    BY <1>3 DEF Serve, Consume, CreateIdToken, CreateAccessToken, CreateRefreshToken,
                SetRefreshToken, StoreSession, Respond
  <2>2. /\ req'[r].client = req[r].client /\ req'[r].presented = req[r].presented
        /\ req[r].session # NULL => req'[r].session = req[r].session
        /\ req[r].refreshToken # NULL =>
             req'[r].refreshToken = req[r].refreshToken /\ req'[r].session = req[r].session
    <3>1. CASE Consume(r)
      BY <3>1 DEF Consume, RequestInv, Request, Creating
    <3>2. CASE CreateRefreshToken(r)
      BY <3>2 DEF CreateRefreshToken, RequestInv, Request, Creating
    <3>3. CASE \/ CreateIdToken(r) \/ CreateAccessToken(r)
               \/ SetRefreshToken(r) \/ StoreSession(r) \/ Respond(r)
      BY <3>3 DEF CreateIdToken, CreateAccessToken, SetRefreshToken, StoreSession,
         Respond, Request
    <3> QED
      BY <1>3, <3>1, <3>2, <3>3 DEF Serve
  <2>3. HeapKeeps
    <3>1. CASE SetRefreshToken(r)
      <4>1. /\ req[r].session \in Sessions /\ Live(req[r].session)
            /\ heap[req[r].session] \in OauthSession
            /\ req[r].refreshToken \in RefreshTokens
        BY <3>1 DEF SetRefreshToken, RequestInv, Working, Storing, Request,
                    ServiceTypeOK, Live
      <4>2. \A s \in Sessions \ {req[r].session} : heap'[s] = heap[s]
        BY <3>1 DEF SetRefreshToken, ServiceTypeOK
      <4>3. /\ heap'[req[r].session] \in OauthSession
            /\ heap'[req[r].session].request = heap[req[r].session].request
        BY <3>1, <4>1 DEF SetRefreshToken, ServiceTypeOK, OauthSession
      <4> QED
        BY <4>1, <4>2, <4>3, ObjectAssumption DEF HeapKeeps, Live
    <3>2. CASE UNCHANGED heap
      BY <3>2 DEF HeapKeeps, Live
    <3> QED
      BY <1>3, <3>1, <3>2 DEF Serve, Consume, CreateIdToken, CreateAccessToken,
         CreateRefreshToken, StoreSession, Respond
  <2> QED
    BY <2>1, <2>2, <2>3, <1>0 DEF Grows, MovesOn
<1>4. CASE Tick \/ UNCHANGED tokenVars
  BY <1>4, <1>0 DEF Tick, tokenVars, Grows, HeapKeeps, MovesOn, Live
<1>5. CASE Crash
  BY <1>5, <1>0, SessionServiceAssumption
     DEF Crash, ServiceRestart, Grows, HeapKeeps, MovesOn, Live
<1> QED
  BY <1>1, <1>2, <1>3, <1>4, <1>5 DEF TokenNext

\* Who awaits now has awaited before.
LEMMA AwaitedBefore ==
  ASSUME TokenInv, Grows, NEW client, Awaits(client)'
  PROVE  Awaits(client)
BY KeptToItself DEF Awaits, TokenInv

\* A request changes when it is posted, when it is served, and in a crash.
LEMMA RequestMoves ==
  ASSUME TokenInv, [TokenNext]_tokenVars, NEW r \in Requests
  PROVE  req'[r] = req[r] \/ Post(r) \/ Serve(r) \/ Crash
<1> USE DEF TokenInv, TokenTypeOK
<1>1. ASSUME NEW q \in Requests \ {r}, Post(q) PROVE req'[r] = req[r]
  BY <1>1 DEF Post, PostCode, Exchange, Refresh, Refuse
<1>2. ASSUME NEW q \in Requests \ {r}, Serve(q) PROVE req'[r] = req[r]
  BY <1>2 DEF Serve, Consume, CreateIdToken, CreateAccessToken, CreateRefreshToken,
              SetRefreshToken, StoreSession, Respond
<1>3. ASSUME NEW s, NEW l, NEW b, NEW v, Login(s, l, b, v) PROVE req'[r] = req[r]
  BY <1>3 DEF Login
<1>4. CASE Tick \/ UNCHANGED tokenVars
  BY <1>4 DEF Tick, tokenVars
<1> QED
  BY <1>1, <1>2, <1>3, <1>4 DEF TokenNext

\* The token of an object changes when a request for it sets a new one.
LEMMA ObjectMoves ==
  ASSUME TokenInv, [TokenNext]_tokenVars, NEW s \in Sessions, heap[s] # NULL, Live(s)'
  PROVE  \/ heap'[s] = heap[s]
         \/ \E r \in Requests : SetRefreshToken(r) /\ req[r].session = s
<1> USE DEF TokenInv, TokenTypeOK, ServiceTypeOK
<1>1. ASSUME NEW r \in Requests, Post(r) PROVE heap'[s] = heap[s]
  BY <1>1 DEF Post, PostCode, Exchange, Refresh, Refuse
<1>2. ASSUME NEW r \in Requests, Serve(r), ~SetRefreshToken(r) PROVE heap'[s] = heap[s]
  BY <1>2 DEF Serve, Consume, CreateIdToken, CreateAccessToken, CreateRefreshToken,
     StoreSession, Respond
<1>3. ASSUME NEW r \in Requests, SetRefreshToken(r), req[r].session # s
      PROVE  heap'[s] = heap[s]
  BY <1>3 DEF SetRefreshToken
<1>4. ASSUME NEW x, NEW l, NEW b, NEW v, Login(x, l, b, v) PROVE heap'[s] = heap[s]
  BY <1>4 DEF Login
<1>5. CASE Tick \/ UNCHANGED tokenVars
  BY <1>5 DEF Tick, tokenVars
<1>6. CASE Crash
  BY <1>6 DEF Crash, ServiceRestart, Live
<1> QED
  BY <1>1, <1>2, <1>3, <1>4, <1>5, <1>6 DEF TokenNext

\* What STORE_REFRESH_TOKEN has for a JWT changes in three ways.
LEMMA MapMoves ==
  ASSUME TokenInv, [TokenNext]_tokenVars, NEW token \in Jwts
  PROVE  \/ storeRefresh'[token] = storeRefresh[token]
         \/ \E q \in Requests : Consume(q) /\ req[q].presented = token
         \/ \E q \in Requests :
              /\ StoreSession(q) /\ heap[req[q].session].refreshToken = token
              /\ storeRefresh'[token] = req[q].session
         \/ Crash
<1> USE TokenAssumption DEF TokenInv, TokenTypeOK, ServiceTypeOK, storeVars
<1>1. ASSUME NEW r \in Requests, Post(r) PROVE storeRefresh'[token] = storeRefresh[token]
  BY <1>1 DEF Post, PostCode, Exchange, Refresh, Refuse
<1>2. ASSUME NEW r \in Requests, Consume(r), req[r].presented # token
      PROVE  storeRefresh'[token] = storeRefresh[token]
  BY <1>2 DEF Consume, ConsumeRefreshToken
<1>3. ASSUME NEW r \in Requests, StoreSession(r)
      PROVE  \/ storeRefresh'[token] = storeRefresh[token]
             \/ /\ heap[req[r].session].refreshToken = token
                /\ storeRefresh'[token] = req[r].session
  BY <1>3 DEF StoreSession, Store
<1>4. ASSUME NEW r \in Requests,
             \/ CreateIdToken(r) \/ CreateAccessToken(r) \/ CreateRefreshToken(r)
             \/ SetRefreshToken(r) \/ Respond(r)
      PROVE  storeRefresh'[token] = storeRefresh[token]
  BY <1>4 DEF CreateIdToken, CreateAccessToken, CreateRefreshToken, SetRefreshToken,
     Respond
<1>5. ASSUME NEW s \in Sessions, NEW l, NEW b, NEW v, Login(s, l, b, v)
      PROVE  storeRefresh'[token] = storeRefresh[token]
  <2>1. RandomToken[s] # token
    OBVIOUS
  <2> QED
    BY <1>5, <2>1 DEF Login, Store
<1>6. CASE Tick \/ UNCHANGED tokenVars
  BY <1>6 DEF Tick, tokenVars
<1> QED
  BY <1>1, <1>2, <1>3, <1>4, <1>5, <1>6 DEF TokenNext, Serve

-----------------------------------------------------------------------------
\* All requests for a session of a client that awaits are its own.
LEMMA SameClient ==
  ASSUME TokenInv, NEW r \in Requests, NEW q \in Requests, Awaits(req[r].client),
         req[r].session # NULL, req[q].session = req[r].session, Live(req[r].session)
  PROVE  req[q].client = req[r].client
BY DEF Awaits, TokenInv, Own

LEMMA WorkingClient ==
  ASSUME TokenInv, NEW r \in Requests, InProgress(r)
  PROVE  req[r].client \in Clients
BY DEF InProgress, Pending, TokenInv, TokenTypeOK, RequestInv, Request, Working, Storing

\* Where a POST takes a request, and who may send it.
LEMMA Posted ==
  ASSUME TokenInv, NEW r \in Requests, Post(r)
  PROVE  /\ req'[r].at = "refused" =>
              Refuse(r) /\ req'[r].presented = NULL /\ req'[r].refreshToken = NULL
         /\ req'[r].at # "refused" =>
              /\ req'[r].at \in {"id", "consume"} /\ req'[r].refreshToken = NULL
              /\ Sends(req'[r].client)
         /\ req'[r].presented = NULL \/ req'[r].session = NULL
         /\ \A q \in Requests \ {r} : req'[q] = req[q]
<1> USE DEF TokenInv, TokenTypeOK
<1>1. CASE Refuse(r)
  <2>1. req[r] = NewRequest /\ req' = [req EXCEPT ![r].at = "refused"]
    BY <1>1 DEF Refuse, RequestInv
  <2>2. req'[r] = [NewRequest EXCEPT !.at = "refused"]
    BY <2>1
  <2> QED
    BY <1>1, <2>1, <2>2 DEF NewRequest
<1>2. ASSUME NEW s, NEW client, NEW uri, NEW grant, NEW url,
             Exchange(r, s, client, uri, grant, url)
      PROVE  /\ req'[r].at = "id" /\ req'[r].refreshToken = NULL
             /\ Sends(req'[r].client) /\ req'[r].presented = NULL
             /\ \A q \in Requests \ {r} : req'[q] = req[q]
  BY <1>2 DEF Exchange, NewRequest
<1>3. ASSUME NEW s, NEW client, NEW token, Refresh(r, s, client, token)
      PROVE  /\ req'[r].at = "consume" /\ req'[r].refreshToken = NULL
             /\ Sends(req'[r].client) /\ req'[r].session = NULL
             /\ \A q \in Requests \ {r} : req'[q] = req[q]
  BY <1>3 DEF Refresh, NewRequest
<1> QED
  BY <1>1, <1>2, <1>3 DEF Post, PostCode

\* Which operation takes a request into, or out of, the states that matter.
LEMMA Served ==
  ASSUME TokenInv, NEW r \in Requests, Serve(r)
  PROVE  /\ InProgress(r)
         /\ req'[r].at = "set" => CreateRefreshToken(r)
         /\ req'[r].at = "store" => SetRefreshToken(r)
         /\ req[r].at = "set" => SetRefreshToken(r)
         /\ req[r].at = "store" => StoreSession(r)
         /\ req'[r].at = "refused" => Consume(r)
         /\ req'[r].at # "set" => req'[r].refreshToken = req[r].refreshToken
         /\ \A q \in Requests \ {r} : req'[q] = req[q]
<1> USE DEF TokenInv, TokenTypeOK, Request, InProgress, Pending, Creating, Storing
<1>1. CASE Consume(r)
  <2>1. PICK s :
          \/ req' = [req EXCEPT ![r].at = "refused", ![r].session = s]
          \/ req' = [req EXCEPT ![r].at = "failed", ![r].session = s]
          \/ req' = [req EXCEPT ![r].at = "id", ![r].session = s,
                                ![r].audience = Audience(req[r].presented)]
    BY <1>1 DEF Consume
  <2>2. req'[r].at \in {"refused", "failed", "id"} /\ \A q \in Requests \ {r} : req'[q] = req[q]
    BY <2>1
  <2>3. req[r].at = "consume" /\ req'[r].refreshToken = req[r].refreshToken
    BY <1>1, <2>1 DEF Consume
  <2> QED
    BY <1>1, <2>2, <2>3
<1>2. CASE CreateIdToken(r) \/ CreateAccessToken(r)
  BY <1>2 DEF CreateIdToken, CreateAccessToken
<1>3. CASE CreateRefreshToken(r) \/ SetRefreshToken(r)
  BY <1>3 DEF CreateRefreshToken, SetRefreshToken
<1>4. CASE StoreSession(r) \/ Respond(r)
  BY <1>4 DEF StoreSession, Respond
<1> QED
  BY <1>1, <1>2, <1>3, <1>4 DEF Serve

LEMMA OneAtATimeStep ==
  ASSUME TokenInv, OneAtATime, [TokenNext]_tokenVars
  PROVE  OneAtATime'
<1> USE DEF TokenInv, TokenTypeOK
<1>1. ASSUME NEW r \in Requests, InProgress(r)'
      PROVE  \/ InProgress(r) /\ req'[r].client = req[r].client
             \/ /\ Sends(req'[r].client)
                /\ \A q \in Requests \ {r} : req'[q] = req[q]
  <2>1. CASE req'[r] = req[r]
    BY <1>1, <2>1 DEF InProgress
  <2>2. CASE Post(r)
    BY <1>1, <2>2, Posted DEF InProgress, Pending, Creating, Storing
  <2>3. CASE Serve(r)
    <3>1. InProgress(r)
      BY <2>3, Served
    <3>2. req[r].client # NULL
      BY <3>1, WorkingClient, TokenAssumption
    <3> QED
      BY <3>1, <3>2, AnyStep DEF Grows
  <2>4. CASE Crash
    BY <1>1, <2>4 DEF Crash, InProgress, Pending, Creating, Storing
  <2> QED
    BY <2>1, <2>2, <2>3, <2>4, RequestMoves
<1>2. ASSUME NEW r \in Requests, NEW q \in Requests, r # q, InProgress(r)', InProgress(q)',
             req'[r].client = req'[q].client, ~InProgress(r) \/ req'[r].client # req[r].client
      PROVE  req'[r].client \in Overlapping
  <2>1. Sends(req'[r].client) /\ req'[q] = req[q]
    BY <1>1, <1>2
  <2> QED
    BY <1>2, <2>1 DEF Sends, InProgress
<1> SUFFICES ASSUME NEW r \in Requests, NEW q \in Requests, r # q,
                    InProgress(r)', InProgress(q)', req'[r].client = req'[q].client
             PROVE  req'[r].client \in Overlapping
  BY DEF OneAtATime
<1> QED
  BY <1>2 DEF OneAtATime

LEMMA LearntStep ==
  ASSUME AwaitInv, TokenInv', [TokenNext]_tokenVars, NEW r \in Requests
  PROVE  Learnt(r)'
<1> USE DEF AwaitInv
<1> SUFFICES ASSUME req'[r].at = "store", Awaits(req[r].client)'
             PROVE  heap'[req'[r].session].refreshToken = req'[r].refreshToken
  BY DEF Learnt
<1>1. PICK client : client = req'[r].client
  OBVIOUS
<1>2. Awaits(client)' /\ Awaits(client)
  <2>1. Awaits(client)'
    BY <1>1 DEF Awaits, KeepsToItself, Issues
  <2> QED
    BY <2>1, AnyStep, AwaitedBefore
<1>3. PICK s : s = req'[r].session
  OBVIOUS
<1>4. s \in Sessions /\ s # NULL /\ Live(s)'
  BY <1>3 DEF TokenInv, TokenTypeOK, RequestInv, Request, Working, Storing, Live
<1>5. CASE req'[r] = req[r]
  <2>1. req[r].at = "store" /\ req[r].session = s /\ req[r].client = client /\ Live(s)
    BY <1>1, <1>3, <1>5 DEF TokenInv, RequestInv, Working, Storing
  <2>2. heap[s].refreshToken = req[r].refreshToken
    BY <1>2, <2>1 DEF Learnt
  <2>3. CASE heap'[s] = heap[s]
    BY <1>3, <1>5, <2>2, <2>3
  <2>4. ASSUME NEW q \in Requests, SetRefreshToken(q), req[q].session = s PROVE FALSE
    <3>1. q # r /\ InProgress(q) /\ InProgress(r)
      BY <2>1, <2>4 DEF SetRefreshToken, InProgress, Pending, Creating, Storing
    <3>2. req[q].client = client
      BY <1>2, <1>4, <2>1, <2>4, SameClient
    <3> QED
      BY <1>2, <2>1, <3>1, <3>2 DEF OneAtATime, Awaits
  <2>5. heap[s] # NULL
    BY <2>1 DEF Live
  <2> QED
    BY <1>4, <2>3, <2>4, <2>5, ObjectMoves
<1>6. CASE Post(r)
  BY <1>6, Posted
<1>7. CASE Serve(r)
  <2>1. SetRefreshToken(r)
    BY <1>7, Served
  <2>2. /\ req'[r].refreshToken = req[r].refreshToken /\ req[r].session = s
        /\ heap' = [heap EXCEPT ![s].refreshToken = req[r].refreshToken]
    BY <1>3, <2>1 DEF SetRefreshToken, TokenInv, TokenTypeOK, Request
  <2>3. heap[s] \in OauthSession
    <3>1. Live(s)
      BY <2>1, <2>2 DEF SetRefreshToken, TokenInv, RequestInv, Working, Storing
    <3>2. heap \in [Sessions -> OauthSession \cup {NULL, Gone}]
      BY DEF TokenInv, TokenTypeOK, ServiceTypeOK
    <3> QED
      BY <1>4, <3>1, <3>2 DEF Live
  <2>4. heap'[s].refreshToken = req[r].refreshToken
    BY <1>4, <2>2, <2>3 DEF TokenInv, TokenTypeOK, ServiceTypeOK, OauthSession
  <2> QED
    BY <1>3, <2>2, <2>4
<1>8. CASE Crash
  BY <1>8 DEF Crash, InProgress, Pending, Storing, TokenInv, TokenTypeOK, Request
<1> QED
  BY <1>5, <1>6, <1>7, <1>8, RequestMoves

-----------------------------------------------------------------------------
(***************************************************************************)
(* A client's token stays in the map until it is consumed, when no get     *)
(* misses an entry that is there.                                          *)
(***************************************************************************)
Kept(r) ==
  (/\ req[r].refreshToken # NULL /\ req[r].at \notin Storing
   /\ Live(req[r].session) /\ Awaits(req[r].client)) => Stored(r)

LEMMA KeepsConsumed ==
  ASSUME Grows, MovesOn, NEW q \in Requests, NEW token, token # NULL, Consumes(q, token)
  PROVE  Consumes(q, token)'
BY DEF Grows, MovesOn, Consumes

\* Without races a refresh finds whatever session the map has.
LEMMA ConsumesStored ==
  ASSUME TokenInv, ~StoreRaces, NEW q \in Requests, Consume(q)
  PROVE  /\ req'[q].session = storeRefresh[req[q].presented]
         /\ req'[q].presented = req[q].presented
         /\ req[q].presented \in Jwts /\ req[q].session = NULL
<1>1. PICK s \in Sessions \cup {NULL} :
        /\ s \in Gets(storeRefresh, req[q].presented)
        /\ \/ req' = [req EXCEPT ![q].at = "refused", ![q].session = s]
           \/ req' = [req EXCEPT ![q].at = "failed", ![q].session = s]
           \/ req' = [req EXCEPT ![q].at = "id", ![q].session = s,
                                 ![q].audience = Audience(req[q].presented)]
  BY DEF Consume, ConsumeRefreshToken
<1>2. s = storeRefresh[req[q].presented]
  BY <1>1 DEF Gets
<1>3. req[q].presented \in Jwts /\ req[q].session = NULL
  BY DEF Consume, TokenInv, RequestInv, Issues
<1> QED
  BY <1>1, <1>2, <1>3 DEF TokenInv, TokenTypeOK, Request

LEMMA KeptStep ==
  ASSUME AwaitInv, TokenInv', ~StoreRaces, [TokenNext]_tokenVars,
         NEW r \in Requests, Kept(r)
  PROVE  Kept(r)'
<1> USE DEF AwaitInv
<1> SUFFICES ASSUME req'[r].refreshToken # NULL, req'[r].at \notin Storing,
                    Live(req[r].session)', Awaits(req[r].client)'
             PROVE  Stored(r)'
  BY DEF Kept
<1>1. PICK token, s, client :
        token = req'[r].refreshToken /\ s = req'[r].session /\ client = req'[r].client
  OBVIOUS
<1>2. token \in Jwts /\ token # NULL /\ s \in Sessions /\ s # NULL /\ Live(s)'
  BY <1>1, TokenAssumption DEF TokenInv, TokenTypeOK, RequestInv, Request, Live
<1>3. Grows /\ HeapKeeps /\ MovesOn
  BY AnyStep
<1>4. Awaits(client)
  <2>1. Awaits(client)'
    BY <1>1 DEF Awaits, KeepsToItself, Issues
  <2> QED
    BY <1>3, <2>1, AwaitedBefore
<1> SUFFICES \/ storeRefresh'[token] = s
             \/ \E q \in Requests : Consumes(q, token)'
             \/ Shared(token)'
  BY <1>1 DEF Stored, Consumes, Shared, Issues
<1>5. CASE StoreSession(r)
  <2>1. req[r].session = s /\ req[r].refreshToken = token /\ req[r].client = client
    BY <1>1, <1>5 DEF StoreSession, TokenInv, TokenTypeOK, Request
  <2>2. heap[s].refreshToken = token
    BY <1>4, <1>5, <2>1 DEF Learnt, StoreSession
  <2>3. storeRefresh'[token] = s
    BY <1>2, <1>5, <2>1, <2>2, TokenAssumption
       DEF StoreSession, Store, TokenInv, TokenTypeOK, ServiceTypeOK
  <2> QED
    BY <2>3
<1>6. ASSUME ~StoreSession(r)
      PROVE  /\ req[r].refreshToken = token /\ req[r].at \notin Storing
             /\ req[r].session = s /\ req[r].client = client
  <2>1. ~Crash
    BY <1>2 DEF Crash, ServiceRestart, Live
  <2>2. req[r].refreshToken = token /\ req[r].at \notin Storing
    <3>1. ~SetRefreshToken(r)
      BY DEF SetRefreshToken, Storing, TokenInv, TokenTypeOK, Request
    <3>2. req[r].at = "set" /\ Serve(r) => SetRefreshToken(r)
      BY Served
    <3> QED
      BY <1>1, <1>2, <1>6, <2>1, <3>1, <3>2, RequestMoves, Posted, Served DEF Storing
  <2> QED
    BY <1>1, <1>2, <1>3, <2>2 DEF Grows, MovesOn, TokenInv, RequestInv
<1>7. CASE ~StoreSession(r)
  <2>1. Live(s)
    BY <1>2, <1>3, <1>6, <1>7 DEF HeapKeeps, Live, TokenInv, RequestInv
  <2>2. Stored(r)
    BY <1>2, <1>4, <1>6, <1>7, <2>1 DEF Kept
  <2>3. CASE \E q \in Requests : Consumes(q, token)
    BY <1>2, <1>3, <2>3, KeepsConsumed
  <2>4. CASE Shared(token)
    BY <1>2, <1>3, <2>4, KeepsShared
  <2>5. CASE storeRefresh[token] = s
    <3>1. ASSUME NEW q \in Requests, Consume(q), req[q].presented = token
          PROVE  Consumes(q, token)'
      BY <1>2, <2>5, <3>1, ConsumesStored DEF Consumes
    <3>2. ASSUME NEW q \in Requests, StoreSession(q),
                 heap[req[q].session].refreshToken = token, req[q].session # s
          PROVE  Shared(token)
      <4>1. PICK x \in Sessions : x = req[q].session /\ Live(x)
        BY <3>2 DEF StoreSession, Working, Storing, TokenInv, TokenTypeOK, RequestInv, Request
      <4>2. PICK p \in Requests : Issues(p, token) /\ req[p].session = x
        BY <1>2, <3>2, <4>1 DEF TokenInv, RefreshInv, IssuedFor
      <4> QED
        BY <1>6, <1>7, <3>2, <4>1, <4>2 DEF Shared, Issues
    <3>3. CASE Crash
      BY <1>2, <3>3 DEF Crash, ServiceRestart, Live
    <3>4. CASE Shared(token)
      BY <1>2, <1>3, <3>4, KeepsShared
    <3> QED
      BY <1>2, <2>5, <3>1, <3>2, <3>3, <3>4, MapMoves
  <2> QED
    BY <1>6, <1>7, <2>2, <2>3, <2>4, <2>5 DEF Stored
<1> QED
  BY <1>5, <1>7

-----------------------------------------------------------------------------
(***************************************************************************)
(* A token that only awaiting clients were issued has been consumed, or is *)
(* in the map, at most as often as store() has put it there.               *)
(***************************************************************************)
Consumers(token) == {r \in Requests : Consumes(r, token)}
Delivered(token) == {r \in Requests : Issues(r, token) /\ req[r].at \notin Storing}

Available(token) == IF storeRefresh[token] = NULL THEN 0 ELSE 1

Balanced(token) ==
  (\A r \in Requests : Issues(r, token) => Awaits(req[r].client)) =>
    Cardinality(Consumers(token)) + Available(token) <= Cardinality(Delivered(token))

\* Only the request that consumes a token becomes one that has done so.
LEMMA NewConsumer ==
  ASSUME TokenInv, [TokenNext]_tokenVars, NEW token \in Jwts, NEW r \in Requests,
         Consumes(r, token)', ~Consumes(r, token)
  PROVE  /\ Consume(r) /\ req[r].presented = token
         /\ storeRefresh[token] # NULL /\ storeRefresh'[token] = NULL
<1> USE TokenAssumption DEF Consumes
<1>1. Consume(r)
  <2>1. ~Crash
    BY DEF Crash, TokenInv, TokenTypeOK, Request
  <2>2. ~Post(r)
    BY Posted
  <2>3. Serve(r)
    BY <2>1, <2>2, RequestMoves
  <2>4. ASSUME \/ CreateIdToken(r) \/ CreateAccessToken(r) \/ CreateRefreshToken(r)
               \/ SetRefreshToken(r) \/ StoreSession(r) \/ Respond(r)
        PROVE  req'[r].presented = req[r].presented /\ req'[r].session = req[r].session
    BY <2>4 DEF CreateIdToken, CreateAccessToken, CreateRefreshToken, SetRefreshToken,
       StoreSession, Respond, TokenInv, TokenTypeOK, Request
  <2> QED
    BY <2>3, <2>4 DEF Serve
<1>2. PICK s \in Sessions \cup {NULL} :
        /\ ConsumeRefreshToken(req[r].presented, s)
        /\ \/ req' = [req EXCEPT ![r].at = "refused", ![r].session = s]
           \/ req' = [req EXCEPT ![r].at = "failed", ![r].session = s]
           \/ req' = [req EXCEPT ![r].at = "id", ![r].session = s,
                                 ![r].audience = Audience(req[r].presented)]
  BY <1>1 DEF Consume
<1>3. req'[r].presented = req[r].presented /\ req'[r].session = s
  BY <1>2 DEF TokenInv, TokenTypeOK, Request
<1> QED
  BY <1>1, <1>2, <1>3
     DEF ConsumeRefreshToken, Gets, TokenInv, TokenTypeOK, ServiceTypeOK

LEMMA BalancedStep ==
  ASSUME AwaitInv, TokenInv', IsFiniteSet(Requests), [TokenNext]_tokenVars,
         NEW token \in Jwts, Balanced(token)
  PROVE  Balanced(token)'
<1> USE DEF AwaitInv
<1> SUFFICES ASSUME \A r \in Requests : Issues(r, token)' => Awaits(req[r].client)'
             PROVE  Cardinality(Consumers(token)') + Available(token)'
                      <= Cardinality(Delivered(token)')
  BY DEF Balanced
<1>1. Grows /\ HeapKeeps /\ MovesOn /\ token # NULL /\ token \in RefreshTokens
  BY AnyStep, TokenAssumption
<1>2. ASSUME NEW r \in Requests, Issues(r, token)
      PROVE  Issues(r, token)' /\ Awaits(req[r].client)
  <2>1. PICK client : client = req[r].client
    OBVIOUS
  <2>2. Issues(r, token)' /\ req'[r].client = client
    BY <1>1, <1>2, <2>1 DEF Grows, Issues, TokenInv, RequestInv
  <2>3. Awaits(client)'
    BY <2>2 DEF Awaits, KeepsToItself, Issues
  <2>4. Awaits(client)
    BY <1>1, <2>3, AwaitedBefore
  <2> QED
    BY <2>1, <2>2, <2>4
<1>3. Cardinality(Consumers(token)) + Available(token) <= Cardinality(Delivered(token))
  BY <1>2 DEF Balanced
<1>4. /\ IsFiniteSet(Consumers(token)) /\ IsFiniteSet(Consumers(token)')
      /\ IsFiniteSet(Delivered(token)) /\ IsFiniteSet(Delivered(token)')
  BY FS_Subset DEF Consumers, Delivered
<1>5. /\ Cardinality(Consumers(token)) \in Nat /\ Cardinality(Consumers(token)') \in Nat
      /\ Cardinality(Delivered(token)) \in Nat /\ Cardinality(Delivered(token)') \in Nat
  BY <1>4, FS_CardinalityType
<1>6. Delivered(token) \subseteq Delivered(token)'
  <2>1. ASSUME NEW r \in Requests, Issues(r, token), req[r].at \notin Storing
        PROVE  req'[r].at \notin Storing
    <3>1. ~CreateRefreshToken(r) /\ ~SetRefreshToken(r)
      BY <1>1, <2>1 DEF CreateRefreshToken, SetRefreshToken, Issues, TokenInv, RequestInv,
         Creating, Storing
    <3>2. ~Crash \/ req'[r].at \notin Storing
      BY <2>1 DEF Crash, Storing, TokenInv, TokenTypeOK, Request
    <3>3. Serve(r) => req'[r].at \notin Storing
      BY <3>1, Served DEF Storing
    <3>4. Post(r) => req'[r].at \notin Storing
      BY Posted DEF Storing
    <3> QED
      BY <2>1, <3>2, <3>3, <3>4, RequestMoves
  <2> QED
    BY <1>2, <2>1 DEF Delivered
<1>7. Cardinality(Delivered(token)) <= Cardinality(Delivered(token)')
  BY <1>4, <1>6, FS_Subset
<1>8. Consumers(token) \subseteq Consumers(token)'
  BY <1>1, KeepsConsumed DEF Consumers
<1>9. Available(token) \in {0, 1} /\ Available(token)' \in {0, 1}
  BY DEF Available
<1>10. ASSUME NEW r \in Consumers(token)', r \notin Consumers(token)
       PROVE  Cardinality(Consumers(token)') + Available(token)'
                <= Cardinality(Delivered(token)')
  <2>1. /\ r \in Requests /\ Consume(r) /\ Available(token) = 1 /\ Available(token)' = 0
    BY <1>10, NewConsumer DEF Consumers, Available
  <2>2. ASSUME NEW q \in Consumers(token)', q # r PROVE q \in Consumers(token)
    BY <2>1, <2>2, Served DEF Consumers, Consumes, Serve
  <2>3. Consumers(token)' = Consumers(token) \cup {r}
    BY <1>8, <1>10, <2>2
  <2>4. Cardinality(Consumers(token)') = Cardinality(Consumers(token)) + 1
    BY <1>4, <1>10, <2>3, FS_AddElement
  <2> QED
    BY <1>3, <1>5, <1>7, <2>1, <2>4
<1>11. CASE Consumers(token)' = Consumers(token)
  <2>1. CASE Available(token)' <= Available(token)
    BY <1>3, <1>5, <1>7, <1>9, <1>11, <2>1
  <2>2. CASE Available(token) = 0 /\ Available(token)' = 1
    <3>1. storeRefresh[token] = NULL /\ storeRefresh'[token] # NULL
      BY <2>2 DEF Available
    <3>2. ~Crash
      BY <1>1, <3>1 DEF Crash, ServiceRestart, Unstored
    <3>3. ASSUME NEW q \in Requests, Consume(q), req[q].presented = token PROVE FALSE
      BY <1>1, <3>1, <3>3
         DEF Consume, ConsumeRefreshToken, TokenInv, TokenTypeOK, ServiceTypeOK
    <3>4. PICK p \in Requests :
            StoreSession(p) /\ heap[req[p].session].refreshToken = token
      BY <3>1, <3>2, <3>3, MapMoves
    <3>5. PICK s \in Sessions : s = req[p].session /\ s # NULL /\ Live(s)
      BY <3>4 DEF StoreSession, TokenInv, TokenTypeOK, RequestInv, Request, Working, Storing
    <3>6. PICK q \in Requests : Issues(q, token) /\ req[q].session = s
      BY <3>4, <3>5 DEF TokenInv, RefreshInv, IssuedFor
    <3>7. Awaits(req[p].client)
      <4>1. Awaits(req[q].client) /\ req[p].client = req[q].client
        BY <1>2, <3>5, <3>6, SameClient
      <4>2. PICK client : client = req[q].client
        OBVIOUS
      <4> QED
        BY <4>1, <4>2 DEF Awaits, KeepsToItself
    <3>8. Issues(p, token) /\ req[p].at = "store"
      BY <3>4, <3>7 DEF Learnt, Issues, StoreSession
    <3>9. p \notin Delivered(token) /\ p \in Delivered(token)'
      BY <1>2, <3>4, <3>8 DEF Delivered, Storing, StoreSession, TokenInv, TokenTypeOK, Request
    <3>10. Cardinality(Delivered(token) \cup {p}) = Cardinality(Delivered(token)) + 1
      BY <1>4, <3>9, FS_AddElement
    <3>11. Cardinality(Delivered(token) \cup {p}) <= Cardinality(Delivered(token)')
      BY <1>4, <1>6, <3>9, FS_Subset
    <3> QED
      BY <1>3, <1>5, <1>11, <2>2, <3>10, <3>11
  <2> QED
    BY <1>9, <2>1, <2>2
<1> QED
  BY <1>8, <1>10, <1>11

-----------------------------------------------------------------------------
(***************************************************************************)
(* The theorems about clients that await their answers.                    *)
(***************************************************************************)
LEMMA AwaitInitially ==
  ASSUME TokenInit
  PROVE  /\ AwaitInv
         /\ \A r \in Requests : req[r].refreshToken = NULL /\ req[r].presented = NULL
         /\ \A token \in Jwts : storeRefresh[token] = NULL
<1>1. \A r \in Requests : req[r] = NewRequest
  BY DEF TokenInit
<1>2. \A r \in Requests : ~InProgress(r) /\ req[r].at # "store"
  BY <1>1 DEF NewRequest, InProgress, Pending, Creating, Storing
<1>3. AwaitInv
  BY <1>2, TokenInitially DEF AwaitInv, OneAtATime, Learnt
<1> QED
  BY <1>1, <1>3, TokenAssumption DEF NewRequest, TokenInit, ServiceInit, Unstored

LEMMA AwaitStep ==
  ASSUME AwaitInv, [TokenNext]_tokenVars
  PROVE  AwaitInv'
<1>1. TokenInv'
  BY TokenStep DEF AwaitInv
<1> QED
  BY <1>1, OneAtATimeStep, LearntStep DEF AwaitInv

(***************************************************************************)
(* Whatever overlaps and races: the requests of a client that awaits are   *)
(* one at a time, and between getOidcToken's setRefreshToken and store()'s *)
(* getRefreshToken its session keeps the token the request was issued.     *)
(***************************************************************************)
THEOREM AwaitInvariance == TokenSpec => []AwaitInv
<1>1. TokenInit => AwaitInv
  BY AwaitInitially
<1>2. AwaitInv /\ [TokenNext]_tokenVars => AwaitInv'
  BY AwaitStep
<1> QED
  BY <1>1, <1>2, PTL DEF TokenSpec

(***************************************************************************)
(* When no get misses an entry that is there, the refresh token of an      *)
(* answer that a client awaited stays in STORE_REFRESH_TOKEN, for its own  *)
(* session, until tokenRefresh consumes it.                                *)
(***************************************************************************)
THEOREM AwaitedStored ==
  ASSUME ~StoreRaces
  PROVE  TokenSpec => []AwaitedRefreshStored
<1> DEFINE Inv == AwaitInv /\ \A r \in Requests : Kept(r)
<1>1. TokenInit => Inv
  BY AwaitInitially DEF Kept
<1>2. Inv /\ [TokenNext]_tokenVars => Inv'
  <2> SUFFICES ASSUME Inv, [TokenNext]_tokenVars PROVE Inv'
    OBVIOUS
  <2>1. AwaitInv'
    BY AwaitStep
  <2>2. TokenInv'
    BY <2>1 DEF AwaitInv
  <2> QED
    BY <2>1, <2>2, KeptStep
<1>3. Inv => AwaitedRefreshStored
  BY DEF AwaitedRefreshStored, HandedOut, Answered, Kept, Storing
<1> QED
  BY <1>1, <1>2, <1>3, PTL DEF TokenSpec

(***************************************************************************)
(* However many requests there are, and with races: a refresh token that   *)
(* was issued to awaiting clients only is taken out of STORE_REFRESH_TOKEN *)
(* at most once for each time store() has put it there.                    *)
(***************************************************************************)
THEOREM ConsumedOnce ==
  ASSUME IsFiniteSet(Requests)
  PROVE  TokenSpec => []RefreshConsumedOnce
<1> DEFINE Inv == AwaitInv /\ \A token \in Jwts : Balanced(token)
<1>1. TokenInit => Inv
  <2> SUFFICES ASSUME TokenInit, NEW token \in Jwts PROVE Balanced(token)
    BY AwaitInitially
  <2>1. Consumers(token) = {} /\ Delivered(token) = {} /\ Available(token) = 0
    BY AwaitInitially, TokenAssumption
       DEF Consumers, Delivered, Available, Consumes, Issues
  <2> QED
    BY <2>1, FS_EmptySet DEF Balanced
<1>2. Inv /\ [TokenNext]_tokenVars => Inv'
  <2> SUFFICES ASSUME Inv, [TokenNext]_tokenVars PROVE Inv'
    OBVIOUS
  <2>1. AwaitInv'
    BY AwaitStep
  <2>2. TokenInv'
    BY <2>1 DEF AwaitInv
  <2> QED
    BY <2>1, <2>2, BalancedStep
<1>3. Inv => RefreshConsumedOnce
  <2> SUFFICES ASSUME Inv, NEW token \in Jwts,
                      \A r \in Requests : Issues(r, token) => Awaits(req[r].client)
               PROVE  Cardinality({r \in Requests : Consumes(r, token)})
                        <= Cardinality({r \in Requests : Issues(r, token)})
    BY DEF RefreshConsumedOnce
  <2> DEFINE issuers == {r \in Requests : Issues(r, token)}
  <2>1. Cardinality(Consumers(token)) + Available(token) <= Cardinality(Delivered(token))
    BY DEF Balanced
  <2>2. IsFiniteSet(issuers) /\ IsFiniteSet(Consumers(token))
    BY FS_Subset DEF Consumers
  <2>3. Cardinality(Delivered(token)) <= Cardinality(issuers) /\ IsFiniteSet(Delivered(token))
    BY <2>2, FS_Subset DEF Delivered
  <2>4. /\ Cardinality(Consumers(token)) \in Nat /\ Cardinality(Delivered(token)) \in Nat
        /\ Cardinality(issuers) \in Nat /\ Available(token) \in {0, 1}
    BY <2>2, <2>3, FS_CardinalityType DEF Available
  <2> HIDE DEF issuers
  <2>5. Cardinality(Consumers(token)) <= Cardinality(issuers)
    BY <2>1, <2>3, <2>4
  <2> QED
    BY <2>5 DEF Consumers, issuers
<1> QED
  BY <1>1, <1>2, <1>3, PTL DEF TokenSpec
=============================================================================
