--------------------------- MODULE TokenEndpoint ---------------------------
(***************************************************************************)
(* POST /oauth2/token (Oauth2Controller.token and what it calls): a client *)
(* exchanges an authorization code, or redeems a refresh token.            *)
(*                                                                         *)
(* Every request has a thread of its own; a request is one action per      *)
(* access to an OauthSession or to a map, because another thread can run   *)
(* between any two of them.  What the login flow leaves behind (an opened  *)
(* and identified OauthSession) is the action Login.                       *)
(***************************************************************************)
EXTENDS OauthSessionService, Naturals

CONSTANTS
  Requests,       \* POSTs that may be made (bound)
  Clients, RedirectUris,
  BaseUrls,       \* scheme and host by which clients address the server
  Instants,       \* seconds at which something may happen (bound)
  Overlapping,    \* clients whose requests may overlap (a retry, say)
  ParserOutcomes, \* what parsing a refresh token may do, see Consume
  Restarts, LosesResponses

\* Seconds.  AuthenticationService counts milliseconds, a JWT seconds.
REFRESH_TOKEN_EXPIRY == 60 * 60 * 2

\* A refresh token has no claim of its own: subject, audience, issue time.
Jwt(subject, audience, issuedAt) == <<"jwt", subject, audience, issuedAt>>
Jwts == {Jwt(v, a, i) : v \in Subjects \cup {NULL}, a \in BaseUrls, i \in Instants}
Audience(token) == token[3]
IssuedAt(token) == token[4]

ASSUME TokenAssumption ==
  /\ 0 \in Instants /\ Instants \subseteq Nat
  /\ Jwts \subseteq RefreshTokens /\ NULL \notin Jwts
  /\ \A s \in Sessions : RandomToken[s] \notin Jwts
  /\ ParserOutcomes \subseteq {"claims", "exception"}
  /\ Overlapping \subseteq Clients /\ NULL \notin Clients /\ NULL \notin BaseUrls

VARIABLES
  now,   \* the clock
  req    \* the requests: under way, answered or refused

tokenVars == <<heap, storeVars, now, req>>

Creating == {"id", "access", "refresh"}
Storing  == {"set", "store"}
Pending  == Creating \cup Storing \cup {"consume", "respond"}
InProgress(r) == req[r].at \in Pending

Grants == {"authorization_code", "id_token", "refresh_token"}

Request ==
  [at: Pending \cup {"new", "answered", "lost", "refused", "failed"},
   grant: Grants \cup {NULL}, client: Clients \cup {NULL},
   presented: RefreshTokens \cup {NULL}, session: Sessions \cup {NULL},
   audience: BaseUrls \cup {NULL},
   idSubject: Subjects \cup {NULL}, accessSubject: Subjects \cup {NULL},
   refreshToken: RefreshTokens \cup {NULL}]

NewRequest ==
  [at |-> "new", grant |-> NULL, client |-> NULL,
   presented |-> NULL, session |-> NULL, audience |-> NULL,
   idSubject |-> NULL, accessSubject |-> NULL, refreshToken |-> NULL]

(***************************************************************************)
(* The refresh tokens of the responses that arrived.  Any client may send  *)
(* any of them; a text that is none of them is in no map, and is refused   *)
(* like one that is no longer there.                                       *)
(***************************************************************************)
Handed ==
  {req[r].refreshToken : r \in {q \in Requests : req[q].at = "answered"}} \ {NULL}

-----------------------------------------------------------------------------
(***************************************************************************)
(* What the login flow does to an OauthSession: authorize and stopSession. *)
(* Its client has the code once the session is identified; that no login   *)
(* changes the identification after that is LoginFlow's IdentificationFinal*)
(***************************************************************************)
Login(s, l, b, v) ==
  /\ heap[s] = NULL
  /\ heap' = [heap EXCEPT ![s] =
                [NewOauthSession(s, l, b) EXCEPT !.userIdentification = v]]
  /\ Store(s, RandomToken[s])
  /\ UNCHANGED <<now, req>>

-----------------------------------------------------------------------------
(***************************************************************************)
(* token(): find the session of the code, authenticate the client, check   *)
(* the redirect_uri, dispatch on the grant type.                           *)
(***************************************************************************)
\* Mutant: any client will do.
authorizesAnybody(client, s) == TRUE

validateAuthorization(client, s) == client = heap[s].request.clientId

Finds(r, s) ==
  req[r].at = "new" /\ Live(s) /\ s \in RetrieveByCode(Code(s))

Sends(client) ==
  client \in Overlapping \/ \A q \in Requests : InProgress(q) => req[q].client # client

Exchange(r, s, client, redirectUri, grant, baseUrl) ==
  /\ Sends(client) /\ Finds(r, s) /\ validateAuthorization(client, s)
  /\ grant \in {"authorization_code", "id_token"}
  /\ heap[s].request.redirectUri = redirectUri
  /\ req' = [req EXCEPT ![r] =
               [NewRequest EXCEPT !.at = "id", !.grant = grant, !.client = client,
                                  !.session = s, !.audience = baseUrl]]
  /\ UNCHANGED <<heap, storeVars, now>>

\* The code authenticates the client; nothing ties the refresh token to it.
Refresh(r, s, client, token) ==
  /\ Sends(client) /\ Finds(r, s) /\ validateAuthorization(client, s)
  /\ req' = [req EXCEPT ![r] =
               [NewRequest EXCEPT !.at = "consume", !.grant = "refresh_token",
                                  !.client = client, !.presented = token]]
  /\ UNCHANGED <<heap, storeVars, now>>

\* Unknown code, wrong client, other redirect_uri or grant_type, no token.
Refuse(r) ==
  /\ req[r].at = "new"
  /\ req' = [req EXCEPT ![r].at = "refused"]
  /\ UNCHANGED <<heap, storeVars, now>>

-----------------------------------------------------------------------------
(***************************************************************************)
(* tokenRefresh(): the token leaves the map before it is parsed.           *)
(*                                                                         *)
(* What the parser does with the token is up to jjwt.  The version in      *)
(* pom.xml, given a key as a text, refuses every token that is signed with *)
(* RSA, before it looks at the expiry, by an exception that nobody catches *)
(* (ParserOutcomes = {"exception"}); one that accepts the key yields the   *)
(* claims, or finds the token too old ({"claims"}).                        *)
(***************************************************************************)
Expired(token) == now > IssuedAt(token) + REFRESH_TOKEN_EXPIRY

Consume(r) ==
  LET token == req[r].presented IN
  /\ req[r].at = "consume"
  /\ \E s \in Sessions \cup {NULL} : ConsumeRefreshToken(token, s) /\
       \/ /\ s = NULL \/ ("claims" \in ParserOutcomes /\ Expired(token))
          /\ req' = [req EXCEPT ![r].at = "refused", ![r].session = s]
       \/ /\ s # NULL /\ "claims" \in ParserOutcomes /\ ~Expired(token)
          /\ req' = [req EXCEPT ![r].at = "id", ![r].session = s,
                                ![r].audience = Audience(token)]
       \/ /\ s # NULL /\ "exception" \in ParserOutcomes
          /\ req' = [req EXCEPT ![r].at = "failed", ![r].session = s]
  /\ UNCHANGED <<heap, storeId, storeCode, now>>

-----------------------------------------------------------------------------
(***************************************************************************)
(* getIdToken() and getOidcToken(): each token reads the identification    *)
(* anew; the session learns its refresh token before the map does.         *)
(***************************************************************************)
userIdentification(r) == heap[req[r].session].userIdentification

CreateIdToken(r) ==
  /\ req[r].at = "id"
  /\ req' = [req EXCEPT
       ![r].idSubject = userIdentification(r),
       ![r].at = IF req[r].grant = "id_token" THEN "respond" ELSE "access"]
  /\ UNCHANGED <<heap, storeVars, now>>

CreateAccessToken(r) ==
  /\ req[r].at = "access"
  /\ req' = [req EXCEPT ![r].accessSubject = userIdentification(r),
                        ![r].at = "refresh"]
  /\ UNCHANGED <<heap, storeVars, now>>

CreateRefreshToken(r) ==
  LET token == Jwt(userIdentification(r), req[r].audience, now) IN
  /\ req[r].at = "refresh"
  /\ req' = [req EXCEPT ![r].refreshToken = token, ![r].at = "set"]
  /\ UNCHANGED <<heap, storeVars, now>>

\* Mutant: setRefreshToken is forgotten, the session keeps its random token.
ForgetRefreshToken(r) ==
  /\ req[r].at = "set"
  /\ req' = [req EXCEPT ![r].at = "store"]
  /\ UNCHANGED <<heap, storeVars, now>>

SetRefreshToken(r) ==
  /\ req[r].at = "set"
  /\ heap' = [heap EXCEPT ![req[r].session].refreshToken = req[r].refreshToken]
  /\ req' = [req EXCEPT ![r].at = "store"]
  /\ UNCHANGED <<storeVars, now>>

StoreSession(r) ==
  LET s == req[r].session IN
  /\ req[r].at = "store"
  /\ Store(s, heap[s].refreshToken)
  /\ req' = [req EXCEPT ![r].at = "respond"]
  /\ UNCHANGED <<heap, now>>

Respond(r) ==
  /\ req[r].at = "respond"
  /\ \E at \in {"answered"} \cup (IF LosesResponses THEN {"lost"} ELSE {}) :
       req' = [req EXCEPT ![r].at = at]
  /\ UNCHANGED <<heap, storeVars, now>>

-----------------------------------------------------------------------------
Tick ==
  /\ \E n \in Instants : n > now /\ now' = n
  /\ UNCHANGED <<heap, storeVars, req>>

Crash ==
  /\ Restarts /\ ServiceRestart
  /\ req' = [r \in Requests |->
               IF InProgress(r) THEN [req[r] EXCEPT !.at = "failed"] ELSE req[r]]
  /\ UNCHANGED now

TokenInit ==
  /\ ServiceInit
  /\ now = 0
  /\ req = [r \in Requests |-> NewRequest]

\* A client posts with the code of s.
PostCode(r, s) ==
  \E client \in Clients :
    \/ \E uri \in RedirectUris, grant \in Grants, url \in BaseUrls :
         Exchange(r, s, client, uri, grant, url)
    \/ \E token \in Handed : Refresh(r, s, client, token)

Post(r) == (\E s \in Sessions : PostCode(r, s)) \/ Refuse(r)

Serve(r) ==
  \/ Consume(r) \/ CreateIdToken(r) \/ CreateAccessToken(r)
  \/ CreateRefreshToken(r) \/ SetRefreshToken(r) \/ StoreSession(r) \/ Respond(r)

TokenNext ==
  \/ \E s \in Sessions, l \in Launches, b \in Browsers, v \in Subjects :
       Login(s, l, b, v)
  \/ \E r \in Requests : Post(r) \/ Serve(r)
  \/ Tick
  \/ Crash

TokenSpec == TokenInit /\ [][TokenNext]_tokenVars
=============================================================================
