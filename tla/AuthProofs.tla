----------------------------- MODULE AuthProofs -----------------------------
(***************************************************************************)
(* What holds of the whole authorization server, for every number of       *)
(* browsers, tabs, sessions, requests and clients: the login flow keeps    *)
(* its invariant beside the token endpoint, whose tokens therefore name    *)
(* only what the browser that brought the code has disclosed; and while no *)
(* tab disturbs another, all tokens of a session name the same person.     *)
(***************************************************************************)
EXTENDS AuthProperties, LaunchProofs

(***************************************************************************)
(* The inductive invariant.                                                *)
(***************************************************************************)
\* The states of a request that works for a session.
Working == Creating \cup Storing \cup {"respond"}

\* The subjects of r's tokens were disclosed in the browser of its session.
NamesOwn(r) ==
  (req[r].session # NULL /\ Live(req[r].session)) =>
    Subject(r) \subseteq Disclosed(heap[req[r].session].openedBy) \cup {Empty}

(***************************************************************************)
(* A request that works for a session has one of this JVM; one without a   *)
(* session has made no token; refresh tokens that go about are JWTs.       *)
(***************************************************************************)
CallInv(r) ==
  /\ req[r].at \in Working => req[r].session # NULL /\ Live(req[r].session)
  /\ req[r].at \in Creating => req[r].audience # NULL
  /\ req[r].at \in Storing => req[r].refreshToken # NULL
  /\ req[r].at = "consume" => req[r].session = NULL /\ req[r].presented # NULL
  /\ req[r].session = NULL => Subject(r) = {}
  /\ req[r].session # NULL => heap[req[r].session] # NULL
  /\ req[r].presented # NULL => req[r].presented \in Jwts
  /\ req[r].refreshToken # NULL => req[r].refreshToken \in Jwts
  /\ NamesOwn(r)

\* STORE_REFRESH_TOKEN only has objects of this JVM.
RefreshLive ==
  \A token \in RefreshTokens :
    storeRefresh[token] # NULL => Live(storeRefresh[token])

AuthInv ==
  /\ LoginInv
  /\ now \in Instants /\ req \in [Requests -> Request]
  /\ \A r \in Requests : CallInv(r)
  /\ RefreshLive
  /\ TokensNameDiscloser

-----------------------------------------------------------------------------
LEMMA AuthInitInv == AuthInit => AuthInv
<1> SUFFICES ASSUME AuthInit PROVE AuthInv
  OBVIOUS
<1>1. LoginInv
  BY InitInv DEF AuthInit
<1>2. now \in Instants /\ req \in [Requests -> Request]
  BY TokenAssumption DEF AuthInit, TokenInit, NewRequest, Request
<1>3. ASSUME NEW r \in Requests PROVE CallInv(r)
  BY DEF AuthInit, TokenInit, NewRequest, CallInv, NamesOwn, Subject, Working, Creating,
     Storing
<1>4. RefreshLive
  BY DEF AuthInit, TokenInit, ServiceInit, Unstored, RefreshLive
<1>5. TokensNameDiscloser
  BY DEF AuthInit, Init, LoginInit, TokensNameDiscloser
<1> QED
  BY <1>1, <1>2, <1>3, <1>4, <1>5 DEF AuthInv

(***************************************************************************)
(* What the token endpoint does to the objects and to STORE_ID: a new      *)
(* refresh token, or an object stored again.                               *)
(***************************************************************************)
SameObject(s) ==
  /\ heap[s] = NULL <=> heap'[s] = NULL
  /\ Live(s) <=> heap'[s] \notin {NULL, Gone}
  /\ Live(s) => /\ heap'[s].request = heap[s].request
                /\ heap'[s].openedBy = heap[s].openedBy
                /\ heap'[s].userIdentification = heap[s].userIdentification

LEMMA LoginInvKept ==
  ASSUME LoginInv, UNCHANGED loginVars, ServiceTypeOK',
         \A s \in Sessions : SameObject(s),
         \A s \in Sessions :
           \/ storeId'[Id(s)] = storeId[Id(s)]
           \/ storeId'[Id(s)] = s /\ Live(s)
  PROVE  LoginInv'
<1>1. TypeOK'
  BY DEF LoginInv, TypeOK, loginVars
<1>2. StoreInv'
  BY DEF LoginInv, StoreInv, SameObject, Live
<1>3. HttpSessionInv'
  BY DEF LoginInv, HttpSessionInv, SameObject, Owns, Live, loginVars
<1>4. IrmaInv'
  BY DEF LoginInv, IrmaInv, loginVars
<1>5. TabInv'
  BY DEF LoginInv, TabInv, PageInv, SameObject, Owns, Live, loginVars
<1>6. HeapInv'
  BY DEF LoginInv, HeapInv, SameObject, Live, Disclosed, loginVars
<1>7. DeliveredInv'
  BY DEF LoginInv, DeliveredInv, SameObject, Live, Disclosed, loginVars
<1> QED
  BY <1>1, <1>2, <1>3, <1>4, <1>5, <1>6, <1>7 DEF LoginInv

\* A step that leaves the objects and the maps alone.
LEMMA NothingStored ==
  ASSUME LoginInv, UNCHANGED <<heap, storeId, storeCode, loginVars>>,
         storeRefresh' \in [RefreshTokens -> Sessions \cup {NULL}]
  PROVE  LoginInv'
<1>1. ServiceTypeOK'
  BY DEF LoginInv, TypeOK, ServiceTypeOK
<1>2. ASSUME NEW s \in Sessions
      PROVE  SameObject(s)
  BY DEF SameObject, Live
<1> QED
  BY <1>1, <1>2, LoginInvKept

\* The object behind the session of a request that works.
LEMMA WorkingSession ==
  ASSUME AuthInv, NEW r \in Requests, req[r].at \in Working
  PROVE  /\ req[r].session \in Sessions
         /\ Live(req[r].session) /\ heap[req[r].session] \in OauthSession
BY DEF AuthInv, CallInv, Request, LoginInv, TypeOK, ServiceTypeOK, Live

LEMMA JwtMade ==
  ASSUME NEW subject \in Subjects \cup {NULL}, NEW audience \in BaseUrls,
         NEW issuedAt \in Instants
  PROVE  /\ Jwt(subject, audience, issuedAt) \in Jwts
         /\ Jwt(subject, audience, issuedAt) \in RefreshTokens
BY TokenAssumption DEF Jwts

-----------------------------------------------------------------------------
(***************************************************************************)
(* The steps of the login flow.                                            *)
(***************************************************************************)
LoginTurn == LoginStep \/ UNCHANGED authVars

LEMMA LoginTurnIsStep == LoginTurn => [Next]_vars /\ UNCHANGED <<now, req>>
BY DEF LoginTurn, LoginStep, Next, authVars, vars, loginVars

LEMMA StoredByLogin ==
  LoginTurn =>
    \/ \E t \in Tabs, l \in Launches : AuthorizeStore(t, l)
    \/ UNCHANGED storeRefresh /\ \E t \in Tabs : EndAnswerCode(t)
    \/ UNCHANGED <<heap, storeRefresh>>
BY LaunchSteps DEF LoginTurn, LoginStep, LoginNext, authVars, storeVars, Start,
  PageReacts, Handle, IrmaSettles, AuthorizeRefused, AuthorizeSetSession,
  AuthorizeSetRedirect, AuthorizeSetAttribute, IndexSetRedirect, IndexSetAttribute,
  StartSession, StartSessionFails, Disclose, CancelOrTimeout, PageStops, EndSession,
  EndFetchResult, EndFetchFails, EndAnswerCode, EndAnswerUnknown, EndAnswerToken,
  EndAnswerNowhere, SessionExpires

\* No step of the login flow loses an object.
LEMMA ObjectsStay ==
  ASSUME LoginInv, LoginTurn, NEW s \in Sessions, Live(s)
  PROVE  Live(s)'
<1>1. ASSUME NEW t \in Tabs, NEW l \in Launches, AuthorizeStore(t, l)
      PROVE  Live(s)'
  BY <1>1, NewSession DEF Live
<1>2. ASSUME NEW t \in Tabs, EndAnswerCode(t)
      PROVE  Live(s)'
  <2>1. PICK o \in Sessions :
          /\ heap[o] \in OauthSession
          /\ heap'[o] =
               [heap[o] EXCEPT !.userIdentification = tab[t].userIdentification]
          /\ \A p \in Sessions \ {o} : heap'[p] = heap[p]
    BY <1>2, CodeAnswer
  <2>2. tab[t].userIdentification \in Subjects
    BY <1>2, AnsweringType DEF EndAnswerCode
  <2>3. heap'[o] \in OauthSession
    BY <2>1, <2>2 DEF OauthSession
  <2> QED
    BY <2>1, <2>3, ObjectAssumption DEF Live
<1> QED
  BY <1>1, <1>2, StoredByLogin DEF Live

LEMMA LoginKeepsCalls ==
  ASSUME AuthInv, LoginTurn, NEW r \in Requests
  PROVE  CallInv(r)'
<1>1. /\ CallInv(r) /\ req[r] \in Request /\ LoginInv
      /\ [Next]_vars /\ UNCHANGED req
  BY LoginTurnIsStep DEF AuthInv
<1>2. CASE req[r].session = NULL
  BY <1>1, <1>2 DEF CallInv, NamesOwn, Subject, Working, Storing
<1>3. ASSUME NEW s \in Sessions, req[r].session = s
      PROVE  CallInv(r)'
  <2>1. heap[s] # NULL
    BY <1>1, <1>3, SessionServiceAssumption DEF CallInv
  <2>2. /\ heap'[s] # NULL
        /\ Live(s)' <=> Live(s)
        /\ Live(s)' => heap'[s].openedBy = heap[s].openedBy
    BY <1>1, <2>1, HeapStep, ObjectsStay
  <2>3. ASSUME Live(s)
        PROVE  Subject(r) \subseteq Disclosed(heap[s].openedBy)' \cup {Empty}
    <3>1. PICK b \in Browsers : b = heap[s].openedBy
      BY <1>1, <2>3 DEF LoginInv, TypeOK, ServiceTypeOK, OauthSession, Live
    <3>2. Disclosed(b) \subseteq Disclosed(b)'
      BY <1>1, DisclosedStep
    <3>3. Subject(r) \subseteq Disclosed(b) \cup {Empty}
      BY <1>1, <1>3, <2>3, <3>1, SessionServiceAssumption DEF CallInv, NamesOwn
    <3>4. heap'[s].openedBy = b
      BY <2>2, <2>3, <3>1
    <3> QED
      BY <3>2, <3>3, <3>4 DEF Disclosed
  <2> QED
    BY <1>1, <1>3, <2>2, <2>3
       DEF CallInv, NamesOwn, Subject, Working, Storing, Live, Disclosed
<1> QED
  BY <1>1, <1>2, <1>3 DEF Request

LEMMA LoginKeepsRefresh ==
  ASSUME AuthInv, LoginTurn
  PROVE  RefreshLive'
<1> SUFFICES ASSUME NEW token \in RefreshTokens, storeRefresh'[token] # NULL
             PROVE  Live(storeRefresh[token])'
  BY DEF RefreshLive
<1>1. LoginInv
  BY DEF AuthInv
<1>2. CASE storeRefresh'[token] = storeRefresh[token]
  <2>1. PICK s \in Sessions : s = storeRefresh[token] /\ Live(s)
    BY <1>1, <1>2 DEF AuthInv, RefreshLive, LoginInv, TypeOK, ServiceTypeOK
  <2>2. Live(s)'
    BY <1>1, <2>1, ObjectsStay
  <2> QED
    BY <1>2, <2>1, <2>2 DEF Live
<1>3. ASSUME NEW t \in Tabs, NEW l \in Launches, AuthorizeStore(t, l),
             storeRefresh'[token] # storeRefresh[token]
      PROVE  Live(storeRefresh[token])'
  <2>1. PICK s \in Sessions :
          /\ heap[s] = NULL
          /\ heap' = [heap EXCEPT ![s] = NewOauthSession(s, l, BrowserOf[t])]
          /\ Store(s, RandomToken[s])
    BY <1>3 DEF AuthorizeStore
  <2>2. storeRefresh'[token] = s
    BY <1>1, <1>3, <2>1 DEF Store, LoginInv, TypeOK, ServiceTypeOK
  <2>3. NewOauthSession(s, l, BrowserOf[t]) \in OauthSession
    BY <1>1, SessionType, SessionServiceAssumption
       DEF NewOauthSession, OauthSession, LoginInv
  <2>4. heap'[s] \in OauthSession
    BY <1>1, <2>1, <2>3 DEF LoginInv, TypeOK, ServiceTypeOK
  <2> QED
    BY <2>2, <2>4, ObjectAssumption DEF Live
<1> QED
  BY <1>2, <1>3, StoredByLogin

\* A code is only answered for an object that is there.
LEMMA NewCodeLive ==
  ASSUME LoginInv, [Next]_vars, NEW d \in delivered' \ delivered,
         NEW s \in Sessions, d.code = Code(s)
  PROVE  Live(s)
<1>1. ASSUME NEW t \in Tabs, EndAnswerCode(t)
      PROVE  Live(s)
  <2>1. PICK o \in Sessions :
          /\ Owns(BrowserOf[t], o)
          /\ Answer(t, [browser |-> BrowserOf[t], launch |-> tab[t].launch,
                        uri     |-> heap[o].request.redirectUri,
                        code    |-> Code(o), state |-> heap[o].request.state,
                        subject |-> tab[t].userIdentification])
    BY <1>1, CodeAnswer
  <2>2. d.code = Code(o)
    BY <2>1 DEF Answer
  <2>3. s = o
    BY <2>2 DEF Code
  <2> QED
    BY <2>1, <2>3 DEF Owns
<1>2. ASSUME NEW t \in Tabs, EndAnswerToken(t)
      PROVE  FALSE
  <2>1. d.code = NULL
    BY <1>2 DEF EndAnswerToken, Answer
  <2> QED
    BY <2>1, ObjectAssumption DEF Codes
<1> QED
  BY <1>1, <1>2, DeliveredChanges

LEMMA LoginKeepsNames ==
  ASSUME AuthInv, LoginTurn
  PROVE  TokensNameDiscloser'
<1> SUFFICES ASSUME NEW r \in Requests, NEW d \in delivered', AnswersFor(r, d)'
             PROVE  Subject(r)' \subseteq Disclosed(d.browser)' \cup {Empty}
  BY DEF TokensNameDiscloser
<1>1. LoginInv /\ LoginInv' /\ [Next]_vars /\ UNCHANGED req
  BY LoginInvStep, LoginTurnIsStep DEF AuthInv
<1>2. PICK s \in Sessions : s = req[r].session /\ d.code = Code(s)
  BY <1>1 DEF AuthInv, AnswersFor, Request
<1>3. CASE d \in delivered
  <2>1. Subject(r) \subseteq Disclosed(d.browser) \cup {Empty}
    BY <1>1, <1>3 DEF AuthInv, TokensNameDiscloser, AnswersFor
  <2>2. d.browser \in Browsers
    BY <1>1, <1>3 DEF LoginInv, TypeOK, Redirect
  <2> QED
    BY <1>1, <2>1, <2>2, DisclosedStep DEF Subject
<1>4. CASE d \notin delivered
  <2>1. Live(s)'
    BY <1>1, <1>4, <1>2, NewCodeLive, ObjectsStay
  <2>2. heap'[s].openedBy = d.browser
    BY <1>1, <1>2, <2>1 DEF LoginInv, DeliveredInv, Code, Live
  <2>3. NamesOwn(r)'
    BY LoginKeepsCalls DEF CallInv
  <2> QED
    BY <1>1, <1>2, <2>1, <2>2, <2>3, SessionServiceAssumption
       DEF NamesOwn, Live, Disclosed
<1> QED
  BY <1>3, <1>4

LEMMA LoginTurnKeeps ==
  ASSUME AuthInv, LoginTurn
  PROVE  AuthInv'
BY LoginTurnIsStep, LoginInvStep, LoginKeepsCalls, LoginKeepsRefresh, LoginKeepsNames
   DEF AuthInv

-----------------------------------------------------------------------------
(***************************************************************************)
(* The steps of the token endpoint: one request at a time, while objects   *)
(* keep who asked for them and who was identified.                         *)
(***************************************************************************)
LEMMA RequestStep ==
  ASSUME AuthInv, LoginInv', RefreshLive', UNCHANGED loginVars, now' \in Instants,
         \A s \in Sessions : SameObject(s),
         NEW r \in Requests, \A q \in Requests \ {r} : req'[q] = req[q],
         req' \in [Requests -> Request], CallInv(r)',
         \/ UNCHANGED <<req[r].session, Subject(r)>>
         \/ req'[r].session = NULL
         \/ Live(req[r].session)'
  PROVE  AuthInv'
<1>1. ASSUME NEW q \in Requests
      PROVE  CallInv(q)'
  <2>1. CASE q = r
    BY <2>1
  <2>2. CASE q # r
    <3>1. req'[q] = req[q] /\ req[q] \in Request /\ CallInv(q)
      BY <2>2 DEF AuthInv
    <3>2. CASE req[q].session = NULL
      BY <3>1, <3>2 DEF CallInv, NamesOwn, Subject
    <3>3. CASE req[q].session # NULL
      <4>1. SameObject(req[q].session)
        BY <3>1, <3>3 DEF Request
      <4>2. /\ Subject(q)' = Subject(q)
            /\ heap'[req[q].session] = NULL <=> heap[req[q].session] = NULL
            /\ Live(req[q].session)' <=> Live(req[q].session)
        BY <3>1, <4>1 DEF Subject, SameObject, Live
      <4>3. NamesOwn(q)'
        BY <3>1, <3>3, <4>1, <4>2
           DEF CallInv, NamesOwn, SameObject, Disclosed, loginVars
      <4> QED
        BY <3>1, <3>3, <4>2, <4>3 DEF CallInv
    <3> QED
      BY <3>2, <3>3
  <2> QED
    BY <2>1, <2>2
<1>2. ASSUME NEW q \in Requests, NEW d \in delivered, AnswersFor(q, d)'
      PROVE  Subject(q)' \subseteq Disclosed(d.browser) \cup {Empty}
  <2>1. CASE UNCHANGED <<req[q].session, Subject(q)>>
    BY <1>2, <2>1 DEF AuthInv, TokensNameDiscloser, AnswersFor
  <2>2. ASSUME NEW s \in Sessions, s = req'[q].session, Live(s)'
        PROVE  Subject(q)' \subseteq Disclosed(d.browser) \cup {Empty}
    <3>1. d.code = Code(s) /\ s # NULL
      BY <1>2, <2>2 DEF AnswersFor
    <3>2. d \in delivered'
      BY DEF loginVars
    <3>3. heap'[s].openedBy = d.browser
      BY <2>2, <3>1, <3>2 DEF LoginInv, DeliveredInv, Live, Code
    <3>4. Subject(q)' \subseteq Disclosed(heap[s].openedBy)' \cup {Empty}
      BY <1>1, <2>2, <3>1 DEF CallInv, NamesOwn, Live
    <3> QED
      BY <3>3, <3>4 DEF Disclosed, loginVars
  <2>3. CASE q = r
    BY <1>2, <2>1, <2>2, <2>3 DEF AnswersFor, Request, Live
  <2>4. CASE q # r
    BY <2>1, <2>4 DEF Subject
  <2> QED
    BY <2>3, <2>4
<1> QED
  BY <1>1, <1>2 DEF AuthInv, TokensNameDiscloser, loginVars, Disclosed

\* A step of one request that stores nothing.
LEMMA QuietStep ==
  ASSUME AuthInv, UNCHANGED <<heap, storeId, storeCode, loginVars, now>>,
         storeRefresh' \in [RefreshTokens -> Sessions \cup {NULL}], RefreshLive',
         NEW r \in Requests, \A q \in Requests \ {r} : req'[q] = req[q],
         req' \in [Requests -> Request], CallInv(r)',
         \/ UNCHANGED <<req[r].session, Subject(r)>>
         \/ req'[r].session = NULL
         \/ Live(req[r].session)'
  PROVE  AuthInv'
<1>1. LoginInv'
  BY NothingStored DEF AuthInv
<1>2. \A s \in Sessions : SameObject(s)
  BY DEF SameObject, Live
<1> QED
  BY <1>1, <1>2, RequestStep DEF AuthInv

LEMMA ExchangeTurn ==
  ASSUME AuthInv, UNCHANGED loginVars, NEW r \in Requests, NEW s \in Sessions,
         NEW client \in Clients, NEW uri, NEW grant \in Grants, NEW url \in BaseUrls,
         Exchange(r, s, client, uri, grant, url)
  PROVE  AuthInv'
<1> DEFINE new == [NewRequest EXCEPT !.at = "id", !.grant = grant, !.client = client,
                                     !.session = s, !.audience = url]
<1>1. new \in Request /\ req' = [req EXCEPT ![r] = new] /\ Live(s)
  BY TokenAssumption DEF Exchange, Finds, NewRequest, Request, Pending, Creating, Storing
<1>2. /\ req'[r] = new /\ req' \in [Requests -> Request]
      /\ \A q \in Requests \ {r} : req'[q] = req[q]
  BY <1>1 DEF AuthInv
<1>3. /\ UNCHANGED <<heap, storeId, storeCode, storeRefresh, now>>
      /\ ServiceTypeOK
  BY DEF Exchange, storeVars, AuthInv, LoginInv, TypeOK
<1>4. Subject(r)' = {} /\ req'[r].session = s
  BY <1>2 DEF Subject, NewRequest
<1>5. CallInv(r)'
  <2>1. NamesOwn(r)'
    BY <1>4 DEF NamesOwn
  <2>2. /\ new.at = "id" /\ new.session = s /\ new.audience = url
        /\ new.presented = NULL /\ new.refreshToken = NULL
    BY DEF NewRequest
  <2>3. s # NULL /\ url # NULL /\ heap'[s] \notin {NULL, Gone}
    BY <1>1, <1>3, TokenAssumption, SessionServiceAssumption DEF Live
  <2> QED
    BY <1>2, <1>4, <2>1, <2>2, <2>3 DEF CallInv, Creating, Storing, Live
<1>6. RefreshLive'
  BY <1>3 DEF AuthInv, RefreshLive, Live
<1> QED
  BY <1>1, <1>2, <1>3, <1>4, <1>5, <1>6, QuietStep DEF ServiceTypeOK, Live

LEMMA RefreshTurn ==
  ASSUME AuthInv, UNCHANGED loginVars, NEW r \in Requests, NEW s \in Sessions,
         NEW client \in Clients, NEW token \in Handed, Refresh(r, s, client, token)
  PROVE  AuthInv'
<1> DEFINE new == [NewRequest EXCEPT !.at = "consume", !.grant = "refresh_token",
                                     !.client = client, !.presented = token]
<1>1. token \in Jwts /\ token \in RefreshTokens /\ token # NULL
  BY TokenAssumption DEF Handed, AuthInv, CallInv
<1>2. new \in Request /\ req' = [req EXCEPT ![r] = new]
  BY <1>1, TokenAssumption DEF Refresh, NewRequest, Request, Pending, Creating,
     Storing, Grants
<1>3. /\ req'[r] = new /\ req' \in [Requests -> Request]
      /\ \A q \in Requests \ {r} : req'[q] = req[q]
  BY <1>2 DEF AuthInv
<1>4. /\ UNCHANGED <<heap, storeId, storeCode, storeRefresh, now>>
      /\ ServiceTypeOK
  BY DEF Refresh, storeVars, AuthInv, LoginInv, TypeOK
<1>5. Subject(r)' = {} /\ req'[r].session = NULL
  BY <1>3 DEF Subject, NewRequest
<1>6. CallInv(r)'
  BY <1>1, <1>3, <1>5 DEF CallInv, NamesOwn, NewRequest, Working, Creating, Storing
<1>7. RefreshLive'
  BY <1>4 DEF AuthInv, RefreshLive, Live
<1> QED
  BY <1>3, <1>4, <1>5, <1>6, <1>7, QuietStep DEF ServiceTypeOK

LEMMA RefuseTurn ==
  ASSUME AuthInv, UNCHANGED loginVars, NEW r \in Requests, Refuse(r)
  PROVE  AuthInv'
<1> DEFINE new == [req[r] EXCEPT !.at = "refused"]
<1>1. new \in Request /\ req' = [req EXCEPT ![r] = new]
  BY DEF Refuse, AuthInv, Request
<1>2. /\ req'[r] = new /\ req' \in [Requests -> Request]
      /\ \A q \in Requests \ {r} : req'[q] = req[q]
  BY <1>1 DEF AuthInv
<1>3. /\ UNCHANGED <<heap, storeId, storeCode, storeRefresh, now>>
      /\ ServiceTypeOK
  BY DEF Refuse, storeVars, AuthInv, LoginInv, TypeOK
<1>4. UNCHANGED <<req[r].session, Subject(r)>>
  BY <1>2 DEF Subject, AuthInv, Request
<1>5. CallInv(r)'
  BY <1>2, <1>3, <1>4 DEF AuthInv, CallInv, NamesOwn, Request, Live, Working, Creating,
     Storing, Disclosed, loginVars
<1>6. RefreshLive'
  BY <1>3 DEF AuthInv, RefreshLive, Live
<1> QED
  BY <1>2, <1>3, <1>4, <1>5, <1>6, QuietStep DEF ServiceTypeOK

LEMMA ConsumeTurn ==
  ASSUME AuthInv, UNCHANGED loginVars, NEW r \in Requests, Consume(r)
  PROVE  AuthInv'
<1> DEFINE token == req[r].presented
<1>1. /\ token \in Jwts /\ token \in RefreshTokens
      /\ req[r].session = NULL /\ Subject(r) = {} /\ req[r] \in Request
      /\ ServiceTypeOK
  BY TokenAssumption DEF Consume, AuthInv, CallInv, LoginInv, TypeOK
<1>2. Audience(token) \in BaseUrls
  BY <1>1 DEF Jwts, Jwt, Audience
<1>3. PICK s \in Sessions \cup {NULL} :
        /\ ConsumeRefreshToken(token, s)
        /\ \/ req' = [req EXCEPT ![r].at = "refused", ![r].session = s]
           \/ /\ s # NULL
              /\ \/ req' = [req EXCEPT ![r].at = "id", ![r].session = s,
                                       ![r].audience = Audience(token)]
                 \/ req' = [req EXCEPT ![r].at = "failed", ![r].session = s]
  BY DEF Consume
<1>4. s # NULL => Live(s)
  BY <1>1, <1>3 DEF ConsumeRefreshToken, Gets, AuthInv, RefreshLive
<1>5. /\ UNCHANGED <<heap, storeId, storeCode, now>>
      /\ storeRefresh' \in [RefreshTokens -> Sessions \cup {NULL}]
  BY <1>1, <1>3 DEF Consume, ConsumeRefreshToken, ServiceTypeOK
<1>6. RefreshLive'
  BY <1>1, <1>3, <1>5 DEF ConsumeRefreshToken, AuthInv, RefreshLive, Live, ServiceTypeOK
<1>7. /\ req' \in [Requests -> Request]
      /\ \A q \in Requests \ {r} : req'[q] = req[q]
  BY <1>1, <1>2, <1>3 DEF AuthInv, Request, Pending, Creating, Storing
<1>8. /\ req'[r].session = s /\ req'[r].presented = token
      /\ req'[r].refreshToken = req[r].refreshToken
      /\ req'[r].idSubject = req[r].idSubject
      /\ req'[r].accessSubject = req[r].accessSubject
      /\ \/ req'[r].at \in {"refused", "failed"}
         \/ req'[r].at = "id" /\ s # NULL /\ req'[r].audience = Audience(token)
  BY <1>1, <1>3 DEF AuthInv, Request
<1>9. Subject(r)' = {}
  BY <1>1, <1>8 DEF Subject
<1>10. NamesOwn(r)'
  BY <1>9 DEF NamesOwn
<1>11. CallInv(r)'
  BY <1>1, <1>2, <1>4, <1>5, <1>8, <1>9, <1>10, TokenAssumption
     DEF AuthInv, CallInv, Live, Working, Creating, Storing
<1> QED
  BY <1>4, <1>5, <1>6, <1>7, <1>8, <1>11, QuietStep DEF Live

\* What a token may say: the identification of the session it is made for.
LEMMA IdentificationOwn ==
  ASSUME AuthInv, NEW r \in Requests, req[r].at \in Working
  PROVE  /\ userIdentification(r) \in Subjects \cup {NULL}
         /\ userIdentification(r)
              \in Disclosed(heap[req[r].session].openedBy) \cup {Empty, NULL}
BY WorkingSession DEF AuthInv, LoginInv, HeapInv, OauthSession, userIdentification

LEMMA WorkTurn ==
  ASSUME AuthInv, UNCHANGED loginVars, NEW r \in Requests,
         CreateIdToken(r) \/ CreateAccessToken(r) \/ Respond(r)
  PROVE  AuthInv'
<1>1. /\ req[r].at \in Working /\ req[r] \in Request /\ ServiceTypeOK /\ CallInv(r)
      /\ UNCHANGED <<heap, storeId, storeCode, storeRefresh, now>>
  BY DEF CreateIdToken, CreateAccessToken, Respond, Working, Creating, Storing, AuthInv,
     storeVars, LoginInv, TypeOK
<1>2. RefreshLive'
  BY <1>1 DEF AuthInv, RefreshLive, Live
<1>3. userIdentification(r) \in Subjects \cup {NULL}
  BY <1>1, IdentificationOwn
<1>4. /\ req' \in [Requests -> Request]
      /\ \A q \in Requests \ {r} : req'[q] = req[q]
  <2>1. CASE CreateIdToken(r)
    BY <1>1, <1>3, <2>1 DEF CreateIdToken, AuthInv, Request, Pending, Creating, Storing
  <2>2. CASE CreateAccessToken(r)
    BY <1>1, <1>3, <2>2 DEF CreateAccessToken, AuthInv, Request, Pending, Creating, Storing
  <2>3. CASE Respond(r)
    BY <1>1, <2>3 DEF Respond, AuthInv, Request
  <2> QED
    BY <2>1, <2>2, <2>3
<1>5. /\ req'[r].session = req[r].session /\ req'[r].presented = req[r].presented
      /\ req'[r].refreshToken = req[r].refreshToken
      /\ req'[r].audience = req[r].audience
      /\ req'[r].idSubject \in {req[r].idSubject, userIdentification(r)}
      /\ req'[r].accessSubject \in {req[r].accessSubject, userIdentification(r)}
      /\ \/ req'[r].at \in {"answered", "lost", "respond"}
         \/ req'[r].at \in Creating /\ req[r].at \in Creating
  <2>1. CASE CreateIdToken(r)
    BY <1>1, <2>1 DEF CreateIdToken, AuthInv, Request, Creating
  <2>2. CASE CreateAccessToken(r)
    BY <1>1, <2>2 DEF CreateAccessToken, AuthInv, Request, Creating
  <2>3. CASE Respond(r)
    BY <1>1, <2>3 DEF Respond, AuthInv, Request
  <2> QED
    BY <2>1, <2>2, <2>3
<1>6. Subject(r)' \subseteq Subject(r) \cup ({userIdentification(r)} \ {NULL})
  BY <1>5 DEF Subject
<1>7. NamesOwn(r)'
  BY <1>1, <1>5, <1>6, IdentificationOwn
     DEF CallInv, NamesOwn, Live, Disclosed, loginVars
<1>8. CallInv(r)'
  BY <1>1, <1>5, <1>7 DEF CallInv, Live, Working, Creating, Storing
<1> QED
  BY <1>1, <1>2, <1>4, <1>5, <1>8, QuietStep DEF ServiceTypeOK, CallInv, Live

LEMMA CreateRefreshTokenTurn ==
  ASSUME AuthInv, UNCHANGED loginVars, NEW r \in Requests, CreateRefreshToken(r)
  PROVE  AuthInv'
<1> DEFINE token == Jwt(userIdentification(r), req[r].audience, now)
<1>1. /\ req[r].at \in Working /\ req[r].at \in Creating /\ req[r] \in Request
      /\ CallInv(r) /\ ServiceTypeOK
      /\ UNCHANGED <<heap, storeId, storeCode, storeRefresh, now>>
  BY DEF CreateRefreshToken, Working, Creating, AuthInv, storeVars, LoginInv, TypeOK
<1>2. token \in Jwts /\ token \in RefreshTokens /\ token # NULL
  BY <1>1, IdentificationOwn, JwtMade, TokenAssumption DEF CallInv, Request, AuthInv
<1>3. req' = [req EXCEPT ![r].refreshToken = token, ![r].at = "set"]
  BY DEF CreateRefreshToken
<1> HIDE DEF token
<1>4. /\ req' \in [Requests -> Request]
      /\ \A q \in Requests \ {r} : req'[q] = req[q]
  <2>1. req \in [Requests -> Request]
    BY DEF AuthInv
  <2>2. [req[r] EXCEPT !.refreshToken = token, !.at = "set"] \in Request
    BY <1>1, <1>2 DEF Request, Pending, Storing
  <2> QED
    BY <1>3, <2>1, <2>2
<1>5. /\ req'[r].session = req[r].session /\ req'[r].presented = req[r].presented
      /\ req'[r].refreshToken = token /\ req'[r].at = "set"
      /\ UNCHANGED <<req[r].session, Subject(r)>>
  BY <1>1, <1>3 DEF AuthInv, Request, Subject
<1>6. NamesOwn(r)'
  BY <1>1, <1>5 DEF CallInv, NamesOwn, Live, Disclosed, loginVars
<1>7. CallInv(r)'
  <2>1. req'[r].at \notin Creating /\ req'[r].at # "consume"
    BY <1>5 DEF Creating
  <2> QED
    BY <1>1, <1>2, <1>5, <1>6, <2>1 DEF CallInv, Live
<1>8. RefreshLive'
  BY <1>1 DEF AuthInv, RefreshLive, Live
<1> QED
  BY <1>1, <1>4, <1>5, <1>7, <1>8, QuietStep DEF ServiceTypeOK

LEMMA SetRefreshTokenTurn ==
  ASSUME AuthInv, UNCHANGED loginVars, NEW r \in Requests, SetRefreshToken(r)
  PROVE  AuthInv'
<1> DEFINE s == req[r].session
           token == req[r].refreshToken
<1>1. /\ req[r].at \in Working /\ req[r].at \in Storing /\ req[r] \in Request
      /\ CallInv(r) /\ LoginInv /\ ServiceTypeOK
  BY DEF SetRefreshToken, Working, Storing, AuthInv, LoginInv, TypeOK
<1>2. s \in Sessions /\ s # NULL /\ Live(s) /\ heap[s] \in OauthSession
  BY <1>1, WorkingSession, SessionServiceAssumption
<1>3. token \in Jwts /\ token \in RefreshTokens /\ token # NULL
  BY <1>1, TokenAssumption DEF CallInv
<1>4. /\ heap' = [heap EXCEPT ![s].refreshToken = token]
      /\ req' = [req EXCEPT ![r].at = "store"]
      /\ UNCHANGED <<storeId, storeCode, storeRefresh, now>>
  BY DEF SetRefreshToken, storeVars
<1>5. heap'[s] = [heap[s] EXCEPT !.refreshToken = token] /\ heap'[s] \in OauthSession
  BY <1>1, <1>2, <1>3, <1>4 DEF ServiceTypeOK, OauthSession
<1>6. ASSUME NEW o \in Sessions
      PROVE  SameObject(o)
  <2>1. CASE o = s
    BY <1>2, <1>5, <2>1, ObjectAssumption DEF SameObject, Live, OauthSession
  <2>2. CASE o # s
    BY <1>1, <1>4, <2>2 DEF SameObject, Live, ServiceTypeOK
  <2> QED
    BY <2>1, <2>2
<1>7. ServiceTypeOK'
  BY <1>1, <1>2, <1>4, <1>5 DEF ServiceTypeOK
<1>8. LoginInv'
  BY <1>1, <1>4, <1>6, <1>7, LoginInvKept
<1>9. RefreshLive'
  BY <1>1, <1>4, <1>6 DEF AuthInv, RefreshLive, SameObject, Live, ServiceTypeOK
<1>10. /\ req' \in [Requests -> Request]
       /\ \A q \in Requests \ {r} : req'[q] = req[q]
  <2>1. req \in [Requests -> Request]
    BY DEF AuthInv
  <2>2. [req[r] EXCEPT !.at = "store"] \in Request
    BY <1>1 DEF Request, Pending, Storing
  <2> QED
    BY <1>4, <2>1, <2>2
<1>11. /\ req'[r].session = s /\ req'[r].presented = req[r].presented
       /\ req'[r].refreshToken = token /\ req'[r].at = "store"
       /\ UNCHANGED <<req[r].session, Subject(r)>>
  BY <1>1, <1>4 DEF AuthInv, Request, Subject
<1>12. SameObject(s)
  BY <1>2, <1>6
<1>13. NamesOwn(r)'
  BY <1>1, <1>2, <1>11, <1>12
     DEF CallInv, NamesOwn, SameObject, Live, Disclosed, loginVars
<1>14. CallInv(r)'
  <2>1. heap'[s] \notin {NULL, Gone} /\ s # NULL
    BY <1>2, <1>12 DEF SameObject
  <2>2. req'[r].at \notin Creating /\ req'[r].at # "consume"
    BY <1>11 DEF Creating, Storing
  <2>3. req'[r].presented # NULL => req'[r].presented \in Jwts
    BY <1>1, <1>11 DEF CallInv
  <2> QED
    BY <1>3, <1>11, <1>13, <2>1, <2>2, <2>3 DEF CallInv, Live
<1>15. now' \in Instants
  BY <1>4 DEF AuthInv
<1> QED
  BY <1>6, <1>8, <1>9, <1>10, <1>11, <1>14, <1>15, RequestStep

LEMMA StoreSessionTurn ==
  ASSUME AuthInv, UNCHANGED loginVars, NEW r \in Requests, StoreSession(r)
  PROVE  AuthInv'
<1> DEFINE s == req[r].session
           token == heap[s].refreshToken
<1>1. /\ req[r].at \in Working /\ req[r] \in Request
      /\ CallInv(r) /\ LoginInv /\ ServiceTypeOK
  BY DEF StoreSession, Working, Storing, AuthInv, LoginInv, TypeOK
<1>2. s \in Sessions /\ Live(s) /\ token \in RefreshTokens
  BY <1>1, WorkingSession DEF OauthSession
<1>3. /\ Store(s, token) /\ UNCHANGED <<heap, now>>
      /\ req' = [req EXCEPT ![r].at = "respond"]
  BY DEF StoreSession
<1>4. \A o \in Sessions : SameObject(o)
  BY <1>3 DEF SameObject, Live
<1>5. ServiceTypeOK'
  BY <1>1, <1>2, <1>3 DEF Store, ServiceTypeOK, Ids, Codes
<1>6. ASSUME NEW o \in Sessions
      PROVE  storeId'[Id(o)] = storeId[Id(o)] \/ (storeId'[Id(o)] = o /\ Live(o))
  BY <1>1, <1>2, <1>3 DEF Store, ServiceTypeOK, Ids, Id
<1>7. LoginInv'
  BY <1>1, <1>4, <1>5, <1>6, LoginInvKept
<1>8. RefreshLive'
  BY <1>1, <1>2, <1>3 DEF Store, AuthInv, RefreshLive, Live, ServiceTypeOK
<1>9. /\ req' \in [Requests -> Request] /\ now' \in Instants
      /\ \A q \in Requests \ {r} : req'[q] = req[q]
  BY <1>1, <1>3 DEF AuthInv, Request, Pending, Storing
<1>10. /\ req'[r].session = s /\ req'[r].presented = req[r].presented
       /\ req'[r].refreshToken = req[r].refreshToken /\ req'[r].at = "respond"
       /\ UNCHANGED <<req[r].session, Subject(r)>>
  BY <1>1, <1>3 DEF AuthInv, Request, Subject
<1>11. NamesOwn(r)'
  BY <1>1, <1>3, <1>10 DEF CallInv, NamesOwn, Live, Disclosed, loginVars
<1>12. CallInv(r)'
  BY <1>1, <1>3, <1>10, <1>11 DEF CallInv, Live, Creating, Storing
<1> QED
  BY <1>4, <1>7, <1>8, <1>9, <1>10, <1>12, RequestStep

LEMMA TokenTurn ==
  ASSUME AuthInv, NEW r \in Requests, TokenStep(r)
  PROVE  AuthInv'
BY ExchangeTurn, RefreshTurn, RefuseTurn, ConsumeTurn, WorkTurn,
   CreateRefreshTokenTurn, SetRefreshTokenTurn, StoreSessionTurn
   DEF TokenStep, Serve, PostCode

\* The clock moves.
LEMMA PassesTurn ==
  ASSUME AuthInv, Passes
  PROVE  AuthInv'
<1>1. /\ UNCHANGED <<heap, storeId, storeCode, storeRefresh, req, loginVars>>
      /\ now' \in Instants
  BY DEF Passes, Tick, storeVars
<1>2. LoginInv'
  BY <1>1, NothingStored DEF AuthInv, LoginInv, TypeOK, ServiceTypeOK
<1>3. ASSUME NEW q \in Requests PROVE CallInv(q)'
  BY <1>1 DEF AuthInv, CallInv, NamesOwn, Subject, Live, Disclosed, loginVars
<1>4. RefreshLive' /\ TokensNameDiscloser'
  BY <1>1 DEF AuthInv, RefreshLive, TokensNameDiscloser, AnswersFor, Subject, Live,
     Disclosed, loginVars
<1> QED
  BY <1>1, <1>2, <1>3, <1>4 DEF AuthInv

\* A restart takes the objects, and with them the requests that had one.
LEMMA RestartTurn ==
  ASSUME AuthInv, RestartAll
  PROVE  AuthInv'
<1>1. Restart /\ Crash /\ [Next]_vars
  BY DEF RestartAll, Next
<1>2. LoginInv'
  BY <1>1, LoginInvStep DEF AuthInv
<1>3. \A s \in Sessions : ~Live(s)' /\ (heap[s] # NULL => heap'[s] # NULL)
  BY <1>1, SessionServiceAssumption DEF Restart, ServiceRestart, Live
<1>4. /\ \A q \in Requests :
           req'[q] = IF InProgress(q) THEN [req[q] EXCEPT !.at = "failed"] ELSE req[q]
      /\ req' \in [Requests -> Request]
  BY <1>1 DEF Crash, AuthInv, Request
<1>5. ASSUME NEW q \in Requests
      PROVE  CallInv(q)' /\ UNCHANGED <<req[q].session, Subject(q)>>
  <2>1. req[q] \in Request /\ CallInv(q)
    BY DEF AuthInv
  <2>2. /\ req'[q].at \notin Pending /\ req'[q].session = req[q].session
        /\ req'[q].presented = req[q].presented
        /\ req'[q].refreshToken = req[q].refreshToken
        /\ UNCHANGED Subject(q)
    BY <1>4, <2>1 DEF InProgress, Request, Subject, Pending, Creating, Storing
  <2>3. NamesOwn(q)'
    BY <1>3, <2>1, <2>2 DEF NamesOwn, Request, Live
  <2> QED
    BY <1>3, <2>1, <2>2, <2>3 DEF CallInv, Request, Working, Storing, Pending
<1>6. RefreshLive'
  BY <1>1 DEF Restart, ServiceRestart, Unstored, RefreshLive
<1>7. TokensNameDiscloser'
  BY <1>1, <1>5 DEF AuthInv, TokensNameDiscloser, AnswersFor, Restart, Disclosed
<1> QED
  BY <1>1, <1>2, <1>4, <1>5, <1>6, <1>7 DEF AuthInv, Crash

-----------------------------------------------------------------------------
(***************************************************************************)
(* The theorems.                                                           *)
(***************************************************************************)
\* AuthInv, and with it LoginInv, is an invariant of the whole server.
THEOREM AuthInvariance == AuthSpec => []AuthInv
<1>1. AuthInv /\ [AuthNext]_authVars => AuthInv'
  BY LoginTurnKeeps, TokenTurn, PassesTurn, RestartTurn DEF AuthNext, LoginTurn
<1>2. QED
  BY AuthInitInv, <1>1, PTL DEF AuthSpec

(***************************************************************************)
(* The id and access tokens that Oauth2Controller.token makes for a code   *)
(* name only what the user of the browser that brought it has disclosed,   *)
(* whatever else SessionController.stopSession writes meanwhile.           *)
(***************************************************************************)
THEOREM TokensNameOwn == AuthSpec => []TokensNameDiscloser
<1>1. AuthInv => TokensNameDiscloser
  BY DEF AuthInv
<1>2. QED
  BY <1>1, AuthInvariance, PTL

(***************************************************************************)
(* With the token endpoint beside it, the login flow still implements      *)
(* LoginContract: a token step, and the clock, are steps of nothing there. *)
(***************************************************************************)
THEOREM AuthKeepsContract == AuthSpec => KeepsContract
<1>1. AuthInit => Promise!ContractInit
  BY DEF AuthInit, Init, ServiceInit, LoginInit, Promise!ContractInit, Disclosed
<1>2. ASSUME AuthInv, [AuthNext]_authVars
      PROVE  [Promise!ContractNext]_(Promise!contractVars)
  <2>1. CASE [Next]_vars
    BY <1>2, <2>1, ContractStep DEF AuthInv
  <2>2. CASE UNCHANGED loginVars
    BY <2>2 DEF loginVars, Promise!contractVars, Disclosed
  <2>3. QED
    BY <1>2, <2>1, <2>2, LoginTurnIsStep
       DEF AuthNext, LoginTurn, TokenStep, Passes, RestartAll, Next
<1>3. QED
  BY <1>1, <1>2, AuthInvariance, PTL DEF AuthSpec, KeepsContract, Promise!Contract

-----------------------------------------------------------------------------
(***************************************************************************)
(* While no tab disturbs another, tokens agree: what is new is that the    *)
(* token endpoint works only for sessions whose code is out, and that a    *)
(* session names whoever the redirect with its code has named.             *)
(***************************************************************************)
\* Requests, and refresh tokens, only have sessions whose code went out.
Called ==
  /\ \A r \in Requests : req[r].session # NULL => Delivered(req[r].session)
  /\ \A token \in Jwts :
       storeRefresh[token] # NULL => Delivered(storeRefresh[token])

NamedAsDelivered ==
  \A d \in delivered, s \in Sessions :
    Carries(d, s) => heap[s].userIdentification = d.subject

AgreeInv == AuthInv /\ LaunchInv /\ Called /\ NamedAsDelivered /\ TokensAgree

LEMMA AgreeInitially ==
  ASSUME AuthInit
  PROVE  AgreeInv
<1>1. delivered = {} /\ Init
  BY DEF AuthInit, Init, LoginInit
<1>2. Called
  BY TokenAssumption DEF AuthInit, TokenInit, ServiceInit, Unstored, NewRequest, Called
<1> QED
  BY <1>1, <1>2, AuthInitInv, LaunchInitInv DEF AgreeInv, NamedAsDelivered, TokensAgree

-----------------------------------------------------------------------------
\* Steps of the login flow, a restart included, for what requests have made.
LEMMA LoginKeepsCalled ==
  ASSUME AgreeInv, [Next]_vars,
         \A r \in Requests : req'[r].session = req[r].session,
         \A token \in Jwts : storeRefresh'[token] \in {storeRefresh[token], NULL}
  PROVE  Called'
<1>1. ASSUME NEW s, Delivered(s) PROVE Delivered(s)'
  <2>1. delivered \subseteq delivered'
    BY DeliveredChanges DEF EndAnswerCode, EndAnswerToken, Answer
  <2> QED
    BY <1>1, <2>1 DEF Delivered, Code
<1>2. ASSUME NEW r \in Requests, req'[r].session # NULL
      PROVE  Delivered(req[r].session)'
  <2>1. PICK s : s = req[r].session /\ s = req'[r].session
    OBVIOUS
  <2>2. Delivered(s)
    BY <1>2, <2>1 DEF AgreeInv, Called
  <2> QED
    BY <1>1, <2>1, <2>2 DEF Delivered, Code
<1>3. ASSUME NEW token \in Jwts, storeRefresh'[token] # NULL
      PROVE  Delivered(storeRefresh[token])'
  <2>1. PICK s : s = storeRefresh[token] /\ s = storeRefresh'[token]
    BY <1>3
  <2>2. Delivered(s)
    BY <1>3, <2>1 DEF AgreeInv, Called
  <2> QED
    BY <1>1, <2>1, <2>2 DEF Delivered, Code
<1> QED
  BY <1>2, <1>3 DEF Called

LEMMA LoginKeepsNamed ==
  ASSUME AgreeInv, [Next]_vars
  PROVE  NamedAsDelivered'
<1> SUFFICES ASSUME NEW d \in delivered', NEW s \in Sessions, d.code = Code(s), Live(s)'
             PROVE  heap'[s].userIdentification = d.subject
  BY DEF NamedAsDelivered, Carries, Code
<1>1. LoginInv
  BY DEF AgreeInv, AuthInv
<1>2. CASE d \in delivered
  <2>1. heap[s] # NULL
    BY <1>1, <1>2 DEF LoginInv, DeliveredInv
  <2>2. Live(s)
    BY <1>1, <2>1, HeapStep
  <2>3. heap[s].userIdentification = d.subject
    BY <1>2, <2>2 DEF AgreeInv, NamedAsDelivered, Carries
  <2> QED
    BY <1>2, <2>1, <2>3, IdentificationKept DEF AgreeInv
<1>3. ASSUME d \notin delivered, NEW t \in Tabs, EndAnswerCode(t)
      PROVE  heap'[s].userIdentification = d.subject
  <2>1. PICK o \in Sessions :
          /\ heap[o] \in OauthSession
          /\ heap'[o] =
               [heap[o] EXCEPT !.userIdentification = tab[t].userIdentification]
          /\ Answer(t, [browser |-> BrowserOf[t], launch |-> tab[t].launch,
                        uri     |-> heap[o].request.redirectUri,
                        code    |-> Code(o), state |-> heap[o].request.state,
                        subject |-> tab[t].userIdentification])
    BY <1>1, <1>3, CodeAnswer
  <2>2. d.code = Code(o) /\ d.subject = tab[t].userIdentification
    BY <1>3, <2>1 DEF Answer
  <2>3. s = o
    BY <2>2 DEF Code
  <2> QED
    BY <2>1, <2>2, <2>3 DEF OauthSession
<1>4. ASSUME d \notin delivered, NEW t \in Tabs, EndAnswerToken(t)
      PROVE  FALSE
  <2>1. d.code = NULL
    BY <1>4 DEF EndAnswerToken, Answer
  <2> QED
    BY <2>1, ObjectAssumption DEF Codes
<1> QED
  BY <1>2, <1>3, <1>4, DeliveredChanges

\* No code goes out for a session that tokens have been made for.
LEMMA LoginKeepsAgreed ==
  ASSUME AgreeInv, [Next]_vars,
         \A r \in Requests : req'[r].session = req[r].session /\ UNCHANGED Subject(r)
  PROVE  TokensAgree'
<1> SUFFICES ASSUME NEW r \in Requests, NEW d \in delivered', AnswersFor(r, d)'
             PROVE  Subject(r) \subseteq {d.subject}
  BY DEF TokensAgree, Subject
<1>1. PICK s : s = req[r].session /\ s = req'[r].session
  OBVIOUS
<1>2. s \in Sessions /\ s # NULL /\ d.code = Code(s) /\ LoginInv
  BY <1>1 DEF AnswersFor, AgreeInv, AuthInv, Request
<1>3. CASE d \in delivered
  BY <1>1, <1>2, <1>3 DEF AgreeInv, TokensAgree, AnswersFor
<1>4. ASSUME d \notin delivered, NEW t \in Tabs, EndAnswerCode(t)
      PROVE  FALSE
  <2>1. PICK e \in delivered : e.code = Code(s)
    BY <1>1, <1>2 DEF AgreeInv, Called, Delivered
  <2>2. PICK o \in Sessions :
          /\ tab[t].oauthSession = Id(o)
          /\ Answer(t, [browser |-> BrowserOf[t], launch |-> tab[t].launch,
                        uri     |-> heap[o].request.redirectUri,
                        code    |-> Code(o), state |-> heap[o].request.state,
                        subject |-> tab[t].userIdentification])
    BY <1>2, <1>4, CodeAnswer
  <2>3. o = s
    BY <1>2, <1>4, <2>2 DEF Answer, Code
  <2> QED
    BY <1>2, <1>4, <2>1, <2>2, <2>3, NoAnswerAgain DEF AgreeInv
<1>5. ASSUME d \notin delivered, NEW t \in Tabs, EndAnswerToken(t)
      PROVE  FALSE
  <2>1. d.code = NULL
    BY <1>5 DEF EndAnswerToken, Answer
  <2> QED
    BY <1>2, <2>1, ObjectAssumption DEF Codes
<1> QED
  BY <1>3, <1>4, <1>5, DeliveredChanges

-----------------------------------------------------------------------------
\* The token endpoint leaves whom an object is for, and whom it names.
LEMMA TokenKeepsObjects ==
  ASSUME AuthInv, NEW r \in Requests, TokenStep(r), NEW s \in Sessions
  PROVE  SameObject(s)
<1>1. CASE SetRefreshToken(r)
  <2>1. /\ req[r].at \in Working /\ heap \in [Sessions -> OauthSession \cup {NULL, Gone}]
        /\ CallInv(r) /\ req[r] \in Request
    BY <1>1 DEF SetRefreshToken, Working, Storing, AuthInv, LoginInv, TypeOK,
       ServiceTypeOK
  <2>2. req[r].session \in Sessions /\ heap[req[r].session] \in OauthSession
    BY <2>1, WorkingSession
  <2>3. req[r].refreshToken \in Jwts
    BY <1>1, <2>1 DEF SetRefreshToken, CallInv, Storing
  <2>4. PICK token \in RefreshTokens :
          heap' = [heap EXCEPT ![req[r].session].refreshToken = token]
    BY <1>1, <2>3, TokenAssumption DEF SetRefreshToken
  <2>5. CASE s = req[r].session
    <3>1. heap'[s] = [heap[s] EXCEPT !.refreshToken = token] /\ heap'[s] \in OauthSession
      BY <2>1, <2>2, <2>4, <2>5 DEF OauthSession
    <3> QED
      BY <2>2, <2>5, <3>1, ObjectAssumption DEF SameObject, Live, OauthSession
  <2>6. CASE s # req[r].session
    BY <2>1, <2>4, <2>6 DEF SameObject, Live
  <2> QED
    BY <2>5, <2>6
<1>2. CASE UNCHANGED heap
  BY <1>2 DEF SameObject, Live
<1> QED
  BY <1>1, <1>2 DEF TokenStep, Serve, PostCode, Exchange, Refresh, Refuse, Consume,
     CreateIdToken, CreateAccessToken, CreateRefreshToken, StoreSession, Respond

LEMMA LaunchInvKept ==
  ASSUME LaunchInv, LoginInv', UNCHANGED loginVars, \A s \in Sessions : SameObject(s)
  PROVE  LaunchInv'
<1>1. ASSUME NEW t \in Tabs PROVE FlowInv(t)'
  <2>1. FlowInv(t) /\ UNCHANGED <<tab, httpSession, irma>>
    BY DEF LaunchInv, loginVars
  <2>2. PICK l, x, y : l = tab[t].launch /\ x = session(t).oauthSession
                       /\ y = tab[t].oauthSession
    OBVIOUS
  <2>3. \A id \in {x, y} : MadeFor(id, l)' <=> MadeFor(id, l)
    BY DEF MadeFor, SameObject, Live
  <2>4. /\ MadeFor(session(t).oauthSession, tab[t].launch)' <=> MadeFor(x, l)
        /\ MadeFor(tab[t].oauthSession, tab[t].launch)' <=> MadeFor(y, l)
        /\ MadeFor(session(t).oauthSession, tab[t].launch) <=> MadeFor(x, l)
        /\ MadeFor(tab[t].oauthSession, tab[t].launch) <=> MadeFor(y, l)
    BY <2>1, <2>2, <2>3 DEF MadeFor, session
  <2>5. HasLaunch(t)' <=> HasLaunch(t)
    BY <2>1, <2>4 DEF HasLaunch, session
  <2>6. /\ LaunchOf(t)' <=> LaunchOf(t)
        /\ HasResult(t)' <=> HasResult(t)
        /\ Lost(t)' <=> Lost(t)
    BY <2>1 DEF LaunchOf, HasResult, Lost, session
  <2> QED
    BY <2>1, <2>4, <2>5, <2>6 DEF FlowInv, session
<1>3. WalletInv' /\ SettledInv' /\ DeliveredAsLaunched'
  BY DEF LaunchInv, WalletInv, SettledInv, Settles, DeliveredAsLaunched, AnswersLaunch,
     loginVars, session
<1> QED
  BY <1>1, <1>3 DEF LaunchInv

\* Requests get sessions by a code that is out, or by a refresh token.
LEMMA SessionFound ==
  ASSUME AgreeInv, NEW r \in Requests, TokenStep(r)
  PROVE  /\ \A q \in Requests \ {r} : req'[q] = req[q]
         /\ \/ req'[r].session = req[r].session
            \/ Subject(r)' = {} /\ (req'[r].session = NULL \/ Delivered(req'[r].session))
<1>1. /\ req \in [Requests -> Request] /\ CallInv(r)
      /\ storeRefresh \in [RefreshTokens -> Sessions \cup {NULL}]
  BY DEF AgreeInv, AuthInv, LoginInv, TypeOK, ServiceTypeOK
<1>2. ASSUME NEW s \in Sessions, Delivered(s), PostCode(r, s)
      PROVE  /\ \A q \in Requests \ {r} : req'[q] = req[q]
             /\ Subject(r)' = {} /\ req'[r].session \in {s, NULL}
  <2>1. ASSUME NEW client, NEW uri, NEW grant, NEW url,
               Exchange(r, s, client, uri, grant, url)
        PROVE  /\ \A q \in Requests \ {r} : req'[q] = req[q]
               /\ Subject(r)' = {} /\ req'[r].session = s
    BY <1>1, <2>1 DEF Exchange, NewRequest, Subject
  <2>2. ASSUME NEW client, NEW token, Refresh(r, s, client, token)
        PROVE  /\ \A q \in Requests \ {r} : req'[q] = req[q]
               /\ Subject(r)' = {} /\ req'[r].session = NULL
    BY <1>1, <2>2 DEF Refresh, NewRequest, Subject
  <2> QED
    BY <1>2, <2>1, <2>2 DEF PostCode
<1>3. CASE Consume(r)
  <2>1. PICK s \in Sessions \cup {NULL} :
          /\ s \in Gets(storeRefresh, req[r].presented)
          /\ \/ req' = [req EXCEPT ![r].at = "refused", ![r].session = s]
             \/ req' = [req EXCEPT ![r].at = "failed", ![r].session = s]
             \/ req' = [req EXCEPT ![r].at = "id", ![r].session = s,
                                   ![r].audience = Audience(req[r].presented)]
    BY <1>3 DEF Consume, ConsumeRefreshToken
  <2>2. /\ req[r].presented \in Jwts /\ Subject(r) = {}
    BY <1>1, <1>3 DEF Consume, CallInv
  <2>3. /\ req'[r].session = s /\ req'[r].idSubject = req[r].idSubject
        /\ req'[r].accessSubject = req[r].accessSubject
        /\ \A q \in Requests \ {r} : req'[q] = req[q]
    BY <1>1, <2>1 DEF Request
  <2>4. s = NULL \/ s = storeRefresh[req[r].presented]
    BY <2>1 DEF Gets
  <2>5. s = NULL \/ Delivered(s)
    BY <2>2, <2>4 DEF AgreeInv, Called
  <2> QED
    BY <2>2, <2>3, <2>5 DEF Subject
<1>4. CASE \/ Refuse(r) \/ CreateIdToken(r) \/ CreateAccessToken(r)
           \/ CreateRefreshToken(r) \/ SetRefreshToken(r) \/ StoreSession(r) \/ Respond(r)
  BY <1>1, <1>4 DEF Refuse, CreateIdToken, CreateAccessToken, CreateRefreshToken,
     SetRefreshToken, StoreSession, Respond, Request
<1> QED
  BY <1>2, <1>3, <1>4 DEF TokenStep, Serve

LEMMA TokenKeepsCalled ==
  ASSUME AgreeInv, NEW r \in Requests, TokenStep(r)
  PROVE  Called'
<1>1. ASSUME NEW s PROVE Delivered(s)' <=> Delivered(s)
  BY DEF TokenStep, loginVars, Delivered, Code
<1>2. ASSUME NEW q \in Requests, req'[q].session # NULL
      PROVE  Delivered(req[q].session)'
  <2>1. PICK s : s = req'[q].session
    OBVIOUS
  <2>2. Delivered(s)
    BY <1>2, <2>1, SessionFound DEF AgreeInv, Called
  <2> QED
    BY <1>1, <2>1, <2>2 DEF Delivered, Code
<1>3. ASSUME NEW token \in Jwts, storeRefresh'[token] # NULL
      PROVE  Delivered(storeRefresh[token])'
  <2>1. PICK s : s = storeRefresh'[token]
    OBVIOUS
  <2>2. s = storeRefresh[token] \/ (StoreSession(r) /\ s = req[r].session)
    <3>1. /\ storeRefresh \in [RefreshTokens -> Sessions \cup {NULL}]
          /\ token \in RefreshTokens
      BY TokenAssumption DEF AgreeInv, AuthInv, LoginInv, TypeOK, ServiceTypeOK
    <3>2. CASE Consume(r)
      BY <1>3, <2>1, <3>1, <3>2 DEF Consume, ConsumeRefreshToken
    <3>3. CASE StoreSession(r)
      BY <2>1, <3>1, <3>3 DEF StoreSession, Store
    <3>4. CASE UNCHANGED storeRefresh
      BY <2>1, <3>4
    <3> QED
      BY <3>2, <3>3, <3>4 DEF TokenStep, Serve, PostCode, Exchange, Refresh, Refuse,
         CreateIdToken, CreateAccessToken, CreateRefreshToken, SetRefreshToken, Respond,
         storeVars
  <2>3. s # NULL
    BY <1>3, <2>1
  <2>4. Delivered(s)
    BY <2>2, <2>3 DEF AgreeInv, Called
  <2> QED
    BY <1>1, <2>1, <2>4 DEF Delivered, Code
<1> QED
  BY <1>2, <1>3 DEF Called

LEMMA TokenKeepsNamed ==
  ASSUME AgreeInv, NEW r \in Requests, TokenStep(r)
  PROVE  NamedAsDelivered'
<1> SUFFICES ASSUME NEW d \in delivered, NEW s \in Sessions, d.code = Code(s), Live(s)'
             PROVE  heap'[s].userIdentification = d.subject
  BY DEF NamedAsDelivered, Carries, Code, TokenStep, loginVars
<1>1. SameObject(s)
  BY TokenKeepsObjects DEF AgreeInv
<1>2. Live(s) /\ heap'[s].userIdentification = heap[s].userIdentification
  BY <1>1 DEF SameObject, Live
<1> QED
  BY <1>2 DEF AgreeInv, NamedAsDelivered, Carries

\* A token that is made names whoever the session of its request names.
LEMMA SubjectMade ==
  ASSUME AuthInv, NEW r \in Requests, TokenStep(r), req'[r].session = req[r].session
  PROVE  \/ Subject(r)' \subseteq Subject(r)
         \/ /\ req[r].at \in Working
            /\ Subject(r)' \subseteq Subject(r) \cup {userIdentification(r)}
<1>1. req \in [Requests -> Request]
  BY DEF AuthInv
<1>2. ASSUME NEW s \in Sessions, PostCode(r, s)
      PROVE  Subject(r)' = {}
  <2>1. ASSUME NEW client, NEW uri, NEW grant, NEW url,
               Exchange(r, s, client, uri, grant, url)
        PROVE  Subject(r)' = {}
    BY <1>1, <2>1 DEF Exchange, NewRequest, Subject
  <2>2. ASSUME NEW client, NEW token, Refresh(r, s, client, token)
        PROVE  Subject(r)' = {}
    BY <1>1, <2>2 DEF Refresh, NewRequest, Subject
  <2> QED
    BY <1>2, <2>1, <2>2 DEF PostCode
<1>3. CASE Refuse(r) \/ Consume(r) \/ CreateRefreshToken(r) \/ SetRefreshToken(r)
           \/ StoreSession(r) \/ Respond(r)
  <2>1. CASE Refuse(r) \/ Respond(r) \/ SetRefreshToken(r) \/ StoreSession(r)
    BY <1>1, <2>1 DEF Refuse, SetRefreshToken, StoreSession, Respond, Request, Subject
  <2>2. CASE Consume(r)
    BY <1>1, <2>2 DEF Consume, Request, Subject
  <2>3. CASE CreateRefreshToken(r)
    BY <1>1, <2>3 DEF CreateRefreshToken, Request, Subject
  <2> QED
    BY <1>3, <2>1, <2>2, <2>3
<1>4. CASE CreateIdToken(r)
  BY <1>1, <1>4 DEF CreateIdToken, Request, Subject, Working, Creating, Storing
<1>5. CASE CreateAccessToken(r)
  BY <1>1, <1>5 DEF CreateAccessToken, Request, Subject, Working, Creating, Storing
<1> QED
  BY <1>2, <1>3, <1>4, <1>5 DEF TokenStep, Serve

LEMMA TokenKeepsAgreed ==
  ASSUME AgreeInv, NEW r \in Requests, TokenStep(r)
  PROVE  TokensAgree'
<1> SUFFICES ASSUME NEW q \in Requests, NEW d \in delivered, AnswersFor(q, d)'
             PROVE  Subject(q)' \subseteq {d.subject}
  BY DEF TokensAgree, TokenStep, loginVars
<1>1. AuthInv
  BY DEF AgreeInv
<1>2. CASE q # r
  <2>1. req'[q] = req[q]
    BY <1>2, SessionFound
  <2> QED
    BY <2>1 DEF AgreeInv, TokensAgree, AnswersFor, Subject
<1>3. ASSUME q = r, req'[r].session = req[r].session
      PROVE  Subject(r)' \subseteq {d.subject}
  <2>1. PICK s : s = req[r].session
    OBVIOUS
  <2>2. d.code = Code(s) /\ s # NULL
    BY <1>3, <2>1 DEF AnswersFor
  <2>3. Subject(r) \subseteq {d.subject}
    BY <2>1, <2>2 DEF AgreeInv, TokensAgree, AnswersFor
  <2>4. ASSUME req[r].at \in Working
        PROVE  userIdentification(r) = d.subject
    <3>1. s \in Sessions /\ Live(s)
      BY <1>1, <2>1, <2>4, WorkingSession DEF Live
    <3>2. heap[s].userIdentification = d.subject
      BY <2>2, <3>1 DEF AgreeInv, NamedAsDelivered, Carries
    <3> QED
      BY <2>1, <3>2 DEF userIdentification
  <2> QED
    BY <1>1, <1>3, <2>3, <2>4, SubjectMade
<1> QED
  BY <1>2, <1>3, SessionFound

LEMMA TokenTurnAgrees ==
  ASSUME AgreeInv, NEW r \in Requests, TokenStep(r)
  PROVE  AgreeInv'
<1>1. AuthInv'
  BY TokenTurn DEF AgreeInv
<1>2. LaunchInv'
  BY <1>1, TokenKeepsObjects, LaunchInvKept DEF AgreeInv, AuthInv, TokenStep
<1> QED
  BY <1>1, <1>2, TokenKeepsCalled, TokenKeepsNamed, TokenKeepsAgreed DEF AgreeInv

-----------------------------------------------------------------------------
LEMMA LoginTurnAgrees ==
  ASSUME Undisturbed, AgreeInv, LoginTurn
  PROVE  AgreeInv'
<1>1. AuthInv /\ LaunchInv /\ [Next]_vars /\ UNCHANGED req
  BY LoginTurnIsStep DEF AgreeInv
<1>2. AuthInv' /\ LaunchInv'
  BY <1>1, LoginTurnKeeps, LaunchStep
<1>3. ASSUME NEW token \in Jwts
      PROVE  storeRefresh'[token] = storeRefresh[token]
  <2>1. ASSUME NEW t \in Tabs, NEW l \in Launches, AuthorizeStore(t, l)
        PROVE  storeRefresh'[token] = storeRefresh[token]
    <3>1. PICK s \in Sessions : Store(s, RandomToken[s])
      BY <2>1 DEF AuthorizeStore
    <3>2. token # RandomToken[s] /\ token \in RefreshTokens
      BY TokenAssumption
    <3> QED
      BY <1>1, <3>1, <3>2 DEF Store, AuthInv, LoginInv, TypeOK, ServiceTypeOK
  <2> QED
    BY <2>1, StoredByLogin
<1>4. Called'
  BY <1>1, <1>3, LoginKeepsCalled
<1>5. NamedAsDelivered' /\ TokensAgree'
  BY <1>1, LoginKeepsNamed, LoginKeepsAgreed DEF Subject
<1> QED
  BY <1>2, <1>4, <1>5 DEF AgreeInv

LEMMA PassesAgrees ==
  ASSUME Undisturbed, AgreeInv, Passes
  PROVE  AgreeInv'
<1>1. /\ UNCHANGED <<heap, storeRefresh, req, loginVars>> /\ UNCHANGED vars
  BY DEF Passes, Tick, storeVars, vars
<1>2. AuthInv' /\ LaunchInv'
  BY <1>1, PassesTurn, LaunchStep DEF AgreeInv
<1>3. Called' /\ NamedAsDelivered' /\ TokensAgree'
  BY <1>1, LoginKeepsCalled, LoginKeepsNamed, LoginKeepsAgreed DEF Subject
<1> QED
  BY <1>2, <1>3 DEF AgreeInv

LEMMA RestartAgrees ==
  ASSUME Undisturbed, AgreeInv, RestartAll
  PROVE  AgreeInv'
<1>1. Restart /\ Crash /\ [Next]_vars
  BY DEF RestartAll, Next
<1>2. AuthInv' /\ LaunchInv'
  BY <1>1, RestartTurn, LaunchStep DEF AgreeInv
<1>3. ASSUME NEW r \in Requests
      PROVE  req'[r].session = req[r].session /\ UNCHANGED Subject(r)
  BY <1>1 DEF Crash, Subject, AgreeInv, AuthInv, Request
<1>4. \A token \in Jwts : storeRefresh'[token] = NULL
  BY <1>1, TokenAssumption DEF Restart, ServiceRestart, Unstored
<1>5. Called' /\ NamedAsDelivered' /\ TokensAgree'
  BY <1>1, <1>3, <1>4, LoginKeepsCalled, LoginKeepsNamed, LoginKeepsAgreed
<1> QED
  BY <1>2, <1>5 DEF AgreeInv

(***************************************************************************)
(* While no browser has two tabs and none mixes /oauth2/authorize with /,  *)
(* the id and access tokens of a session, first or refreshed (getIdToken   *)
(* and getOidcToken read the identification anew for each), name the       *)
(* person whom the page that brought the code has identified.              *)
(***************************************************************************)
THEOREM TokensAgreeing ==
  ASSUME Undisturbed
  PROVE  AuthSpec => []TokensAgree
<1>1. AuthInit => AgreeInv
  BY AgreeInitially
<1>2. AgreeInv /\ [AuthNext]_authVars => AgreeInv'
  BY LoginTurnAgrees, TokenTurnAgrees, PassesAgrees, RestartAgrees DEF AuthNext, LoginTurn
<1>3. AgreeInv => TokensAgree
  BY DEF AgreeInv
<1>4. QED
  BY <1>1, <1>2, <1>3, PTL DEF AuthSpec
=============================================================================
