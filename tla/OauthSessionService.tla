------------------------ MODULE OauthSessionService ------------------------
(***************************************************************************)
(* The OauthSession objects of the authorization server and the three      *)
(* java.util.HashMaps of oauth/service/OauthSessionService.java that index *)
(* them: by id, by authorization code, by refresh token.                   *)
(*                                                                         *)
(* The service is a singleton shared by every request thread and takes no  *)
(* lock.  A HashMap that two threads use at once is undefined: a put can   *)
(* be lost, a resize can drop entries that were already there, and a get   *)
(* can miss an entry that is there.  StoreRaces says whether other traffic *)
(* may overlap the accesses modelled here; when it does, a get may miss.   *)
(*                                                                         *)
(* random UUIDs never collide, so the id and the code an object draws are  *)
(* named after the object.                                                 *)
(***************************************************************************)

CONSTANTS
  Sessions,      \* OauthSession objects the JVM may allocate (bound)
  Launches,      \* requests that open a login page, see LoginFlow
  Browsers,
  Values,        \* attribute values a wallet can disclose
  RefreshTokens, \* strings that can key STORE_REFRESH_TOKEN
  RandomToken,   \* RandomToken[s]: the UUID object s draws as refresh token
  Empty,         \* the empty string
  NULL,          \* Java's null
  Gone,          \* an object of a JVM that has ended
  StoreRaces     \* may accesses to the maps overlap with other traffic?

ASSUME SessionServiceAssumption ==
  /\ StoreRaces \in BOOLEAN
  /\ RandomToken \in [Sessions -> RefreshTokens]
  /\ NULL \notin Sessions /\ NULL # Gone

VARIABLES
  heap,          \* the OauthSession objects
  storeId,       \* STORE_ID
  storeCode,     \* STORE_CODE
  storeRefresh   \* STORE_REFRESH_TOKEN

storeVars == <<storeId, storeCode, storeRefresh>>

Id(s)   == <<"id", s>>
Code(s) == <<"code", s>>
Ids     == {Id(s) : s \in Sessions}
Codes   == {Code(s) : s \in Sessions}

Subjects == Values \cup {Empty}

(***************************************************************************)
(* An OauthSession: what the authorization request said, who was           *)
(* identified, and the current refresh token.  openedBy is history: the    *)
(* browser that sent the authorization request.                            *)
(***************************************************************************)
OauthSession ==
  [request: Launches, userIdentification: Subjects \cup {NULL},
   refreshToken: RefreshTokens, openedBy: Browsers]

ASSUME ObjectAssumption ==
  /\ NULL \notin OauthSession /\ Gone \notin OauthSession
  /\ NULL \notin Ids /\ NULL \notin Codes /\ NULL \notin Subjects

\* Mutant: no refresh token before the token endpoint makes one.
NewOauthSessionWithoutToken(s, request, browser) ==
  [request |-> request, userIdentification |-> NULL,
   refreshToken |-> NULL, openedBy |-> browser]

NewOauthSession(s, request, browser) ==
  [request |-> request, userIdentification |-> NULL,
   refreshToken |-> RandomToken[s], openedBy |-> browser]

Live(s) == heap[s] \notin {NULL, Gone}

(***************************************************************************)
(* What HashMap.get may return.  An entry that a race lost is an entry     *)
(* that every later get misses, so the puts below need not lose anything.  *)
(* (Not covered: a lost put that was to replace another session's entry,   *)
(* possible only for a refresh token that two sessions share.)             *)
(***************************************************************************)
Gets(map, key) == IF StoreRaces THEN {map[key], NULL} ELSE {map[key]}

RetrieveById(id)     == Gets(storeId, id)
RetrieveByCode(code) == Gets(storeCode, code)

\* Mutant: the token is looked up but stays.
LookUpRefreshToken(token, s) ==
  /\ s \in Gets(storeRefresh, token)
  /\ UNCHANGED storeRefresh

\* consumeRefreshToken() returns s, or NULL, and forgets the token.
ConsumeRefreshToken(token, s) ==
  /\ s \in Gets(storeRefresh, token)
  /\ storeRefresh' = [storeRefresh EXCEPT ![token] = NULL]

\* Mutants: the code, or the id, is not indexed.
StoreWithoutId(s, token) ==
  /\ storeCode'    = [storeCode EXCEPT ![Code(s)] = s]
  /\ storeRefresh' = [storeRefresh EXCEPT ![token] = s]
  /\ UNCHANGED storeId

StoreWithoutCode(s, token) ==
  /\ storeId'      = [storeId EXCEPT ![Id(s)] = s]
  /\ storeRefresh' = [storeRefresh EXCEPT ![token] = s]
  /\ UNCHANGED storeCode

\* store(): the three puts.  token is what getRefreshToken() returned.
Store(s, token) ==
  /\ storeId'      = [storeId EXCEPT ![Id(s)] = s]
  /\ storeCode'    = [storeCode EXCEPT ![Code(s)] = s]
  /\ storeRefresh' = [storeRefresh EXCEPT ![token] = s]

Unstored(keys) == [k \in keys |-> NULL]

ServiceTypeOK ==
  /\ heap \in [Sessions -> OauthSession \cup {NULL, Gone}]
  /\ storeId \in [Ids -> Sessions \cup {NULL}]
  /\ storeCode \in [Codes -> Sessions \cup {NULL}]
  /\ storeRefresh \in [RefreshTokens -> Sessions \cup {NULL}]

ServiceInit ==
  /\ heap = [s \in Sessions |-> NULL]
  /\ storeId = Unstored(Ids)
  /\ storeCode = Unstored(Codes)
  /\ storeRefresh = Unstored(RefreshTokens)

\* A restart of the process: the objects and the maps were only in memory.
ServiceRestart ==
  /\ heap' = [s \in Sessions |-> IF heap[s] = NULL THEN NULL ELSE Gone]
  /\ storeId' = Unstored(Ids)
  /\ storeCode' = Unstored(Codes)
  /\ storeRefresh' = Unstored(RefreshTokens)
=============================================================================
