-------------------------- MODULE LoginFlowProofs --------------------------
(***************************************************************************)
(* What holds of LoginFlow for every number of browsers, tabs, sessions,   *)
(* launches and attributes, with races on the maps and with every fault.   *)
(***************************************************************************)
EXTENDS LoginProperties, TLAPS

(***************************************************************************)
(* The inductive invariant.                                                *)
(***************************************************************************)
\* STORE_ID maps an id to the object that has it, if to any.
StoreInv ==
  \A s \in Sessions :
    storeId[Id(s)] # NULL => storeId[Id(s)] = s /\ Live(s)

Owns(b, s) == Live(s) /\ heap[s].openedBy = b

\* An HttpSession only ever holds an OauthSession its own browser opened.
HttpSessionInv ==
  \A b \in Browsers, s \in Sessions :
    httpSession[b].oauthSession = Id(s) => Owns(b, s)

IrmaInv ==
  \A k \in RequestorTokens :
    (irma[k] # NULL /\ irma[k].status = "done") => irma[k].disclosed \in Values

\* The IRMA session a page runs is its browser's; a result it posts is there.
PageInv(t) ==
  /\ tab[t].at \in Launching => tab[t].launch \in Launches
  /\ tab[t].at = "setSession" => tab[t].oauthSession # NULL
  /\ tab[t].at \notin {"setSession", "answering"} => tab[t].oauthSession = NULL
  /\ \A s \in Sessions : tab[t].oauthSession = Id(s) => Owns(BrowserOf[t], s)
  /\ tab[t].at \in {"waiting"} \cup Ending =>
       /\ tab[t].token \in RequestorTokens
       /\ irma[tab[t].token] # NULL
       /\ irma[tab[t].token].browser = BrowserOf[t]
  /\ tab[t].at \in Ending => irma[tab[t].token].status = "done"
  /\ tab[t].at = "answering" =>
       tab[t].userIdentification \in {irma[tab[t].token].disclosed, Empty}

TabInv == \A t \in Tabs : PageInv(t)

\* Who is identified for an OauthSession disclosed that in its browser.
HeapInv ==
  \A s \in Sessions :
    Live(s) =>
      heap[s].userIdentification \in Disclosed(heap[s].openedBy) \cup {Empty, NULL}

DeliveredInv ==
  \A d \in delivered :
    /\ d.subject \in Disclosed(d.browser) \cup {Empty}
    /\ \A s \in Sessions :
         d.code = Code(s) =>
           /\ heap[s] # NULL
           /\ Live(s) =>
                /\ heap[s].openedBy = d.browser
                /\ heap[s].request.redirectUri = d.uri
                /\ heap[s].request.state = d.state
                /\ heap[s].userIdentification # NULL

LoginInv ==
  /\ TypeOK /\ StoreInv /\ HttpSessionInv /\ IrmaInv /\ TabInv
  /\ HeapInv /\ DeliveredInv

-----------------------------------------------------------------------------
LEMMA PageType ==
  ASSUME NEW at \in Launching \cup Ending \cup Showing,
         NEW launch \in Launches \cup {NULL}
  PROVE  Page(at, launch) \in Tab
BY DEF Page, Tab

LEMMA DefaultType ==
  ASSUME NEW a \in Attributes \cup {NULL}
  PROVE  OrDefault(a) \in Attributes
BY LoginAssumption DEF OrDefault

LEMMA SessionType ==
  ASSUME TypeOK, NEW t \in Tabs
  PROVE  /\ session(t) \in HttpSession
         /\ BrowserOf[t] \in Browsers
         /\ tab[t] \in Tab
BY LoginAssumption DEF TypeOK, session

\* What opening a page does, whichever links the tab's user may follow.
LEMMA LaunchSteps ==
  ASSUME NEW t \in Tabs, Launch(t)
  PROVE  \E l \in Launches :
           AuthorizeRefused(t, l) \/ AuthorizeStore(t, l) \/ IndexSetRedirect(t, l)
BY LoginAssumption DEF Launch

LEMMA InitInv == Init => LoginInv
<1> SUFFICES ASSUME Init PROVE LoginInv
  OBVIOUS
<1> USE DEF Init, ServiceInit, LoginInit, Unstored
<1>1. TypeOK
  BY PageType DEF TypeOK, ServiceTypeOK, HttpSession, NoAttributes, Showing
<1>2. StoreInv
  BY DEF StoreInv, Ids, Id
<1>3. HttpSessionInv
  BY ObjectAssumption DEF HttpSessionInv, NoAttributes, Ids
<1>4. IrmaInv
  BY DEF IrmaInv
<1>5. TabInv
  BY ObjectAssumption DEF TabInv, PageInv, Page, Launching, Ending, Ids
<1>6. HeapInv /\ DeliveredInv
  BY DEF HeapInv, DeliveredInv, Live
<1>7. QED
  BY <1>1, <1>2, <1>3, <1>4, <1>5, <1>6 DEF LoginInv

-----------------------------------------------------------------------------
LEMMA PageChange ==
  ASSUME TypeOK, NEW t \in Tabs, NEW page \in Tab,
         tab' = [tab EXCEPT ![t] = page]
  PROVE  tab' \in [Tabs -> Tab]
BY DEF TypeOK

LEMMA SessionChange ==
  ASSUME TypeOK, NEW t \in Tabs, NEW new \in HttpSession, SetAttribute(t, new)
  PROVE  httpSession' \in [Browsers -> HttpSession]
BY DEF TypeOK, SetAttribute

\* Looking an id up yields the object that has it.
LEMMA Retrieved ==
  ASSUME TypeOK, StoreInv, NEW s \in Sessions,
         NEW o \in RetrieveById(Id(s)) \ {NULL}
  PROVE  o = s /\ Live(s) /\ heap[s] \in OauthSession
BY DEF RetrieveById, Gets, StoreInv, Live, TypeOK, ServiceTypeOK

LEMMA ResultType ==
  ASSUME LoginInv, NEW t \in Tabs, tab[t].at \in Ending
  PROVE  /\ irma[tab[t].token] \in IrmaSession
         /\ irma[tab[t].token].disclosed \in Values
         /\ tab[t].token \in RequestorTokens
BY DEF LoginInv, TypeOK, TabInv, PageInv, IrmaInv

LEMMA AnsweringType ==
  ASSUME LoginInv, NEW t \in Tabs, tab[t].at = "answering"
  PROVE  tab[t].userIdentification \in Subjects
BY ResultType DEF LoginInv, TabInv, PageInv, Subjects, Ending

-----------------------------------------------------------------------------
(***************************************************************************)
(* Preservation, one conjunct of the invariant at a time.                  *)
(***************************************************************************)
LEMMA TypeStep == LoginInv /\ [Next]_vars => TypeOK'
<1> SUFFICES ASSUME LoginInv, [Next]_vars PROVE TypeOK'
  OBVIOUS
<1> TypeOK /\ StoreInv
  BY DEF LoginInv
<1> USE DEF ServiceTypeOK, vars, storeVars, loginVars
<1>1. ASSUME NEW t \in Tabs, NEW l \in Launches, AuthorizeRefused(t, l)
      PROVE  TypeOK'
  BY <1>1, PageType, PageChange DEF AuthorizeRefused, TypeOK, Showing
<1>2. ASSUME NEW t \in Tabs, NEW l \in Launches, AuthorizeStore(t, l)
      PROVE  TypeOK'
  <2>1. PICK s \in Sessions :
          /\ heap' = [heap EXCEPT ![s] = NewOauthSession(s, l, BrowserOf[t])]
          /\ Store(s, RandomToken[s])
          /\ tab' = [tab EXCEPT ![t] =
                       [Page("setSession", l) EXCEPT !.oauthSession = Id(s)]]
    BY <1>2 DEF AuthorizeStore
  <2>2. NewOauthSession(s, l, BrowserOf[t]) \in OauthSession
    BY SessionType, SessionServiceAssumption DEF NewOauthSession, OauthSession
  <2>3. heap' \in [Sessions -> OauthSession \cup {NULL, Gone}]
    BY <2>1, <2>2 DEF TypeOK
  <2>4. /\ storeId' \in [Ids -> Sessions \cup {NULL}]
        /\ storeCode' \in [Codes -> Sessions \cup {NULL}]
        /\ storeRefresh' \in [RefreshTokens -> Sessions \cup {NULL}]
    BY <2>1 DEF Store, TypeOK
  <2>5. [Page("setSession", l) EXCEPT !.oauthSession = Id(s)] \in Tab
    BY DEF Page, Tab, Launching, Ids
  <2>6. tab' \in [Tabs -> Tab]
    BY <2>1, <2>5, PageChange
  <2>7. QED
    BY <1>2, <2>3, <2>4, <2>6 DEF TypeOK, AuthorizeStore
<1>3. ASSUME NEW t \in Tabs, AuthorizeSetSession(t)
      PROVE  TypeOK'
  <2>1. tab[t].launch \in Launches /\ tab[t].oauthSession \in Ids
    BY <1>3, SessionType DEF AuthorizeSetSession, LoginInv, TabInv, PageInv, Launching, Tab
  <2>2. [session(t) EXCEPT !.oauthSession = tab[t].oauthSession] \in HttpSession
    BY <2>1, SessionType DEF HttpSession
  <2>3. Page("setRedirect", tab[t].launch) \in Tab
    BY <2>1, PageType DEF Launching
  <2>4. QED
    BY <1>3, <2>2, <2>3, PageChange, SessionChange DEF AuthorizeSetSession, TypeOK
<1>4. ASSUME NEW t \in Tabs, AuthorizeSetRedirect(t)
      PROVE  TypeOK'
  <2>1. tab[t].launch \in Launches
    BY <1>4 DEF AuthorizeSetRedirect, LoginInv, TabInv, PageInv, Launching
  <2>2. [session(t) EXCEPT !.redirectUri = tab[t].launch.redirectUri] \in HttpSession
    BY <2>1, SessionType DEF HttpSession
  <2>3. [tab[t] EXCEPT !.at = "setAttribute"] \in Tab
    BY SessionType DEF Tab, Launching
  <2>4. QED
    BY <1>4, <2>2, <2>3, PageChange, SessionChange DEF AuthorizeSetRedirect, TypeOK
<1>5. ASSUME NEW t \in Tabs, AuthorizeSetAttribute(t)
      PROVE  TypeOK'
  <2>1. OrDefault(tab[t].launch.attribute) \in Attributes
    BY <1>5, LoginAssumption, DefaultType
       DEF AuthorizeSetAttribute, LoginInv, TabInv, PageInv, Launching
  <2>2. [session(t) EXCEPT !.attribute = OrDefault(tab[t].launch.attribute)]
          \in HttpSession
    BY <2>1, SessionType DEF HttpSession
  <2>3. [tab[t] EXCEPT !.at = "ready"] \in Tab
    BY SessionType DEF Tab, Showing
  <2>4. QED
    BY <1>5, <2>2, <2>3, PageChange, SessionChange DEF AuthorizeSetAttribute, TypeOK
<1>6. ASSUME NEW t \in Tabs, NEW l \in Launches, IndexSetRedirect(t, l)
      PROVE  TypeOK'
  <2>1. [session(t) EXCEPT !.redirectUri = l.redirectUri] \in HttpSession
    BY SessionType DEF HttpSession
  <2>2. Page("checkLaunch", l) \in Tab
    BY PageType DEF Launching
  <2>3. QED
    BY <1>6, <2>1, <2>2, PageChange, SessionChange DEF IndexSetRedirect, TypeOK
<1>7. ASSUME NEW t \in Tabs, IndexSetAttribute(t)
      PROVE  TypeOK'
  <2>1. tab[t].launch \in Launches
    BY <1>7 DEF IndexSetAttribute, LoginInv, TabInv, PageInv, Launching
  <2>2. [session(t) EXCEPT !.attribute = OrDefault(tab[t].launch.attribute)]
          \in HttpSession
    BY <2>1, LoginAssumption, DefaultType, SessionType DEF HttpSession
  <2>3. Page("ready", tab[t].launch) \in Tab /\ Page("blank", NULL) \in Tab
    BY <2>1, PageType DEF Showing
  <2>4. QED
    BY <1>7, <2>2, <2>3, PageChange, SessionChange DEF IndexSetAttribute, TypeOK
<1>8. ASSUME NEW t \in Tabs, StartSession(t)
      PROVE  TypeOK'
  <2> DEFINE attribute == OrDefault(session(t).attribute)
  <2>1. attribute \in Attributes
    BY SessionType, DefaultType DEF HttpSession
  <2>2. PICK k \in RequestorTokens :
          /\ irma' = [irma EXCEPT ![k] =
                        [browser |-> BrowserOf[t], attribute |-> attribute,
                         status |-> "initialized", disclosed |-> NULL]]
          /\ tab' = [tab EXCEPT ![t] = [@ EXCEPT !.at = "waiting", !.token = k]]
    BY <1>8 DEF StartSession
  <2>3. irma' \in [RequestorTokens -> IrmaSession \cup {NULL}]
    BY <2>1, <2>2, SessionType DEF IrmaSession, TypeOK
  <2>4. [tab[t] EXCEPT !.at = "waiting", !.token = k] \in Tab
    BY SessionType DEF Tab, Showing
  <2>5. tab' \in [Tabs -> Tab]
    BY <2>2, <2>4, PageChange
  <2>6. QED
    BY <1>8, <2>3, <2>5 DEF StartSession, TypeOK
<1>9. ASSUME NEW t \in Tabs, StartSessionFails(t)
      PROVE  TypeOK'
  <2>1. [tab[t] EXCEPT !.at = "stopped"] \in Tab
    BY SessionType DEF Tab, Showing
  <2>2. QED
    BY <1>9, <2>1, PageChange DEF StartSessionFails, TypeOK
<1>10. ASSUME NEW k \in RequestorTokens, Disclose(k)
       PROVE  TypeOK'
  <2>1. PICK v \in Wallet[irma[k].browser][irma[k].attribute] :
          irma' = [irma EXCEPT ![k] = [@ EXCEPT !.status = "done", !.disclosed = v]]
    BY <1>10 DEF Disclose
  <2>2. irma[k] \in IrmaSession
    BY <1>10 DEF Disclose, TypeOK
  <2>3. v \in Values
    BY <2>2, LoginAssumption DEF IrmaSession
  <2>4. [irma[k] EXCEPT !.status = "done", !.disclosed = v] \in IrmaSession
    BY <2>2, <2>3 DEF IrmaSession
  <2>5. QED
    BY <1>10, <2>1, <2>4 DEF Disclose, TypeOK
<1>11. ASSUME NEW k \in RequestorTokens, CancelOrTimeout(k)
       PROVE  TypeOK'
  BY <1>11 DEF CancelOrTimeout, TypeOK, IrmaSession
<1>12. ASSUME NEW t \in Tabs, PageStops(t)
       PROVE  TypeOK'
  BY <1>12, PageType, PageChange, SessionType DEF PageStops, TypeOK, Tab, Showing
<1>13. ASSUME NEW t \in Tabs, EndSession(t)
       PROVE  TypeOK'
  <2>1. OrDefault(session(t).attribute) \in Attributes
    BY SessionType, DefaultType DEF HttpSession
  <2>2. [tab[t] EXCEPT !.at = "fetching",
                       !.attribute = OrDefault(session(t).attribute)] \in Tab
    BY <2>1, SessionType DEF Tab, Ending
  <2>3. QED
    BY <1>13, <2>2, PageChange DEF EndSession, TypeOK
<1>14. ASSUME NEW t \in Tabs, EndFetchResult(t)
       PROVE  TypeOK'
  <2>1. Matched(irma[tab[t].token], tab[t].attribute) \in Subjects
    BY <1>14, ResultType DEF Matched, EndFetchResult, Subjects, Ending
  <2>2. [tab[t] EXCEPT
           !.at = "answering",
           !.userIdentification = Matched(irma[tab[t].token], tab[t].attribute),
           !.oauthSession = session(t).oauthSession] \in Tab
    BY <2>1, SessionType DEF Tab, Ending, HttpSession
  <2>3. QED
    BY <1>14, <2>2, PageChange DEF EndFetchResult, TypeOK
<1>15. ASSUME NEW t \in Tabs, EndFetchFails(t)
       PROVE  TypeOK'
  BY <1>15, PageType, PageChange, SessionType DEF EndFetchFails, TypeOK, Tab, Showing
<1>16. ASSUME NEW t \in Tabs, NEW redirect \in Redirect, Answer(t, redirect)
       PROVE  /\ tab' \in [Tabs -> Tab]
              /\ delivered' \in SUBSET Redirect
  BY <1>16, PageType, PageChange, SessionType DEF Answer, TypeOK, Tab, Showing
<1>17. ASSUME NEW t \in Tabs, EndAnswerCode(t)
       PROVE  TypeOK'
  <2>1. PICK s \in RetrieveById(tab[t].oauthSession) \ {NULL} :
          /\ heap' = [heap EXCEPT ![s].userIdentification = tab[t].userIdentification]
          /\ Answer(t, [browser |-> BrowserOf[t], launch |-> tab[t].launch,
                        uri     |-> heap[s].request.redirectUri,
                        code    |-> Code(s), state |-> heap[s].request.state,
                        subject |-> tab[t].userIdentification])
    BY <1>17 DEF EndAnswerCode
  <2>2. tab[t].oauthSession \in Ids
    BY <1>17, SessionType DEF EndAnswerCode, Tab
  <2>3. s \in Sessions /\ heap[s] \in OauthSession
    BY <2>2, Retrieved DEF Ids
  <2>4. tab[t].userIdentification \in Subjects
    BY <1>17, AnsweringType DEF EndAnswerCode
  <2>5. heap' \in [Sessions -> OauthSession \cup {NULL, Gone}]
    BY <2>1, <2>3, <2>4 DEF TypeOK, OauthSession
  <2>6. [browser |-> BrowserOf[t], launch |-> tab[t].launch,
         uri     |-> heap[s].request.redirectUri,
         code    |-> Code(s), state |-> heap[s].request.state,
         subject |-> tab[t].userIdentification] \in Redirect
    BY <2>3, <2>4, SessionType DEF Redirect, OauthSession, Codes, Tab
  <2>7. tab' \in [Tabs -> Tab] /\ delivered' \in SUBSET Redirect
    BY <1>16, <2>1, <2>6
  <2>8. QED
    BY <1>17, <2>5, <2>7 DEF EndAnswerCode, TypeOK
<1>18. ASSUME NEW t \in Tabs, EndAnswerUnknown(t)
       PROVE  TypeOK'
  BY <1>18, PageType, PageChange, SessionType
     DEF EndAnswerUnknown, TypeOK, Tab, Showing
<1>19. ASSUME NEW t \in Tabs, EndAnswerToken(t)
       PROVE  TypeOK'
  <2>1. tab[t].userIdentification \in Subjects
    BY <1>19, AnsweringType DEF EndAnswerToken
  <2>2. [browser |-> BrowserOf[t], launch |-> tab[t].launch,
         uri     |-> session(t).redirectUri, code |-> NULL, state |-> NULL,
         subject |-> tab[t].userIdentification] \in Redirect
    BY <1>19, <2>1, SessionType DEF EndAnswerToken, Redirect, HttpSession, Tab
  <2>3. QED
    BY <1>16, <1>19, <2>2 DEF EndAnswerToken, TypeOK
<1>20. ASSUME NEW t \in Tabs, EndAnswerNowhere(t)
       PROVE  TypeOK'
  BY <1>20, PageType, PageChange DEF EndAnswerNowhere, TypeOK, Showing
<1>21. ASSUME NEW b \in Browsers, SessionExpires(b)
       PROVE  TypeOK'
  BY <1>21 DEF SessionExpires, TypeOK, HttpSession, NoAttributes
<1>22. ASSUME Restart
       PROVE  TypeOK'
  <2>1. ServiceTypeOK'
    BY <1>22 DEF Restart, ServiceRestart, Unstored, TypeOK
  <2>2. ASSUME NEW t \in Tabs
        PROVE  /\ Page("blank", NULL) \in Tab
               /\ Page("stopped", tab[t].launch) \in Tab
               /\ tab[t] \in Tab
    BY PageType, SessionType DEF Tab, Showing
  <2>3. tab' \in [Tabs -> Tab]
    BY <1>22, <2>2 DEF Restart
  <2>4. httpSession' \in [Browsers -> HttpSession]
    BY <1>22 DEF Restart, HttpSession, NoAttributes
  <2>5. QED
    BY <1>22, <2>1, <2>3, <2>4 DEF Restart, TypeOK
<1>23. CASE UNCHANGED vars
  BY <1>23 DEF TypeOK
<1>24. QED
  BY <1>1, <1>2, <1>3, <1>4, <1>5, <1>6, <1>7, <1>8, <1>9, <1>10, <1>11, <1>12,
     <1>13, <1>14, <1>15, <1>17, <1>18, <1>19, <1>20, <1>21, <1>22, <1>23,
     LaunchSteps
     DEF Next, LoginNext, Start, PageReacts, Handle, IrmaSettles

-----------------------------------------------------------------------------
(***************************************************************************)
(* Which actions can change what.                                          *)
(***************************************************************************)
LEMMA HeapChanges ==
  [Next]_vars =>
    \/ \E t \in Tabs, l \in Launches : AuthorizeStore(t, l)
    \/ \E t \in Tabs : EndAnswerCode(t)
    \/ Restart
    \/ UNCHANGED <<heap, storeId>>
BY LaunchSteps DEF Next, LoginNext, vars, storeVars, loginVars, Start, PageReacts, Handle,
  IrmaSettles, AuthorizeRefused, AuthorizeSetSession, AuthorizeSetRedirect,
  AuthorizeSetAttribute, IndexSetRedirect, IndexSetAttribute, StartSession,
  StartSessionFails, Disclose, CancelOrTimeout, PageStops, EndSession,
  EndFetchResult, EndFetchFails, EndAnswerUnknown, EndAnswerToken,
  EndAnswerNowhere, SessionExpires

LEMMA SessionChanges ==
  [Next]_vars =>
    \/ \E t \in Tabs : \/ AuthorizeSetSession(t) \/ AuthorizeSetRedirect(t)
                       \/ AuthorizeSetAttribute(t) \/ IndexSetAttribute(t)
    \/ \E t \in Tabs, l \in Launches : IndexSetRedirect(t, l)
    \/ \E b \in Browsers : SessionExpires(b)
    \/ Restart
    \/ UNCHANGED httpSession
BY LaunchSteps DEF Next, LoginNext, vars, storeVars, loginVars, Start, PageReacts, Handle,
  IrmaSettles, AuthorizeRefused, AuthorizeStore, StartSession,
  StartSessionFails, Disclose, CancelOrTimeout, PageStops, EndSession,
  EndFetchResult, EndFetchFails, EndAnswerCode, EndAnswerUnknown,
  EndAnswerToken, EndAnswerNowhere

LEMMA IrmaChanges ==
  [Next]_vars =>
    \/ \E t \in Tabs : StartSession(t)
    \/ \E k \in RequestorTokens : Disclose(k) \/ CancelOrTimeout(k)
    \/ UNCHANGED irma
BY LaunchSteps DEF Next, LoginNext, vars, storeVars, loginVars, Start, PageReacts, Handle,
  IrmaSettles, AuthorizeRefused, AuthorizeStore, AuthorizeSetSession,
  AuthorizeSetRedirect, AuthorizeSetAttribute, IndexSetRedirect,
  IndexSetAttribute, StartSessionFails, PageStops, EndSession, EndFetchResult,
  EndFetchFails, EndAnswerCode, EndAnswerUnknown, EndAnswerToken,
  EndAnswerNowhere, SessionExpires, Restart

LEMMA DeliveredChanges ==
  [Next]_vars =>
    \/ \E t \in Tabs : EndAnswerCode(t) \/ EndAnswerToken(t)
    \/ UNCHANGED delivered
BY LaunchSteps DEF Next, LoginNext, vars, storeVars, loginVars, Start, PageReacts, Handle,
  IrmaSettles, AuthorizeRefused, AuthorizeStore, AuthorizeSetSession,
  AuthorizeSetRedirect, AuthorizeSetAttribute, IndexSetRedirect,
  IndexSetAttribute, StartSession, StartSessionFails, Disclose,
  CancelOrTimeout, PageStops, EndSession, EndFetchResult, EndFetchFails,
  EndAnswerUnknown, EndAnswerNowhere, SessionExpires, Restart

-----------------------------------------------------------------------------
(***************************************************************************)
(* What a step leaves alone.                                               *)
(***************************************************************************)
\* An IRMA session stays its browser's, and its result stays what it is.
LEMMA IrmaStep ==
  ASSUME LoginInv, [Next]_vars, NEW k \in RequestorTokens, irma[k] # NULL
  PROVE  /\ irma'[k] # NULL
         /\ irma'[k].browser = irma[k].browser
         /\ irma'[k].attribute = irma[k].attribute
         /\ irma[k].status = "done" => irma'[k] = irma[k]
<1>1. irma \in [RequestorTokens -> IrmaSession \cup {NULL}]
  BY DEF LoginInv, TypeOK
<1>2. ASSUME NEW t \in Tabs, StartSession(t)
      PROVE  irma'[k] = irma[k]
  BY <1>1, <1>2 DEF StartSession
<1>3. ASSUME NEW j \in RequestorTokens, Disclose(j) \/ CancelOrTimeout(j)
      PROVE  /\ irma'[k] \in IrmaSession
             /\ irma'[k].browser = irma[k].browser
             /\ irma'[k].attribute = irma[k].attribute
             /\ irma[k].status = "done" => irma'[k] = irma[k]
  <2>1. irma' \in [RequestorTokens -> IrmaSession \cup {NULL}]
    BY TypeStep DEF TypeOK
  <2>2. irma[k] \in IrmaSession
    BY <1>1
  <2>3. CASE j # k
    BY <1>1, <1>3, <2>2, <2>3 DEF Disclose, CancelOrTimeout
  <2>4. ASSUME j = k, Disclose(k)
        PROVE  /\ irma'[k] \in IrmaSession /\ irma[k].status = "initialized"
               /\ irma'[k].browser = irma[k].browser
               /\ irma'[k].attribute = irma[k].attribute
    <3>1. PICK v \in Wallet[irma[k].browser][irma[k].attribute] :
            irma' = [irma EXCEPT ![k] = [@ EXCEPT !.status = "done", !.disclosed = v]]
      BY <2>4 DEF Disclose
    <3>2. irma'[k] = [irma[k] EXCEPT !.status = "done", !.disclosed = v]
      BY <1>1, <3>1
    <3>3. v \in Values
      BY <2>2, LoginAssumption DEF IrmaSession
    <3>4. QED
      BY <2>2, <2>4, <3>2, <3>3 DEF Disclose, IrmaSession
  <2>5. ASSUME j = k, CancelOrTimeout(k)
        PROVE  /\ irma'[k] \in IrmaSession /\ irma[k].status = "initialized"
               /\ irma'[k].browser = irma[k].browser
               /\ irma'[k].attribute = irma[k].attribute
    <3>1. irma'[k] = [irma[k] EXCEPT !.status = "over"]
      BY <1>1, <2>5 DEF CancelOrTimeout
    <3>2. QED
      BY <2>2, <2>5, <3>1 DEF CancelOrTimeout, IrmaSession
  <2>6. QED
    BY <1>3, <2>3, <2>4, <2>5
<1>4. QED
  BY <1>2, <1>3, IrmaChanges, IrmaAssumption

LEMMA DisclosedStep ==
  ASSUME LoginInv, [Next]_vars, NEW b \in Browsers
  PROVE  Disclosed(b) \subseteq Disclosed(b)'
BY IrmaStep DEF Disclosed

\* An OauthSession stays where it is, with the request that made it.
LEMMA HeapStep ==
  ASSUME LoginInv, [Next]_vars, NEW s \in Sessions, heap[s] # NULL
  PROVE  /\ heap'[s] # NULL
         /\ Live(s)' => /\ Live(s)
                        /\ heap'[s].openedBy = heap[s].openedBy
                        /\ heap'[s].request = heap[s].request
         /\ (Live(s) /\ ~Live(s)') => Restart
<1>1. heap \in [Sessions -> OauthSession \cup {NULL, Gone}]
  BY DEF LoginInv, TypeOK, ServiceTypeOK
<1>2. ASSUME NEW t \in Tabs, NEW l \in Launches, AuthorizeStore(t, l)
      PROVE  heap'[s] = heap[s]
  BY <1>1, <1>2 DEF AuthorizeStore
<1>3. ASSUME NEW t \in Tabs, EndAnswerCode(t)
      PROVE  \/ heap'[s] = heap[s]
             \/ /\ heap[s] \in OauthSession
                /\ heap'[s] =
                     [heap[s] EXCEPT !.userIdentification = tab[t].userIdentification]
                /\ tab[t].userIdentification \in Subjects
  <2>1. PICK o \in RetrieveById(tab[t].oauthSession) \ {NULL} :
          heap' = [heap EXCEPT ![o].userIdentification = tab[t].userIdentification]
    BY <1>3 DEF EndAnswerCode
  <2>2. tab[t].oauthSession \in Ids
    BY <1>3, SessionType DEF EndAnswerCode, Tab, LoginInv
  <2>3. o \in Sessions /\ heap[o] \in OauthSession
    BY <2>2, Retrieved DEF Ids, LoginInv
  <2>4. QED
    BY <1>1, <1>3, <2>1, <2>3, AnsweringType DEF EndAnswerCode
<1>4. ASSUME Restart
      PROVE  heap'[s] = Gone
  BY <1>1, <1>4 DEF Restart, ServiceRestart
<1>5. ASSUME NEW t \in Tabs, EndAnswerCode(t)
      PROVE  /\ heap'[s] # NULL
             /\ Live(s)' => /\ Live(s)
                            /\ heap'[s].openedBy = heap[s].openedBy
                            /\ heap'[s].request = heap[s].request
             /\ Live(s) => Live(s)'
  <2>1. CASE heap'[s] = heap[s]
    BY <2>1 DEF Live
  <2>2. CASE heap'[s] # heap[s]
    <3>1. PICK v \in Subjects :
            /\ heap[s] \in OauthSession
            /\ heap'[s] = [heap[s] EXCEPT !.userIdentification = v]
      BY <1>3, <1>5, <2>2
    <3>2. heap'[s] \in OauthSession
      BY <3>1 DEF OauthSession
    <3>3. QED
      BY <3>1, <3>2, ObjectAssumption DEF Live, OauthSession
  <2>3. QED
    BY <2>1, <2>2
<1>6. QED
  BY <1>2, <1>4, <1>5, HeapChanges, SessionServiceAssumption DEF Live

LEMMA OwnsStep ==
  ASSUME LoginInv, [Next]_vars, ~Restart,
         NEW b \in Browsers, NEW s \in Sessions, Owns(b, s)
  PROVE  Owns(b, s)'
<1>1. heap[s] # NULL
  BY DEF Owns, Live
<1>2. QED
  BY <1>1, HeapStep DEF Owns

LEMMA NewSession ==
  ASSUME LoginInv, NEW t \in Tabs, NEW l \in Launches, AuthorizeStore(t, l)
  PROVE  \E s \in Sessions :
           /\ heap[s] = NULL
           /\ heap'[s] = NewOauthSession(s, l, BrowserOf[t])
           /\ Owns(BrowserOf[t], s)'
           /\ \A o \in Sessions \ {s} : heap'[o] = heap[o]
           /\ storeId' = [storeId EXCEPT ![Id(s)] = s]
           /\ tab' = [tab EXCEPT ![t] =
                        [Page("setSession", l) EXCEPT !.oauthSession = Id(s)]]
<1>1. PICK s \in Sessions :
        /\ heap[s] = NULL
        /\ heap' = [heap EXCEPT ![s] = NewOauthSession(s, l, BrowserOf[t])]
        /\ Store(s, RandomToken[s])
        /\ tab' = [tab EXCEPT ![t] =
                     [Page("setSession", l) EXCEPT !.oauthSession = Id(s)]]
  BY DEF AuthorizeStore
<1>2. NewOauthSession(s, l, BrowserOf[t]) \in OauthSession
  BY SessionType, SessionServiceAssumption DEF NewOauthSession, OauthSession, LoginInv
<1>3. /\ heap'[s] = NewOauthSession(s, l, BrowserOf[t])
      /\ \A o \in Sessions \ {s} : heap'[o] = heap[o]
  BY <1>1 DEF LoginInv, TypeOK, ServiceTypeOK
<1>4. Owns(BrowserOf[t], s)'
  BY <1>2, <1>3, ObjectAssumption DEF Owns, Live, NewOauthSession
<1>5. QED
  BY <1>1, <1>3, <1>4 DEF Store

\* A code is answered for a session of the tab's own browser.
LEMMA CodeAnswer ==
  ASSUME LoginInv, NEW t \in Tabs, EndAnswerCode(t)
  PROVE  \E s \in Sessions :
           /\ tab[t].oauthSession = Id(s)
           /\ Owns(BrowserOf[t], s) /\ heap[s] \in OauthSession
           /\ heap'[s] =
                [heap[s] EXCEPT !.userIdentification = tab[t].userIdentification]
           /\ \A o \in Sessions \ {s} : heap'[o] = heap[o]
           /\ Answer(t, [browser |-> BrowserOf[t], launch |-> tab[t].launch,
                         uri     |-> heap[s].request.redirectUri,
                         code    |-> Code(s), state |-> heap[s].request.state,
                         subject |-> tab[t].userIdentification])
<1>1. PICK s \in RetrieveById(tab[t].oauthSession) \ {NULL} :
        /\ heap' = [heap EXCEPT ![s].userIdentification = tab[t].userIdentification]
        /\ Answer(t, [browser |-> BrowserOf[t], launch |-> tab[t].launch,
                      uri     |-> heap[s].request.redirectUri,
                      code    |-> Code(s), state |-> heap[s].request.state,
                      subject |-> tab[t].userIdentification])
  BY DEF EndAnswerCode
<1>2. PICK o \in Sessions : tab[t].oauthSession = Id(o)
  BY SessionType DEF EndAnswerCode, Tab, LoginInv, Ids
<1>3. s = o /\ heap[s] \in OauthSession
  BY <1>2, Retrieved DEF LoginInv
<1>4. Owns(BrowserOf[t], s)
  BY <1>2, <1>3 DEF LoginInv, TabInv, PageInv
<1>5. QED
  BY <1>1, <1>2, <1>3, <1>4 DEF LoginInv, TypeOK, ServiceTypeOK

LEMMA AnswerSubject ==
  ASSUME LoginInv, NEW t \in Tabs, tab[t].at = "answering"
  PROVE  /\ tab[t].userIdentification \in Disclosed(BrowserOf[t]) \cup {Empty}
         /\ tab[t].userIdentification # NULL
<1>1. tab[t].userIdentification # NULL
  BY AnsweringType, ObjectAssumption
<1>2. QED
  BY <1>1 DEF LoginInv, TabInv, PageInv, Ending, Disclosed

-----------------------------------------------------------------------------
LEMMA StoreStep ==
  ASSUME LoginInv, [Next]_vars
  PROVE  StoreInv'
<1> SUFFICES ASSUME NEW s \in Sessions, storeId'[Id(s)] # NULL
             PROVE  storeId'[Id(s)] = s /\ Live(s)'
  BY DEF StoreInv
<1>1. CASE Restart
  BY <1>1 DEF Restart, ServiceRestart, Unstored, Ids
<1>2. ASSUME ~Restart, storeId'[Id(s)] = storeId[Id(s)]
      PROVE  storeId'[Id(s)] = s /\ Live(s)'
  <2>1. storeId[Id(s)] = s /\ Live(s)
    BY <1>2 DEF LoginInv, StoreInv
  <2>2. QED
    BY <1>2, <2>1, HeapStep DEF Live
<1>3. ASSUME ~Restart, NEW t \in Tabs, NEW l \in Launches, AuthorizeStore(t, l)
      PROVE  storeId'[Id(s)] = s /\ Live(s)'
  <2>1. PICK o \in Sessions :
          Owns(BrowserOf[t], o)' /\ storeId' = [storeId EXCEPT ![Id(o)] = o]
    BY <1>3, NewSession
  <2>2. CASE s = o
    BY <2>1, <2>2 DEF Owns, LoginInv, TypeOK, ServiceTypeOK, Ids
  <2>3. CASE s # o
    BY <1>2, <1>3, <2>1, <2>3 DEF LoginInv, TypeOK, ServiceTypeOK, Id
  <2>4. QED
    BY <2>2, <2>3
<1>4. ASSUME NEW t \in Tabs, EndAnswerCode(t)
      PROVE  storeId' = storeId
  BY <1>4 DEF EndAnswerCode, storeVars
<1>5. QED
  BY <1>1, <1>2, <1>3, <1>4, HeapChanges

LEMMA HttpSessionStep ==
  ASSUME LoginInv, [Next]_vars
  PROVE  HttpSessionInv'
<1> SUFFICES ASSUME NEW b \in Browsers, NEW s \in Sessions,
                    httpSession'[b].oauthSession = Id(s)
             PROVE  Owns(b, s)'
  BY DEF HttpSessionInv
<1> DEFINE old == httpSession[b].oauthSession
           new == httpSession'[b].oauthSession
<1>0. httpSession \in [Browsers -> HttpSession]
  BY DEF LoginInv, TypeOK
<1>1. CASE Restart
  BY <1>1, ObjectAssumption DEF Restart, NoAttributes, Ids
<1>2. ASSUME ~Restart, new = old
      PROVE  Owns(b, s)'
  BY <1>2, OwnsStep DEF LoginInv, HttpSessionInv
<1>3. ASSUME ~Restart, NEW t \in Tabs, AuthorizeSetSession(t)
      PROVE  Owns(b, s)'
  <2>1. CASE b = BrowserOf[t]
    <3>1. new = tab[t].oauthSession
      BY <1>0, <1>3, <2>1 DEF AuthorizeSetSession, SetAttribute, session, HttpSession
    <3>2. Owns(b, s)
      BY <2>1, <3>1 DEF LoginInv, TabInv, PageInv
    <3>3. QED
      BY <1>3, <3>2, OwnsStep
  <2>2. CASE b # BrowserOf[t]
    BY <1>0, <1>2, <1>3, <2>2 DEF AuthorizeSetSession, SetAttribute
  <2>3. QED
    BY <2>1, <2>2
<1>4. ASSUME NEW t \in Tabs,
             AuthorizeSetRedirect(t) \/ AuthorizeSetAttribute(t)
               \/ IndexSetAttribute(t)
      PROVE  new = old
  BY <1>0, <1>4, SessionType
     DEF AuthorizeSetRedirect, AuthorizeSetAttribute, IndexSetAttribute,
         SetAttribute, session, HttpSession, LoginInv
<1>5. ASSUME NEW t \in Tabs, NEW l \in Launches, IndexSetRedirect(t, l)
      PROVE  new = old
  BY <1>0, <1>5, SessionType
     DEF IndexSetRedirect, SetAttribute, session, HttpSession, LoginInv
<1>6. ASSUME NEW c \in Browsers, SessionExpires(c)
      PROVE  new = old
  BY <1>0, <1>6, ObjectAssumption DEF SessionExpires, NoAttributes, Ids
<1>7. QED
  BY <1>1, <1>2, <1>3, <1>4, <1>5, <1>6, SessionChanges

LEMMA IrmaInvStep ==
  ASSUME LoginInv, [Next]_vars
  PROVE  IrmaInv'
<1> SUFFICES ASSUME NEW k \in RequestorTokens, irma'[k] # NULL,
                    irma'[k].status = "done"
             PROVE  irma'[k].disclosed \in Values
  BY DEF IrmaInv
<1>1. irma \in [RequestorTokens -> IrmaSession \cup {NULL}]
  BY DEF LoginInv, TypeOK
<1>2. ASSUME irma'[k] = irma[k]
      PROVE  irma'[k].disclosed \in Values
  BY <1>2 DEF LoginInv, IrmaInv
<1>3. ASSUME NEW t \in Tabs, StartSession(t)
      PROVE  irma'[k] = irma[k]
  BY <1>1, <1>3 DEF StartSession
<1>4. ASSUME NEW j \in RequestorTokens, Disclose(j)
      PROVE  irma'[k].disclosed \in Values
  <2>1. PICK v \in Wallet[irma[j].browser][irma[j].attribute] :
          irma' = [irma EXCEPT ![j] = [@ EXCEPT !.status = "done", !.disclosed = v]]
    BY <1>4 DEF Disclose
  <2>2. irma[j] \in IrmaSession
    BY <1>1, <1>4 DEF Disclose
  <2>3. v \in Values
    BY <2>2, LoginAssumption DEF IrmaSession
  <2>4. CASE j = k
    BY <1>1, <2>1, <2>2, <2>3, <2>4 DEF IrmaSession
  <2>5. QED
    BY <1>1, <1>2, <2>1, <2>4
<1>5. ASSUME NEW j \in RequestorTokens, CancelOrTimeout(j)
      PROVE  irma'[k] = irma[k]
  <2>1. irma[j] \in IrmaSession /\ irma' = [irma EXCEPT ![j].status = "over"]
    BY <1>1, <1>5 DEF CancelOrTimeout
  <2>2. QED
    BY <1>1, <2>1 DEF IrmaSession
<1>6. QED
  BY <1>2, <1>3, <1>4, <1>5, IrmaChanges

\* A fresh page satisfies its part of the invariant.
LEMMA FreshPage ==
  ASSUME NEW t \in Tabs, NEW launch,
         NEW at \in Showing \cup {"setRedirect", "checkLaunch"},
         at # "waiting", at \in Launching => launch \in Launches,
         tab'[t] = Page(at, launch)
  PROVE  PageInv(t)'
BY ObjectAssumption DEF PageInv, Page, Launching, Ending, Showing, Ids

LEMMA TabStep ==
  ASSUME LoginInv, [Next]_vars
  PROVE  TabInv'
<1> SUFFICES ASSUME NEW t \in Tabs
             PROVE  PageInv(t)'
  BY DEF TabInv
<1> USE DEF Launching, Ending, Showing
<1>0. /\ tab \in [Tabs -> Tab] /\ PageInv(t) /\ TypeOK
      /\ BrowserOf[t] \in Browsers
  BY SessionType DEF LoginInv, TypeOK, TabInv
\* The page's IRMA session is still there, with the result it had.
<1>1. ASSUME tab[t].at \in {"waiting"} \cup Ending
      PROVE  LET k == tab[t].token IN
             /\ k \in RequestorTokens /\ irma'[k] # NULL
             /\ irma'[k].browser = BrowserOf[t]
             /\ irma[k].status = "done" => irma'[k] = irma[k]
  BY <1>0, <1>1, IrmaStep DEF PageInv
<1>2. ASSUME tab'[t] = tab[t], ~Restart
      PROVE  PageInv(t)'
  BY <1>0, <1>1, <1>2, OwnsStep DEF PageInv
<1>3. ASSUME NEW u \in Tabs, NEW page, tab' = [tab EXCEPT ![u] = page]
      PROVE  tab'[t] = IF u = t THEN page ELSE tab[t]
  BY <1>0, <1>3
<1>4. ASSUME ~Restart, NEW u \in Tabs, NEW l \in Launches, AuthorizeRefused(u, l)
      PROVE  PageInv(t)'
  BY <1>2, <1>3, <1>4, FreshPage DEF AuthorizeRefused
<1>5. ASSUME ~Restart, NEW u \in Tabs, NEW l \in Launches, AuthorizeStore(u, l)
      PROVE  PageInv(t)'
  <2>1. PICK s \in Sessions :
          /\ Owns(BrowserOf[u], s)'
          /\ tab' = [tab EXCEPT ![u] =
                       [Page("setSession", l) EXCEPT !.oauthSession = Id(s)]]
    BY <1>5, NewSession
  <2>2. CASE u = t
    <3>1. tab'[t] = [Page("setSession", l) EXCEPT !.oauthSession = Id(s)]
      BY <1>3, <2>1, <2>2
    <3>2. QED
      BY <2>1, <2>2, <3>1, ObjectAssumption DEF PageInv, Page, Ids, Id
  <2>3. QED
    BY <1>2, <1>3, <1>5, <2>1, <2>2
<1>6. ASSUME ~Restart, NEW u \in Tabs, AuthorizeSetSession(u)
      PROVE  PageInv(t)'
  BY <1>0, <1>2, <1>3, <1>6, FreshPage DEF AuthorizeSetSession, PageInv
<1>7. ASSUME ~Restart, NEW u \in Tabs, AuthorizeSetRedirect(u)
      PROVE  PageInv(t)'
  <2>1. CASE u = t
    <3>1. tab'[t] = [tab[t] EXCEPT !.at = "setAttribute"]
      BY <1>0, <1>7, <2>1 DEF AuthorizeSetRedirect
    <3>2. QED
      BY <1>0, <1>7, <2>1, <3>1, ObjectAssumption
         DEF AuthorizeSetRedirect, PageInv, Tab, Ids
  <2>2. QED
    BY <1>0, <1>2, <1>7, <2>1 DEF AuthorizeSetRedirect
<1>8. ASSUME ~Restart, NEW u \in Tabs, AuthorizeSetAttribute(u)
      PROVE  PageInv(t)'
  <2>1. CASE u = t
    <3>1. tab'[t] = [tab[t] EXCEPT !.at = "ready"]
      BY <1>0, <1>8, <2>1 DEF AuthorizeSetAttribute
    <3>2. QED
      BY <1>0, <1>8, <2>1, <3>1, ObjectAssumption
         DEF AuthorizeSetAttribute, PageInv, Tab, Ids
  <2>2. QED
    BY <1>0, <1>2, <1>8, <2>1 DEF AuthorizeSetAttribute
<1>9. ASSUME ~Restart, NEW u \in Tabs, NEW l \in Launches, IndexSetRedirect(u, l)
      PROVE  PageInv(t)'
  BY <1>2, <1>3, <1>9, FreshPage DEF IndexSetRedirect
<1>10. ASSUME ~Restart, NEW u \in Tabs, IndexSetAttribute(u)
       PROVE  PageInv(t)'
  BY <1>2, <1>3, <1>10, FreshPage DEF IndexSetAttribute
<1>11. ASSUME ~Restart, NEW u \in Tabs, StartSession(u)
       PROVE  PageInv(t)'
  <2> DEFINE a == OrDefault(session(u).attribute)
  <2>1. PICK k \in RequestorTokens :
          /\ irma' = [irma EXCEPT ![k] =
                        [browser |-> BrowserOf[u], attribute |-> a,
                         status |-> "initialized", disclosed |-> NULL]]
          /\ tab' = [tab EXCEPT ![u] = [@ EXCEPT !.at = "waiting", !.token = k]]
    BY <1>11 DEF StartSession
  <2>2. /\ irma'[k] = [browser |-> BrowserOf[u], attribute |-> a,
                       status |-> "initialized", disclosed |-> NULL]
        /\ irma'[k] \in IrmaSession \cup {NULL}
    BY <2>1, TypeStep DEF LoginInv, TypeOK
  <2>3. irma'[k] # NULL
    <3>1. a \in Attributes
      BY <1>0, SessionType, DefaultType DEF HttpSession
    <3>2. QED
      BY <2>2, <3>1, SessionType, LoginAssumption, IrmaAssumption DEF IrmaSession
  <2>4. CASE u = t
    <3>1. tab'[t] = [tab[t] EXCEPT !.at = "waiting", !.token = k]
      BY <1>0, <2>1, <2>4
    <3>2. tab[t].oauthSession = NULL
      BY <1>0, <1>11, <2>4 DEF StartSession, PageInv
    <3>3. QED
      BY <1>0, <2>2, <2>3, <2>4, <3>1, <3>2, ObjectAssumption DEF PageInv, Tab, Ids
  <2>5. QED
    BY <1>2, <1>3, <1>11, <2>1, <2>4
<1>12. ASSUME ~Restart, NEW u \in Tabs, StartSessionFails(u)
       PROVE  PageInv(t)'
  <2>1. CASE u = t
    <3>1. tab'[t] = [tab[t] EXCEPT !.at = "stopped"]
      BY <1>0, <1>12, <2>1 DEF StartSessionFails
    <3>2. QED
      BY <1>0, <1>12, <2>1, <3>1, ObjectAssumption
         DEF StartSessionFails, PageInv, Tab, Ids
  <2>2. QED
    BY <1>0, <1>2, <1>12, <2>1 DEF StartSessionFails
<1>13. ASSUME ~Restart, NEW k \in RequestorTokens, IrmaSettles(k)
       PROVE  PageInv(t)'
  BY <1>2, <1>13 DEF IrmaSettles, Disclose, CancelOrTimeout
<1>14. ASSUME ~Restart, NEW u \in Tabs,
              PageStops(u) \/ EndFetchFails(u) \/ EndAnswerUnknown(u)
                \/ EndAnswerNowhere(u)
       PROVE  PageInv(t)'
  BY <1>2, <1>3, <1>14, FreshPage
     DEF PageStops, EndFetchFails, EndAnswerUnknown, EndAnswerNowhere
<1>15. ASSUME ~Restart, NEW u \in Tabs, EndSession(u)
       PROVE  PageInv(t)'
  <2>1. CASE u = t
    <3>1. tab'[t] = [tab[t] EXCEPT !.at = "fetching",
                                   !.attribute = OrDefault(session(t).attribute)]
      BY <1>0, <1>15, <2>1 DEF EndSession
    <3>2. /\ tab[t].at = "waiting" /\ irma[tab[t].token].status = "done"
          /\ irma' = irma
      BY <1>15, <2>1 DEF EndSession
    <3>3. QED
      BY <1>0, <3>1, <3>2, ObjectAssumption DEF PageInv, Tab, Ids
  <2>2. QED
    BY <1>0, <1>2, <1>15, <2>1 DEF EndSession
<1>16. ASSUME ~Restart, NEW u \in Tabs, EndFetchResult(u)
       PROVE  PageInv(t)'
  <2>1. CASE u = t
    <3> DEFINE result == Matched(irma[tab[t].token], tab[t].attribute)
    <3>1. tab'[t] = [tab[t] EXCEPT !.at = "answering",
                                   !.userIdentification = result,
                                   !.oauthSession = session(t).oauthSession]
      BY <1>0, <1>16, <2>1 DEF EndFetchResult
    <3>2. tab[t].at = "fetching" /\ UNCHANGED <<irma, heap>>
      BY <1>16, <2>1 DEF EndFetchResult
    <3>3. \A s \in Sessions :
            session(t).oauthSession = Id(s) => Owns(BrowserOf[t], s)'
      BY <1>0, <3>2 DEF session, LoginInv, HttpSessionInv, Owns, Live
    <3>4. result \in {irma[tab[t].token].disclosed, Empty}
      BY DEF Matched
    <3>5. /\ tab'[t].at = "answering" /\ tab'[t].token = tab[t].token
          /\ tab'[t].userIdentification = result
          /\ tab'[t].oauthSession = session(t).oauthSession
      BY <1>0, <3>1 DEF Tab
    <3>6. QED
      BY <1>0, <3>2, <3>3, <3>4, <3>5 DEF PageInv
  <2>2. QED
    BY <1>0, <1>2, <1>16, <2>1 DEF EndFetchResult
<1>17. ASSUME ~Restart, NEW u \in Tabs, NEW redirect, Answer(u, redirect)
       PROVE  PageInv(t)'
  BY <1>2, <1>3, <1>17, FreshPage DEF Answer
<1>18. ASSUME ~Restart, NEW u \in Tabs, EndAnswerCode(u) \/ EndAnswerToken(u)
       PROVE  PageInv(t)'
  BY <1>17, <1>18 DEF EndAnswerCode, EndAnswerToken
<1>19. ASSUME ~Restart, NEW b \in Browsers, SessionExpires(b)
       PROVE  PageInv(t)'
  BY <1>2, <1>19 DEF SessionExpires
<1>20. CASE Restart
  <2>1. tab'[t] = CASE tab[t].at \in Launching -> Page("blank", NULL)
                    [] tab[t].at \in Ending    -> Page("stopped", tab[t].launch)
                    [] OTHER                   -> tab[t]
    BY <1>20 DEF Restart
  <2>2. CASE tab[t].at \in Launching
    BY <2>1, <2>2, FreshPage
  <2>3. CASE tab[t].at \in Ending
    BY <2>1, <2>3, FreshPage
  <2>4. CASE tab[t].at \notin Launching \cup Ending
    <3>1. tab'[t] = tab[t] /\ tab[t].oauthSession = NULL /\ irma' = irma
      BY <1>0, <1>20, <2>1, <2>4 DEF PageInv, Restart
    <3>2. QED
      BY <1>0, <3>1, <2>4, ObjectAssumption DEF PageInv, Ids
  <2>5. QED
    BY <2>2, <2>3, <2>4
<1>21. ASSUME ~Restart, UNCHANGED vars
       PROVE  PageInv(t)'
  BY <1>2, <1>21 DEF vars, loginVars
<1>22. QED
  BY <1>4, <1>5, <1>6, <1>7, <1>8, <1>9, <1>10, <1>11, <1>12, <1>13, <1>14,
     <1>15, <1>16, <1>18, <1>19, <1>20, <1>21, LaunchSteps
     DEF Next, LoginNext, Start, PageReacts, Handle

\* Outside EndAnswerCode the identification of a session does not change.
LEMMA IdentificationStep ==
  ASSUME LoginInv, [Next]_vars, NEW s \in Sessions, heap[s] # NULL, Live(s)',
         heap'[s].userIdentification # heap[s].userIdentification
  PROVE  \E t \in Tabs :
           /\ EndAnswerCode(t) /\ Owns(BrowserOf[t], s)
           /\ heap'[s].userIdentification = tab[t].userIdentification
<1>1. ASSUME NEW t \in Tabs, NEW l \in Launches, AuthorizeStore(t, l)
      PROVE  heap'[s] = heap[s]
  BY <1>1, NewSession
<1>2. ASSUME NEW t \in Tabs, EndAnswerCode(t)
      PROVE  /\ Owns(BrowserOf[t], s)
             /\ heap'[s].userIdentification = tab[t].userIdentification
  <2>1. PICK o \in Sessions :
          /\ Owns(BrowserOf[t], o) /\ heap[o] \in OauthSession
          /\ heap'[o] =
               [heap[o] EXCEPT !.userIdentification = tab[t].userIdentification]
          /\ \A p \in Sessions \ {o} : heap'[p] = heap[p]
    BY <1>2, CodeAnswer
  <2>2. QED
    BY <2>1 DEF OauthSession
<1>3. ~Restart
  BY DEF Restart, ServiceRestart, Live
<1>4. QED
  BY <1>1, <1>2, <1>3, HeapChanges

LEMMA HeapInvStep ==
  ASSUME LoginInv, [Next]_vars
  PROVE  HeapInv'
<1> SUFFICES ASSUME NEW s \in Sessions, Live(s)'
             PROVE  (heap[s].userIdentification
                       \in Disclosed(heap[s].openedBy) \cup {Empty, NULL})'
  BY DEF HeapInv, Live
<1>1. CASE heap[s] = NULL
  <2>1. ASSUME NEW t \in Tabs, NEW l \in Launches, AuthorizeStore(t, l)
        PROVE  heap'[s].userIdentification = NULL
    <3>1. PICK o \in Sessions :
            /\ heap'[o] = NewOauthSession(o, l, BrowserOf[t])
            /\ \A p \in Sessions \ {o} : heap'[p] = heap[p]
      BY <2>1, NewSession
    <3>2. s = o
      BY <1>1, <3>1 DEF Live
    <3>3. QED
      BY <3>1, <3>2 DEF NewOauthSession
  <2>2. ASSUME NEW t \in Tabs, EndAnswerCode(t)
        PROVE  heap'[s] = heap[s]
    BY <1>1, <2>2, CodeAnswer DEF Owns, Live
  <2>3. ~Restart
    BY <1>1 DEF Restart, ServiceRestart, Live
  <2>4. QED
    BY <1>1, <2>1, <2>2, <2>3, HeapChanges DEF Live
<1>2. CASE heap[s] # NULL
  <2>1. PICK b \in Browsers : b = heap[s].openedBy /\ b = heap'[s].openedBy
    BY <1>2, HeapStep DEF LoginInv, TypeOK, ServiceTypeOK, OauthSession, Live
  <2>2. Disclosed(b) \subseteq Disclosed(b)'
    BY DisclosedStep
  <2>3. heap[s].userIdentification \in Disclosed(b) \cup {Empty, NULL}
    BY <1>2, <2>1, HeapStep DEF LoginInv, HeapInv
  <2>4. ASSUME NEW t \in Tabs, EndAnswerCode(t), Owns(BrowserOf[t], s)
        PROVE  tab[t].userIdentification \in Disclosed(b) \cup {Empty}
    BY <2>1, <2>4, AnswerSubject DEF EndAnswerCode, Owns
  <2>5. heap'[s].userIdentification \in Disclosed(b)' \cup {Empty, NULL}
    BY <1>2, <2>2, <2>3, <2>4, IdentificationStep
  <2>6. QED
    BY <2>1, <2>5 DEF Disclosed
<1>3. QED
  BY <1>1, <1>2

\* What DeliveredInv says of one redirect.
DeliveredRight(d) ==
  /\ d.subject \in Disclosed(d.browser) \cup {Empty}
  /\ \A s \in Sessions :
       d.code = Code(s) =>
         /\ heap[s] # NULL
         /\ Live(s) =>
              /\ heap[s].openedBy = d.browser
              /\ heap[s].request.redirectUri = d.uri
              /\ heap[s].request.state = d.state
              /\ heap[s].userIdentification # NULL

LEMMA DeliveredStep ==
  ASSUME LoginInv, [Next]_vars
  PROVE  DeliveredInv'
<1> SUFFICES ASSUME NEW d \in delivered'
             PROVE  DeliveredRight(d)'
  BY DEF DeliveredInv, DeliveredRight
<1>1. CASE d \in delivered
  <2>1. DeliveredRight(d) /\ d.browser \in Browsers
    BY <1>1 DEF LoginInv, DeliveredInv, DeliveredRight, TypeOK, Redirect
  <2>2. d.subject \in Disclosed(d.browser)' \cup {Empty}
    BY <2>1, DisclosedStep DEF DeliveredRight
  <2>3. ASSUME NEW s \in Sessions, d.code = Code(s)
        PROVE  /\ heap'[s] # NULL
               /\ Live(s)' =>
                    /\ heap'[s].openedBy = d.browser
                    /\ heap'[s].request.redirectUri = d.uri
                    /\ heap'[s].request.state = d.state
                    /\ heap'[s].userIdentification # NULL
    <3>1. heap[s] # NULL
      BY <2>1, <2>3 DEF DeliveredRight
    <3>2. ASSUME Live(s)' PROVE heap'[s].userIdentification # NULL
      <4>1. heap[s].userIdentification # NULL
        BY <2>1, <2>3, <3>1, <3>2, HeapStep DEF DeliveredRight
      <4>2. ASSUME NEW t \in Tabs, EndAnswerCode(t)
            PROVE  tab[t].userIdentification # NULL
        BY <4>2, AnswerSubject DEF EndAnswerCode
      <4>3. QED
        BY <3>1, <3>2, <4>1, <4>2, IdentificationStep
    <3>3. QED
      BY <2>1, <2>3, <3>1, <3>2, HeapStep DEF DeliveredRight
  <2>4. QED
    BY <2>2, <2>3 DEF DeliveredRight, Code
<1>2. ASSUME d \notin delivered, NEW t \in Tabs, EndAnswerCode(t)
      PROVE  DeliveredRight(d)'
  <2>1. PICK s \in Sessions :
          /\ Owns(BrowserOf[t], s) /\ heap[s] \in OauthSession
          /\ heap'[s] =
               [heap[s] EXCEPT !.userIdentification = tab[t].userIdentification]
          /\ Answer(t, [browser |-> BrowserOf[t], launch |-> tab[t].launch,
                        uri     |-> heap[s].request.redirectUri,
                        code    |-> Code(s), state |-> heap[s].request.state,
                        subject |-> tab[t].userIdentification])
    BY <1>2, CodeAnswer
  <2>2. d = [browser |-> BrowserOf[t], launch |-> tab[t].launch,
             uri     |-> heap[s].request.redirectUri,
             code    |-> Code(s), state |-> heap[s].request.state,
             subject |-> tab[t].userIdentification]
    BY <1>2, <2>1 DEF Answer
  <2>3. /\ d.subject \in Disclosed(BrowserOf[t]) \cup {Empty}
        /\ tab[t].userIdentification # NULL
    BY <1>2, <2>2, AnswerSubject DEF EndAnswerCode
  <2>4. Disclosed(BrowserOf[t])' = Disclosed(BrowserOf[t])
    BY <1>2 DEF EndAnswerCode, Disclosed
  <2>5. /\ heap'[s] # NULL
        /\ heap'[s].openedBy = BrowserOf[t]
        /\ heap'[s].request = heap[s].request
        /\ heap'[s].userIdentification # NULL
    BY <2>1, <2>3, HeapStep DEF Owns, Live, OauthSession
  <2>6. ASSUME NEW o \in Sessions, d.code = Code(o) PROVE o = s
    BY <2>2, <2>6 DEF Code
  <2>7. QED
    BY <2>2, <2>3, <2>4, <2>5, <2>6 DEF DeliveredRight, Code
<1>3. ASSUME d \notin delivered, NEW t \in Tabs, EndAnswerToken(t)
      PROVE  DeliveredRight(d)'
  <2>1. /\ d.browser = BrowserOf[t] /\ d.code = NULL
        /\ d.subject = tab[t].userIdentification
    BY <1>3 DEF EndAnswerToken, Answer
  <2>2. d.subject \in Disclosed(d.browser) \cup {Empty}
    BY <1>3, <2>1, AnswerSubject DEF EndAnswerToken
  <2>3. Disclosed(d.browser)' = Disclosed(d.browser)
    BY <1>3 DEF EndAnswerToken, Disclosed
  <2>4. QED
    BY <2>1, <2>2, <2>3, ObjectAssumption DEF DeliveredRight, Code, Codes
<1>4. QED
  BY <1>1, <1>2, <1>3, DeliveredChanges

-----------------------------------------------------------------------------
(***************************************************************************)
(* The theorems.                                                           *)
(***************************************************************************)
LEMMA LoginInvStep == LoginInv /\ [Next]_vars => LoginInv'
BY TypeStep, StoreStep, HttpSessionStep, IrmaInvStep, TabStep, HeapInvStep,
   DeliveredStep DEF LoginInv

\* LoginInv is an invariant of the login flow.
THEOREM LoginInvariance == Spec => []LoginInv
BY InitInv, LoginInvStep, PTL DEF Spec

\* Type correctness of the handlers of the login flow.
THEOREM LoginTypeCorrect == Spec => []TypeOK
<1>1. LoginInv => TypeOK
  BY DEF LoginInv
<1>2. QED
  BY <1>1, LoginInvariance, PTL

(***************************************************************************)
(* SessionController.stopSession tells relying parties only about what the *)
(* browser's own user disclosed, whatever the tabs, races and faults.      *)
(***************************************************************************)
THEOREM OwnDisclosures == Spec => []OwnDisclosuresOnly
<1>1. ASSUME LoginInv, NEW d \in delivered, NEW s \in Sessions, Carries(d, s)
      PROVE  heap[s].userIdentification \in Disclosed(d.browser) \cup {Empty}
  <2>1. heap[s].openedBy = d.browser /\ heap[s].userIdentification # NULL
    BY <1>1 DEF LoginInv, DeliveredInv, Carries
  <2>2. QED
    BY <1>1, <2>1 DEF LoginInv, HeapInv, Carries
<1>2. LoginInv => OwnDisclosuresOnly
  BY <1>1 DEF LoginInv, DeliveredInv, OwnDisclosuresOnly
<1>3. QED
  BY <1>2, LoginInvariance, PTL

(***************************************************************************)
(* A code goes to the browser that asked for it, to the redirect_uri and   *)
(* with the state of the authorization request.                            *)
(***************************************************************************)
THEOREM CodesMatchRequests == Spec => []CodeMatchesRequest
<1>1. LoginInv => CodeMatchesRequest
  BY DEF LoginInv, DeliveredInv, CodeMatchesRequest, Carries
<1>2. QED
  BY <1>1, LoginInvariance, PTL

-----------------------------------------------------------------------------
(***************************************************************************)
(* An object of this JVM is in both maps from the step that makes it on,   *)
(* with or without an identification, and nothing removes it.              *)
(***************************************************************************)
Indexed(s) == Live(s) => storeId[Id(s)] = s /\ storeCode[Code(s)] = s

IndexInv == \A s \in Sessions : Indexed(s)

LEMMA CodeChanges ==
  [Next]_vars =>
    \/ \E t \in Tabs, l \in Launches : AuthorizeStore(t, l)
    \/ Restart
    \/ UNCHANGED storeCode /\ \E t \in Tabs : EndAnswerCode(t) /\ UNCHANGED storeId
    \/ UNCHANGED <<heap, storeId, storeCode>>
BY LaunchSteps DEF Next, LoginNext, vars, storeVars, loginVars, Start, PageReacts, Handle,
  IrmaSettles, AuthorizeRefused, AuthorizeSetSession, AuthorizeSetRedirect,
  AuthorizeSetAttribute, IndexSetRedirect, IndexSetAttribute, StartSession,
  StartSessionFails, Disclose, CancelOrTimeout, PageStops, EndSession,
  EndFetchResult, EndFetchFails, EndAnswerCode, EndAnswerUnknown, EndAnswerToken,
  EndAnswerNowhere, SessionExpires

LEMMA IndexStep ==
  ASSUME LoginInv, IndexInv, [Next]_vars
  PROVE  IndexInv'
<1> SUFFICES ASSUME NEW s \in Sessions, Live(s)'
             PROVE  storeId'[Id(s)] = s /\ storeCode'[Code(s)] = s
  BY DEF IndexInv, Indexed
<1>1. ASSUME NEW t \in Tabs, NEW l \in Launches, AuthorizeStore(t, l)
      PROVE  storeId'[Id(s)] = s /\ storeCode'[Code(s)] = s
  <2>1. PICK o \in Sessions :
          /\ heap' = [heap EXCEPT ![o] = NewOauthSession(o, l, BrowserOf[t])]
          /\ Store(o, RandomToken[o])
    BY <1>1 DEF AuthorizeStore
  <2>2. CASE s = o
    BY <2>1, <2>2 DEF Store, LoginInv, TypeOK, ServiceTypeOK, Ids, Codes
  <2>3. CASE s # o
    <3>1. heap'[s] = heap[s]
      BY <2>1, <2>3 DEF LoginInv, TypeOK, ServiceTypeOK
    <3>2. storeId'[Id(s)] = storeId[Id(s)] /\ storeCode'[Code(s)] = storeCode[Code(s)]
      BY <2>1, <2>3 DEF Store, LoginInv, TypeOK, ServiceTypeOK, Id, Code
    <3> QED
      BY <3>1, <3>2 DEF IndexInv, Indexed, Live
  <2> QED
    BY <2>2, <2>3
<1>2. ~Restart
  BY SessionServiceAssumption DEF Restart, ServiceRestart, Live
<1>3. ASSUME Live(s), UNCHANGED <<storeId, storeCode>>
      PROVE  storeId'[Id(s)] = s /\ storeCode'[Code(s)] = s
  BY <1>3 DEF IndexInv, Indexed
<1>4. ASSUME NEW t \in Tabs, EndAnswerCode(t)
      PROVE  Live(s)
  BY <1>4, CodeAnswer DEF Owns, Live
<1> QED
  BY <1>1, <1>2, <1>3, <1>4, CodeChanges DEF Live

\* IndexInv is an invariant of the login flow.
THEOREM IndexInvariance == Spec => []IndexInv
<1>1. Init => IndexInv
  BY DEF Init, ServiceInit, IndexInv, Indexed, Live
<1>2. QED
  BY <1>1, IndexStep, LoginInvariance, PTL DEF Spec

(***************************************************************************)
(* Until the server restarts, a code that a relying party has been brought *)
(* finds its session in STORE_CODE, with an identification.                *)
(***************************************************************************)
THEOREM CodesUsable == Spec => []DeliveredCodeUsable
<1>1. LoginInv /\ IndexInv => DeliveredCodeUsable
  BY DEF LoginInv, DeliveredInv, IndexInv, Indexed, DeliveredCodeUsable, Carries
<1>2. QED
  BY <1>1, LoginInvariance, IndexInvariance, PTL

\* The id that an HttpSession holds finds its session in STORE_ID.
THEOREM SessionsKnown == Spec => []OpenSessionsKnown
<1>1. LoginInv /\ IndexInv => OpenSessionsKnown
  BY DEF LoginInv, HttpSessionInv, Owns, IndexInv, Indexed, OpenSessionsKnown
<1>2. QED
  BY <1>1, LoginInvariance, IndexInvariance, PTL

-----------------------------------------------------------------------------
(***************************************************************************)
(* The refinement: IRMA sessions that complete are the contract's          *)
(* DiscloseTo, redirects that arrive are its Assert, the rest is stutter.  *)
(***************************************************************************)
LEMMA DiscloseExtends ==
  ASSUME LoginInv, NEW k \in RequestorTokens, Disclose(k)
  PROVE  \E b \in Browsers :
           \E v \in UNION {Wallet[b][a] : a \in Attributes} :
             /\ Disclosed(b)' = Disclosed(b) \cup {v}
             /\ \A c \in Browsers \ {b} : Disclosed(c)' = Disclosed(c)
<1>1. PICK v \in Wallet[irma[k].browser][irma[k].attribute] :
        irma' = [irma EXCEPT ![k] = [@ EXCEPT !.status = "done", !.disclosed = v]]
  BY DEF Disclose
<1>2. irma \in [RequestorTokens -> IrmaSession \cup {NULL}]
  BY DEF LoginInv, TypeOK
<1>3. irma[k] \in IrmaSession /\ irma[k].status = "initialized"
  BY <1>2 DEF Disclose
<1>4. irma'[k] = [irma[k] EXCEPT !.status = "done", !.disclosed = v]
  BY <1>1, <1>2
<1>5. v \in Values
  BY <1>3, LoginAssumption DEF IrmaSession
<1>6. /\ irma'[k] # NULL /\ irma'[k].browser = irma[k].browser
      /\ irma'[k].status = "done" /\ irma'[k].disclosed = v
  BY <1>3, <1>4, <1>5, IrmaAssumption DEF IrmaSession
<1>7. \A j \in RequestorTokens \ {k} : irma'[j] = irma[j]
  BY <1>1, <1>2
<1>8. PICK b \in Browsers : b = irma[k].browser
  BY <1>3 DEF IrmaSession
<1>9. Disclosed(b)' = Disclosed(b) \cup {v}
  <2>1. Disclosed(b)' \subseteq Disclosed(b) \cup {v}
    BY <1>6, <1>7 DEF Disclosed
  <2>2. Disclosed(b) \subseteq Disclosed(b)'
    BY <1>3, <1>7 DEF Disclosed
  <2>3. v \in Disclosed(b)'
    BY <1>6, <1>8 DEF Disclosed
  <2>4. QED
    BY <2>1, <2>2, <2>3
<1>10. ASSUME NEW c \in Browsers \ {b}
       PROVE  Disclosed(c)' = Disclosed(c)
  BY <1>3, <1>6, <1>7, <1>8 DEF Disclosed
<1>11. v \in UNION {Wallet[b][a] : a \in Attributes}
  BY <1>3, <1>8 DEF IrmaSession
<1>12. QED
  BY <1>9, <1>10, <1>11

LEMMA OthersDiscloseNothing ==
  ASSUME LoginInv, NEW b \in Browsers,
         \/ \E t \in Tabs : StartSession(t)
         \/ \E k \in RequestorTokens : CancelOrTimeout(k)
         \/ UNCHANGED irma
  PROVE  Disclosed(b)' = Disclosed(b)
<1>1. irma \in [RequestorTokens -> IrmaSession \cup {NULL}]
  BY DEF LoginInv, TypeOK
<1>2. ASSUME NEW k \in RequestorTokens, CancelOrTimeout(k)
      PROVE  Disclosed(b)' = Disclosed(b)
  <2>1. irma[k] \in IrmaSession /\ irma[k].status = "initialized"
    BY <1>1, <1>2 DEF CancelOrTimeout
  <2>2. irma'[k] = [irma[k] EXCEPT !.status = "over"]
    BY <1>1, <1>2 DEF CancelOrTimeout
  <2>3. irma'[k].status # "done" /\ irma[k].status # "done"
    BY <2>1, <2>2 DEF IrmaSession
  <2>4. \A j \in RequestorTokens \ {k} : irma'[j] = irma[j]
    BY <1>1, <1>2 DEF CancelOrTimeout
  <2>5. QED
    BY <2>3, <2>4 DEF Disclosed
<1>3. ASSUME NEW t \in Tabs, StartSession(t)
      PROVE  Disclosed(b)' = Disclosed(b)
  <2> DEFINE started == [browser |-> BrowserOf[t],
                         attribute |-> OrDefault(session(t).attribute),
                         status |-> "initialized", disclosed |-> NULL]
  <2>1. PICK k \in RequestorTokens :
          irma[k] = NULL /\ irma' = [irma EXCEPT ![k] = started]
    BY <1>3 DEF StartSession
  <2>2. irma'[k] = started /\ \A j \in RequestorTokens \ {k} : irma'[j] = irma[j]
    BY <1>1, <2>1
  <2>3. irma'[k].status # "done"
    BY <2>2
  <2>4. QED
    BY <2>1, <2>2, <2>3 DEF Disclosed
<1>4. CASE UNCHANGED irma
  BY <1>4 DEF Disclosed
<1>5. QED
  BY <1>2, <1>3, <1>4

\* A redirect that arrives asserts a subject of its own browser.
LEMMA DeliveredAsserts ==
  ASSUME LoginInv, NEW t \in Tabs, EndAnswerCode(t) \/ EndAnswerToken(t)
  PROVE  /\ UNCHANGED irma
         /\ \/ UNCHANGED delivered
            \/ \E d : /\ delivered' = delivered \cup {d}
                      /\ d.browser = BrowserOf[t]
                      /\ d.subject \in Disclosed(BrowserOf[t]) \cup {Empty}
<1>1. tab[t].at = "answering"
  BY DEF EndAnswerCode, EndAnswerToken
<1>2. PICK redirect :
        /\ Answer(t, redirect) /\ UNCHANGED irma
        /\ redirect.browser = BrowserOf[t]
        /\ redirect.subject = tab[t].userIdentification
  <2>1. CASE EndAnswerCode(t)
    BY <2>1 DEF EndAnswerCode
  <2>2. CASE EndAnswerToken(t)
    BY <2>2 DEF EndAnswerToken
  <2>3. QED
    BY <2>1, <2>2
<1>3. tab[t].userIdentification \in Disclosed(BrowserOf[t]) \cup {Empty}
  BY <1>1, AnswerSubject
<1>4. QED
  BY <1>2, <1>3 DEF Answer

\* A step of the login flow is one of LoginContract, or none.
LEMMA ContractStep ==
  ASSUME LoginInv, [Next]_vars
  PROVE  [Promise!ContractNext]_(Promise!contractVars)
<1> DEFINE asserted == {<<d.browser, d.subject>> : d \in delivered}
<1>1. ASSUME NEW k \in RequestorTokens, Disclose(k)
      PROVE  Promise!ContractNext
  <2>1. PICK b \in Browsers :
          \E v \in UNION {Wallet[b][a] : a \in Attributes} :
            /\ Disclosed(b)' = Disclosed(b) \cup {v}
            /\ \A c \in Browsers \ {b} : Disclosed(c)' = Disclosed(c)
    BY <1>1, DiscloseExtends
  <2>2. delivered' = delivered
    BY <1>1 DEF Disclose
  <2>3. Promise!DiscloseTo(b)
    BY <2>1, <2>2 DEF Promise!DiscloseTo
  <2>4. QED
    BY <2>3 DEF Promise!ContractNext
<1>2. ASSUME NEW t \in Tabs, EndAnswerCode(t) \/ EndAnswerToken(t)
      PROVE  [Promise!ContractNext]_(Promise!contractVars)
  <2>1. \A b \in Browsers : Disclosed(b)' = Disclosed(b)
    BY <1>2, DeliveredAsserts, OthersDiscloseNothing
  <2>2. CASE UNCHANGED delivered
    BY <2>1, <2>2 DEF Promise!contractVars
  <2>3. ASSUME NEW d, delivered' = delivered \cup {d}, d.browser = BrowserOf[t],
               d.subject \in Disclosed(BrowserOf[t]) \cup {Empty}
        PROVE  Promise!ContractNext
    <3>1. BrowserOf[t] \in Browsers
      BY LoginAssumption
    <3>2. asserted' = asserted \cup {<<BrowserOf[t], d.subject>>}
      BY <2>3
    <3>3. Promise!Assert(BrowserOf[t])
      BY <2>1, <2>3, <3>1, <3>2 DEF Promise!Assert
    <3>4. QED
      BY <3>1, <3>3 DEF Promise!ContractNext
  <2>4. QED
    BY <1>2, <2>2, <2>3, DeliveredAsserts
<1>3. ASSUME UNCHANGED delivered,
             \/ \E t \in Tabs : StartSession(t)
             \/ \E k \in RequestorTokens : CancelOrTimeout(k)
             \/ UNCHANGED irma
      PROVE  UNCHANGED Promise!contractVars
  BY <1>3, OthersDiscloseNothing DEF Promise!contractVars
<1>4. QED
  BY <1>1, <1>2, <1>3, IrmaChanges, DeliveredChanges

\* LoginFlow implements LoginContract.
THEOREM LoginKeepsContract == Spec => KeepsContract
<1>1. Init => Promise!ContractInit
  BY DEF Init, ServiceInit, LoginInit, Promise!ContractInit, Disclosed
<1>2. LoginInv /\ [Next]_vars => [Promise!ContractNext]_(Promise!contractVars)
  BY ContractStep
<1>3. QED
  BY <1>1, <1>2, LoginInvariance, PTL DEF Spec, KeepsContract, Promise!Contract
=============================================================================
