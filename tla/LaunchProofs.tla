---------------------------- MODULE LaunchProofs ----------------------------
(***************************************************************************)
(* What a page is answered while no browser has two tabs and none mixes    *)
(* /oauth2/authorize with / -- for every number of browsers, sessions and  *)
(* launches, with races on the maps and with every fault.  (The runs       *)
(* two_tabs and stale_oauth_session show what happens otherwise.)          *)
(***************************************************************************)
EXTENDS LoginFlowProofs

OneTabEach == \A t, u \in Tabs : BrowserOf[t] = BrowserOf[u] => t = u
OneWayEach == \A t \in Tabs : \A l, m \in LaunchesOf[t] : l.kind = m.kind

Undisturbed == OneTabEach /\ OneWayEach

\* A page opened through / is opened with a redirect_uri.
WithRedirect == \A l \in Launches : l.redirectUri # NULL

(***************************************************************************)
(* The inductive invariant.                                                *)
(***************************************************************************)
\* id is the id of an OauthSession made for the launch l.
MadeFor(id, l) ==
  \E s \in Sessions : id = Id(s) /\ Live(s) /\ heap[s].request = l

\* A page that has loaded: it can be started, has been, or was stopped.
Loaded == {"ready", "waiting", "stopped"} \cup Ending

Lost(t) == session(t) = NoAttributes

\* The HttpSession has what the launch of t's page put there.
HasLaunch(t) ==
  LET l == tab[t].launch IN
  /\ session(t).attribute = OrDefault(l.attribute)
  /\ IF l.kind = "authorize" THEN MadeFor(session(t).oauthSession, l)
     ELSE session(t).oauthSession = NULL /\ session(t).redirectUri = l.redirectUri

\* The result that t's page waits for, or has, is for the launch's attribute.
HasResult(t) ==
  LET attribute == OrDefault(tab[t].launch.attribute)
      result    == irma[tab[t].token] IN
  /\ tab[t].at \in {"waiting"} \cup Ending => result.attribute = attribute
  /\ tab[t].at \in Ending => tab[t].attribute = attribute
  /\ tab[t].at = "answering" => tab[t].userIdentification = result.disclosed

LaunchOf(t) ==
  LET l == tab[t].launch IN
  /\ tab[t].at # "blank" => l \in LaunchesOf[t] /\ l.kind \in {"authorize", "index"}
  /\ tab[t].at \in {"setSession", "setRedirect", "setAttribute"} => l.kind = "authorize"
  /\ tab[t].at = "checkLaunch" => l.kind = "index"

FlowInv(t) ==
  LET at == tab[t].at
      l  == tab[t].launch IN
  /\ LaunchOf(t)
  /\ (\E m \in LaunchesOf[t] : m.kind = "index") => session(t).oauthSession = NULL
  /\ at = "setSession" => MadeFor(tab[t].oauthSession, l)
  /\ at \in {"setRedirect", "setAttribute"} => MadeFor(session(t).oauthSession, l)
  /\ at = "checkLaunch" => session(t).redirectUri = l.redirectUri
  /\ at \in Loaded /\ ~Lost(t) => HasLaunch(t) /\ HasResult(t)
  /\ at = "answering" => tab[t].oauthSession = session(t).oauthSession

\* A wallet discloses what it holds for the attribute it is asked for.
WalletInv ==
  \A k \in RequestorTokens :
    (irma[k] # NULL /\ irma[k].status = "done") =>
      irma[k].disclosed \in Wallet[irma[k].browser][irma[k].attribute]

(***************************************************************************)
(* No page holds, or can fetch, the session of a code that has gone out.   *)
(***************************************************************************)
Settles(t, s) ==
  /\ session(t).oauthSession = Id(s) => tab[t].at \in {"blank", "setSession"}
  /\ tab[t].oauthSession # Id(s)

SettledInv ==
  \A d \in delivered, s \in Sessions :
    d.code = Code(s) => \A t \in Tabs : Settles(t, s)

LaunchInv ==
  /\ LoginInv /\ WalletInv
  /\ \A t \in Tabs : FlowInv(t)
  /\ SettledInv
  /\ DeliveredAsLaunched

-----------------------------------------------------------------------------
LEMMA LaunchInitInv == Init => LaunchInv
<1> SUFFICES ASSUME Init PROVE LaunchInv
  OBVIOUS
<1>1. LoginInv /\ delivered = {}
  BY InitInv DEF Init, LoginInit
<1>2. ASSUME NEW t \in Tabs
      PROVE  FlowInv(t)
  <2>1. tab[t] = Page("blank", NULL) /\ session(t) = NoAttributes
    BY <1>1, SessionType DEF Init, LoginInit, session, LoginInv
  <2> QED
    BY <2>1 DEF FlowInv, LaunchOf, Page, NoAttributes, Loaded, Ending
<1> QED
  BY <1>1, <1>2 DEF LaunchInv, WalletInv, SettledInv, DeliveredAsLaunched, Init, LoginInit

-----------------------------------------------------------------------------
(***************************************************************************)
(* What can happen to one tab and to the HttpSession it alone uses.        *)
(***************************************************************************)
Opening(t) ==
  \E l \in LaunchesOf[t] :
    AuthorizeRefused(t, l) \/ AuthorizeStore(t, l) \/ IndexSetRedirect(t, l)

Same(t) == tab'[t] = tab[t] /\ httpSession'[BrowserOf[t]] = session(t)

LEMMA OthersLeave ==
  ASSUME LoginInv, Undisturbed, NEW t \in Tabs, NEW u \in Tabs \ {t},
         Launch(u) \/ Start(u) \/ PageReacts(u) \/ Handle(u)
  PROVE  Same(t)
<1>1. BrowserOf[u] # BrowserOf[t] /\ BrowserOf[t] \in Browsers
  BY LoginAssumption DEF Undisturbed, OneTabEach
<1>2. tab \in [Tabs -> Tab] /\ httpSession \in [Browsers -> HttpSession]
  BY DEF LoginInv, TypeOK
<1> USE <1>1, <1>2 DEF Same, SetAttribute, session
<1>3. CASE Launch(u)
  BY <1>3 DEF Launch, AuthorizeRefused, AuthorizeStore, IndexSetRedirect
<1>4. CASE Start(u) \/ PageReacts(u)
  BY <1>4 DEF Start, StartSession, StartSessionFails, PageReacts, PageStops, EndSession
<1>5. ASSUME NEW redirect, Answer(u, redirect)
      PROVE  tab'[t] = tab[t]
  BY <1>5 DEF Answer
<1>6. CASE Handle(u)
  BY <1>5, <1>6 DEF Handle, AuthorizeSetSession, AuthorizeSetRedirect,
     AuthorizeSetAttribute, IndexSetAttribute, EndFetchResult, EndFetchFails,
     EndAnswerCode, EndAnswerUnknown, EndAnswerToken, EndAnswerNowhere
<1> QED
  BY <1>3, <1>4, <1>6

LEMMA Turns ==
  ASSUME LoginInv, Undisturbed, [Next]_vars, NEW t \in Tabs
  PROVE  \/ Restart \/ SessionExpires(BrowserOf[t])
         \/ Opening(t) \/ Start(t) \/ PageReacts(t) \/ Handle(t)
         \/ Same(t)
<1> DEFINE Turn == \/ Restart \/ SessionExpires(BrowserOf[t])
                   \/ Opening(t) \/ Start(t) \/ PageReacts(t) \/ Handle(t)
                   \/ Same(t)
<1>1. ASSUME NEW b \in Browsers, SessionExpires(b)
      PROVE  Turn
  <2>1. b # BrowserOf[t] => Same(t)
    BY <1>1 DEF SessionExpires, Same, session, LoginInv, TypeOK
  <2> QED
    BY <1>1, <2>1
<1>2. ASSUME UNCHANGED <<tab, httpSession>>
      PROVE  Turn
  BY <1>2 DEF Same, session
<1>3. ASSUME NEW u \in Tabs, Launch(u) \/ Start(u) \/ PageReacts(u) \/ Handle(u)
      PROVE  Turn
  <2>1. CASE u = t
    BY <1>3, <2>1 DEF Launch, Opening
  <2>2. CASE u # t
    BY <1>3, <2>2, OthersLeave
  <2> QED
    BY <2>1, <2>2
<1>4. ASSUME NEW k \in RequestorTokens, IrmaSettles(k)
      PROVE  UNCHANGED <<tab, httpSession>>
  BY <1>4 DEF IrmaSettles, Disclose, CancelOrTimeout
<1>5. UNCHANGED vars => UNCHANGED <<tab, httpSession>>
  BY DEF vars, loginVars
<1>6. Restart => Turn
  OBVIOUS
<1> HIDE DEF Turn
<1>7. Turn
  BY <1>1, <1>2, <1>3, <1>4, <1>5, <1>6 DEF Next, LoginNext
<1> QED
  BY <1>7 DEF Turn

-----------------------------------------------------------------------------
(***************************************************************************)
(* What a step keeps of the world around a page.                           *)
(***************************************************************************)
LEMMA MadeForStep ==
  ASSUME LoginInv, [Next]_vars, ~Restart, NEW id, NEW l, MadeFor(id, l)
  PROVE  MadeFor(id, l)'
<1>1. PICK s \in Sessions : id = Id(s) /\ Live(s) /\ heap[s].request = l
  BY DEF MadeFor
<1>2. Live(s)' /\ heap'[s].request = l
  BY <1>1, HeapStep DEF Live
<1> QED
  BY <1>1, <1>2 DEF MadeFor, Id

LEMMA WalletStep ==
  ASSUME LoginInv, WalletInv, [Next]_vars
  PROVE  WalletInv'
<1> SUFFICES ASSUME NEW k \in RequestorTokens, irma'[k] # NULL, irma'[k].status = "done"
             PROVE  irma'[k].disclosed \in Wallet[irma'[k].browser][irma'[k].attribute]
  BY DEF WalletInv
<1>1. irma \in [RequestorTokens -> IrmaSession \cup {NULL}]
  BY DEF LoginInv, TypeOK
<1>2. CASE irma'[k] = irma[k]
  BY <1>2 DEF WalletInv
<1>3. ASSUME NEW t \in Tabs, StartSession(t), irma'[k] # irma[k]
      PROVE  FALSE
  <2>1. irma'[k].status = "initialized"
    BY <1>1, <1>3 DEF StartSession
  <2> QED
    BY <2>1
<1>4. ASSUME NEW j \in RequestorTokens, CancelOrTimeout(j), irma'[k] # irma[k]
      PROVE  FALSE
  <2>1. irma'[k] = [irma[k] EXCEPT !.status = "over"] /\ irma[k] \in IrmaSession
    BY <1>1, <1>4 DEF CancelOrTimeout
  <2> QED
    BY <2>1 DEF IrmaSession
<1>5. ASSUME NEW j \in RequestorTokens, Disclose(j), irma'[k] # irma[k]
      PROVE  irma'[k].disclosed \in Wallet[irma'[k].browser][irma'[k].attribute]
  <2>1. j = k /\ irma[k] \in IrmaSession
    BY <1>1, <1>5 DEF Disclose
  <2>2. PICK v \in Wallet[irma[k].browser][irma[k].attribute] :
          irma' = [irma EXCEPT ![k] = [@ EXCEPT !.status = "done", !.disclosed = v]]
    BY <1>5, <2>1 DEF Disclose
  <2>3. irma'[k] = [irma[k] EXCEPT !.status = "done", !.disclosed = v]
    BY <1>1, <2>2
  <2>4. /\ irma'[k].disclosed = v /\ irma'[k].browser = irma[k].browser
        /\ irma'[k].attribute = irma[k].attribute
    BY <2>1, <2>3 DEF IrmaSession
  <2> QED
    BY <2>2, <2>4
<1> QED
  BY <1>2, <1>3, <1>4, <1>5, IrmaChanges

\* What a page has of its IRMA session stays while the page does.
LEMMA ResultKept ==
  ASSUME LoginInv, [Next]_vars, NEW t \in Tabs, tab[t].at \in {"waiting"} \cup Ending
  PROVE  LET k == tab[t].token IN
         /\ irma'[k].attribute = irma[k].attribute
         /\ tab[t].at \in Ending => irma'[k] = irma[k]
BY IrmaStep DEF LoginInv, TabInv, PageInv

LEMMA SameKeeps ==
  ASSUME LoginInv, [Next]_vars, ~Restart, NEW t \in Tabs, FlowInv(t), Same(t)
  PROVE  FlowInv(t)'
<1>1. tab'[t] = tab[t] /\ httpSession'[BrowserOf[t]] = httpSession[BrowserOf[t]]
  BY DEF Same, session
<1>2. HasLaunch(t) => HasLaunch(t)'
  BY <1>1, MadeForStep DEF HasLaunch, session
<1>3. HasResult(t) => HasResult(t)'
  BY <1>1, ResultKept DEF HasResult, Ending
<1>4. Lost(t)' <=> Lost(t)
  BY <1>1 DEF Lost, session
<1>5. LaunchOf(t)'
  BY <1>1 DEF FlowInv, LaunchOf
<1>6. /\ tab[t].at = "setSession" => MadeFor(tab[t].oauthSession, tab[t].launch)'
      /\ tab[t].at \in {"setRedirect", "setAttribute"} =>
           MadeFor(session(t).oauthSession, tab[t].launch)'
  BY <1>1, MadeForStep DEF FlowInv, session
<1> QED
  BY <1>1, <1>2, <1>3, <1>4, <1>5, <1>6 DEF FlowInv, session

(***************************************************************************)
(* A page whose HttpSession is lost owes nothing but its launch.           *)
(***************************************************************************)
LEMMA LostKeeps ==
  ASSUME NEW t \in Tabs, LaunchOf(t)', Lost(t)',
         tab'[t].at \in {"blank"} \cup Loaded, tab'[t].at # "answering"
  PROVE  FlowInv(t)'
BY DEF FlowInv, Lost, NoAttributes, Loaded, Ending

LEMMA RestartKeeps ==
  ASSUME LoginInv, Restart, NEW t \in Tabs, FlowInv(t)
  PROVE  FlowInv(t)'
<1>1. Lost(t)'
  BY LoginAssumption DEF Restart, Lost, session
<1>2. tab'[t] = CASE tab[t].at \in Launching -> Page("blank", NULL)
                  [] tab[t].at \in Ending    -> Page("stopped", tab[t].launch)
                  [] OTHER                   -> tab[t]
  BY DEF Restart
<1>3. LaunchOf(t) /\ tab[t] \in Tab
  BY SessionType DEF FlowInv, LoginInv
<1>4. CASE tab[t].at \in Launching
  <2>1. tab'[t] = Page("blank", NULL)
    BY <1>2, <1>4 DEF Ending, Launching
  <2> QED
    BY <1>1, <2>1, LostKeeps DEF LaunchOf, Page
<1>5. CASE tab[t].at \in Ending
  <2>1. tab'[t] = Page("stopped", tab[t].launch)
    BY <1>2, <1>5 DEF Ending, Launching
  <2> QED
    BY <1>1, <1>3, <1>5, <2>1, LostKeeps DEF LaunchOf, Page, Ending, Loaded
<1>6. CASE tab[t].at \notin Launching \cup Ending
  <2>1. tab'[t] = tab[t]
    BY <1>2, <1>6
  <2> QED
    BY <1>1, <1>3, <1>6, <2>1, LostKeeps DEF LaunchOf, Tab, Showing, Ending, Loaded
<1> QED
  BY <1>4, <1>5, <1>6

LEMMA ExpiryKeeps ==
  ASSUME LoginInv, NEW t \in Tabs, FlowInv(t), SessionExpires(BrowserOf[t])
  PROVE  FlowInv(t)'
<1>1. tab'[t] = tab[t] /\ ~InFlight(t)
  BY DEF SessionExpires
<1>2. Lost(t)'
  BY LoginAssumption DEF SessionExpires, Lost, session, LoginInv, TypeOK
<1>3. LaunchOf(t) /\ tab[t] \in Tab
  BY SessionType DEF FlowInv, LoginInv
<1>4. tab[t].at \in Showing
  BY <1>1, <1>3 DEF InFlight, Tab
<1> QED
  BY <1>1, <1>2, <1>3, <1>4, LostKeeps DEF LaunchOf, Showing, Loaded, Ending

(***************************************************************************)
(* The steps of the tab itself.                                            *)
(***************************************************************************)
\* A page that is blank again.
LEMMA BlankKeeps ==
  ASSUME NEW t \in Tabs, FlowInv(t), tab'[t] = Page("blank", NULL),
         session(t)'.oauthSession = session(t).oauthSession
  PROVE  FlowInv(t)'
BY DEF FlowInv, LaunchOf, Page, Loaded, Ending

\* A page that is stopped, or loaded again, as its HttpSession is.
LEMMA StoppedKeeps ==
  ASSUME LoginInv, [Next]_vars, ~Restart, NEW t \in Tabs, FlowInv(t),
         tab[t].at \in Loaded, httpSession'[BrowserOf[t]] = session(t),
         tab'[t].at = "stopped", tab'[t].launch = tab[t].launch
  PROVE  FlowInv(t)'
<1>1. LaunchOf(t)'
  BY DEF FlowInv, LaunchOf, Loaded, Ending
<1>2. HasLaunch(t) => HasLaunch(t)'
  BY MadeForStep DEF HasLaunch, session
<1>3. HasResult(t)'
  BY DEF HasResult, Ending
<1> QED
  BY <1>1, <1>2, <1>3 DEF FlowInv, Lost, session

LEMMA OpeningKeeps ==
  ASSUME LoginInv, OneWayEach, NEW t \in Tabs, FlowInv(t), NEW l \in LaunchesOf[t],
         \/ AuthorizeRefused(t, l) \/ AuthorizeStore(t, l) \/ IndexSetRedirect(t, l)
  PROVE  FlowInv(t)'
<1>1. /\ tab \in [Tabs -> Tab] /\ httpSession \in [Browsers -> HttpSession]
      /\ BrowserOf[t] \in Browsers /\ l \in Launches
  BY LoginAssumption DEF LoginInv, TypeOK
<1>2. CASE AuthorizeRefused(t, l)
  BY <1>1, <1>2, BlankKeeps DEF AuthorizeRefused, session
<1>3. CASE AuthorizeStore(t, l)
  <2>1. PICK s \in Sessions :
          /\ heap'[s] = NewOauthSession(s, l, BrowserOf[t]) /\ Owns(BrowserOf[t], s)'
          /\ tab' = [tab EXCEPT ![t] =
                       [Page("setSession", l) EXCEPT !.oauthSession = Id(s)]]
    BY <1>1, <1>3, NewSession
  <2>2. /\ tab'[t].at = "setSession" /\ tab'[t].launch = l
        /\ tab'[t].oauthSession = Id(s)
    BY <1>1, <2>1 DEF Page
  <2>3. l.kind = "authorize" /\ UNCHANGED httpSession
    BY <1>3 DEF AuthorizeStore, Opens
  <2>4. MadeFor(tab[t].oauthSession, tab[t].launch)'
    BY <2>1, <2>2 DEF MadeFor, NewOauthSession, Owns, Id
  <2> QED
    BY <2>2, <2>3, <2>4 DEF FlowInv, LaunchOf, Loaded, Ending, session
<1>4. CASE IndexSetRedirect(t, l)
  <2>1. /\ tab'[t] = Page("checkLaunch", l) /\ l.kind = "index"
        /\ httpSession'[BrowserOf[t]] = [session(t) EXCEPT !.redirectUri = l.redirectUri]
        /\ session(t) \in HttpSession
    BY <1>1, <1>4 DEF IndexSetRedirect, Opens, SetAttribute, session
  <2>2. /\ session(t)'.oauthSession = session(t).oauthSession
        /\ session(t)'.redirectUri = l.redirectUri
    BY <2>1 DEF HttpSession, session
  <2> QED
    BY <2>1, <2>2 DEF FlowInv, LaunchOf, Page, Loaded, Ending
<1> QED
  BY <1>2, <1>3, <1>4

LEMMA LaunchingKeeps ==
  ASSUME LoginInv, OneWayEach, [Next]_vars, ~Restart, NEW t \in Tabs, FlowInv(t),
         \/ AuthorizeSetSession(t) \/ AuthorizeSetRedirect(t)
         \/ AuthorizeSetAttribute(t) \/ IndexSetAttribute(t)
  PROVE  FlowInv(t)'
<1> DEFINE l == tab[t].launch
<1>1. /\ tab \in [Tabs -> Tab] /\ httpSession \in [Browsers -> HttpSession]
      /\ BrowserOf[t] \in Browsers /\ tab[t] \in Tab /\ session(t) \in HttpSession
  BY SessionType DEF LoginInv, TypeOK
<1>2. CASE AuthorizeSetSession(t)
  <2>1. /\ tab'[t] = Page("setRedirect", l) /\ l \in LaunchesOf[t]
        /\ l.kind = "authorize" /\ MadeFor(tab[t].oauthSession, l)
        /\ session(t)' = [session(t) EXCEPT !.oauthSession = tab[t].oauthSession]
    BY <1>1, <1>2 DEF AuthorizeSetSession, SetAttribute, session, FlowInv, LaunchOf
  <2>2. session(t)'.oauthSession = tab[t].oauthSession
    BY <1>1, <2>1 DEF HttpSession
  <2>3. MadeFor(session(t).oauthSession, l)'
    BY <2>1, <2>2, MadeForStep DEF Page
  <2>4. \A m \in LaunchesOf[t] : m.kind # "index"
    BY <2>1 DEF OneWayEach
  <2> QED
    BY <2>1, <2>3, <2>4 DEF FlowInv, LaunchOf, Page, Loaded, Ending
<1>3. CASE AuthorizeSetRedirect(t)
  <2>1. /\ tab'[t] = [tab[t] EXCEPT !.at = "setAttribute"] /\ LaunchOf(t)
        /\ l.kind = "authorize" /\ MadeFor(session(t).oauthSession, l)
        /\ session(t)' = [session(t) EXCEPT !.redirectUri = l.redirectUri]
    BY <1>1, <1>3 DEF AuthorizeSetRedirect, SetAttribute, session, FlowInv, LaunchOf
  <2>2. /\ session(t)'.oauthSession = session(t).oauthSession
        /\ tab'[t].launch = l /\ tab'[t].at = "setAttribute"
    BY <1>1, <2>1 DEF HttpSession, Tab
  <2>3. MadeFor(session(t).oauthSession, tab[t].launch)'
    BY <2>1, <2>2, MadeForStep
  <2> QED
    BY <2>1, <2>2, <2>3, <1>3
       DEF FlowInv, LaunchOf, Loaded, Ending, AuthorizeSetRedirect
<1>4. CASE AuthorizeSetAttribute(t)
  <2>1. /\ tab'[t] = [tab[t] EXCEPT !.at = "ready"] /\ LaunchOf(t)
        /\ tab[t].at = "setAttribute"
        /\ l.kind = "authorize" /\ MadeFor(session(t).oauthSession, l)
        /\ session(t)' = [session(t) EXCEPT !.attribute = OrDefault(l.attribute)]
    BY <1>1, <1>4 DEF AuthorizeSetAttribute, SetAttribute, session, FlowInv, LaunchOf
  <2>2. /\ session(t)'.oauthSession = session(t).oauthSession
        /\ session(t)'.attribute = OrDefault(l.attribute)
        /\ tab'[t].launch = l /\ tab'[t].at = "ready"
    BY <1>1, <2>1 DEF HttpSession, Tab
  <2>3. MadeFor(session(t).oauthSession, l)'
    BY <2>1, <2>2, MadeForStep
  <2>4. HasLaunch(t)' /\ HasResult(t)'
    BY <2>1, <2>2, <2>3 DEF HasLaunch, HasResult, Ending
  <2> QED
    BY <2>1, <2>2, <2>4 DEF FlowInv, LaunchOf
<1>5. CASE IndexSetAttribute(t)
  <2>1. /\ \/ tab'[t] = Page("ready", l) \/ tab'[t] = Page("blank", NULL)
        /\ tab[t].at = "checkLaunch" /\ l \in LaunchesOf[t] /\ l.kind = "index"
        /\ session(t).redirectUri = l.redirectUri
        /\ session(t)' = [session(t) EXCEPT !.attribute = OrDefault(l.attribute)]
    BY <1>1, <1>5 DEF IndexSetAttribute, SetAttribute, session, FlowInv, LaunchOf
  <2>2. /\ session(t)'.oauthSession = session(t).oauthSession
        /\ session(t)'.redirectUri = session(t).redirectUri
        /\ session(t)'.attribute = OrDefault(l.attribute)
    BY <1>1, <2>1 DEF HttpSession
  <2>3. session(t).oauthSession = NULL
    BY <2>1 DEF FlowInv
  <2>4. CASE tab'[t] = Page("ready", l)
    <3>1. HasLaunch(t)' /\ HasResult(t)'
      BY <2>1, <2>2, <2>3, <2>4 DEF HasLaunch, HasResult, Ending, Page
    <3> QED
      BY <2>1, <2>2, <2>3, <2>4, <3>1 DEF FlowInv, LaunchOf, Page
  <2>5. CASE tab'[t] = Page("blank", NULL)
    BY <2>2, <2>5, BlankKeeps
  <2> QED
    BY <2>1, <2>4, <2>5
<1> QED
  BY <1>2, <1>3, <1>4, <1>5

\* The attribute that the HttpSession has for the launch is a real one.
LEMMA LaunchAttribute ==
  ASSUME LoginInv, NEW t \in Tabs, LaunchOf(t), tab[t].at # "blank", HasLaunch(t)
  PROVE  OrDefault(session(t).attribute) = OrDefault(tab[t].launch.attribute)
<1>1. tab[t].launch \in Launches
  BY LoginAssumption DEF LaunchOf
<1>2. OrDefault(tab[t].launch.attribute) \in Attributes
  BY <1>1, LoginAssumption DEF OrDefault
<1> QED
  BY <1>2, LoginAssumption DEF HasLaunch, OrDefault

LEMMA StartKeeps ==
  ASSUME LoginInv, [Next]_vars, ~Restart, NEW t \in Tabs, FlowInv(t), Start(t)
  PROVE  FlowInv(t)'
<1>1. /\ tab \in [Tabs -> Tab] /\ tab[t] \in Tab /\ UNCHANGED httpSession
      /\ irma \in [RequestorTokens -> IrmaSession \cup {NULL}]
  BY SessionType DEF LoginInv, TypeOK, Start, StartSession, StartSessionFails
<1>2. CASE StartSession(t)
  <2>1. PICK k \in RequestorTokens :
          /\ irma' = [irma EXCEPT ![k] =
                        [browser |-> BrowserOf[t],
                         attribute |-> OrDefault(session(t).attribute),
                         status |-> "initialized", disclosed |-> NULL]]
          /\ tab' = [tab EXCEPT ![t] = [@ EXCEPT !.at = "waiting", !.token = k]]
    BY <1>2 DEF StartSession
  <2>2. /\ tab'[t].at = "waiting" /\ tab'[t].token = k
        /\ tab'[t].launch = tab[t].launch
        /\ irma'[k].attribute = OrDefault(session(t).attribute)
    BY <1>1, <2>1 DEF Tab
  <2>3. LaunchOf(t) /\ tab[t].at \in Loaded /\ tab[t].at # "blank"
    BY <1>2 DEF FlowInv, StartSession, Loaded
  <2>4. ASSUME ~Lost(t)
        PROVE  HasLaunch(t)' /\ HasResult(t)'
    <3>1. HasLaunch(t)
      BY <2>3, <2>4 DEF FlowInv
    <3>2. HasLaunch(t)'
      BY <1>1, <2>2, <3>1, MadeForStep DEF HasLaunch, session
    <3>3. irma'[k].attribute = OrDefault(tab[t].launch.attribute)
      BY <2>2, <2>3, <3>1, LaunchAttribute
    <3>4. HasResult(t)'
      BY <2>2, <3>3 DEF HasResult, Ending
    <3> QED
      BY <3>2, <3>4
  <2> QED
    BY <1>1, <2>2, <2>3, <2>4 DEF FlowInv, LaunchOf, Lost, session
<1>3. CASE StartSessionFails(t)
  BY <1>1, <1>3, StoppedKeeps DEF StartSessionFails, session, Loaded, Tab
<1> QED
  BY <1>2, <1>3 DEF Start

LEMMA PageReactsKeeps ==
  ASSUME LoginInv, [Next]_vars, ~Restart, NEW t \in Tabs, FlowInv(t), PageReacts(t)
  PROVE  FlowInv(t)'
<1>1. /\ tab \in [Tabs -> Tab] /\ tab[t] \in Tab /\ UNCHANGED <<httpSession, irma>>
      /\ tab[t].at = "waiting" /\ LaunchOf(t)
  BY SessionType DEF LoginInv, TypeOK, PageReacts, PageStops, EndSession, FlowInv
<1>2. CASE PageStops(t)
  BY <1>1, <1>2, StoppedKeeps DEF PageStops, session, Loaded, Page
<1>3. CASE EndSession(t)
  <2>1. /\ tab'[t].at = "fetching" /\ tab'[t].token = tab[t].token
        /\ tab'[t].launch = tab[t].launch
        /\ tab'[t].attribute = OrDefault(session(t).attribute)
    BY <1>1, <1>3 DEF EndSession, Tab
  <2>2. ASSUME ~Lost(t)
        PROVE  HasLaunch(t)' /\ HasResult(t)'
    <3>1. HasLaunch(t) /\ HasResult(t)
      BY <1>1, <2>2 DEF FlowInv, Loaded
    <3>2. HasLaunch(t)'
      BY <1>1, <2>1, <3>1, MadeForStep DEF HasLaunch, session
    <3>3. tab'[t].attribute = OrDefault(tab[t].launch.attribute)
      BY <1>1, <2>1, <3>1, LaunchAttribute
    <3>4. HasResult(t)'
      BY <1>1, <2>1, <3>1, <3>3 DEF HasResult
    <3> QED
      BY <3>2, <3>4
  <2> QED
    BY <1>1, <2>1, <2>2 DEF FlowInv, LaunchOf, Lost, session
<1> QED
  BY <1>2, <1>3 DEF PageReacts

LEMMA FetchKeeps ==
  ASSUME LoginInv, [Next]_vars, ~Restart, NEW t \in Tabs, FlowInv(t),
         EndFetchResult(t) \/ EndFetchFails(t)
  PROVE  FlowInv(t)'
<1>1. /\ tab \in [Tabs -> Tab] /\ tab[t] \in Tab /\ UNCHANGED <<httpSession, irma>>
      /\ tab[t].at = "fetching" /\ LaunchOf(t)
  BY SessionType DEF LoginInv, TypeOK, EndFetchResult, EndFetchFails, FlowInv
<1>2. CASE EndFetchFails(t)
  BY <1>1, <1>2, StoppedKeeps DEF EndFetchFails, session, Loaded, Ending, Page
<1>3. CASE EndFetchResult(t)
  <2>1. /\ tab'[t].at = "answering" /\ tab'[t].token = tab[t].token
        /\ tab'[t].launch = tab[t].launch /\ tab'[t].attribute = tab[t].attribute
        /\ tab'[t].userIdentification = Matched(irma[tab[t].token], tab[t].attribute)
        /\ tab'[t].oauthSession = session(t).oauthSession
    BY <1>1, <1>3 DEF EndFetchResult, Tab
  <2>2. ASSUME ~Lost(t)
        PROVE  HasLaunch(t)' /\ HasResult(t)'
    <3>1. HasLaunch(t) /\ HasResult(t)
      BY <1>1, <2>2 DEF FlowInv, Loaded, Ending
    <3>2. HasLaunch(t)'
      BY <1>1, <2>1, <3>1, MadeForStep DEF HasLaunch, session
    <3>3. HasResult(t)'
      BY <1>1, <2>1, <3>1 DEF HasResult, Matched, Ending
    <3> QED
      BY <3>2, <3>3
  <2> QED
    BY <1>1, <2>1, <2>2 DEF FlowInv, LaunchOf, Lost, session
<1> QED
  BY <1>2, <1>3

LEMMA AnswerKeeps ==
  ASSUME LoginInv, [Next]_vars, ~Restart, NEW t \in Tabs, FlowInv(t),
         \/ EndAnswerCode(t) \/ EndAnswerUnknown(t)
         \/ EndAnswerToken(t) \/ EndAnswerNowhere(t)
  PROVE  FlowInv(t)'
<1>1. /\ tab \in [Tabs -> Tab] /\ tab[t].at = "answering"
      /\ httpSession'[BrowserOf[t]] = session(t)
  BY DEF LoginInv, TypeOK, EndAnswerCode, EndAnswerUnknown, EndAnswerToken,
     EndAnswerNowhere, session
<1>2. ASSUME NEW redirect, Answer(t, redirect)
      PROVE  \/ tab'[t] = Page("blank", NULL)
             \/ tab'[t] = Page("stopped", tab[t].launch)
  BY <1>1, <1>2 DEF Answer
<1>3. \/ tab'[t] = Page("blank", NULL)
      \/ tab'[t] = Page("stopped", tab[t].launch)
  BY <1>1, <1>2 DEF EndAnswerCode, EndAnswerUnknown, EndAnswerToken, EndAnswerNowhere
<1> QED
  BY <1>1, <1>3, BlankKeeps, StoppedKeeps DEF Page, Loaded, Ending, session

LEMMA FlowStep ==
  ASSUME LoginInv, Undisturbed, [Next]_vars, \A t \in Tabs : FlowInv(t), NEW t \in Tabs
  PROVE  FlowInv(t)'
<1>1. CASE Restart
  BY <1>1, RestartKeeps
<1>2. CASE ~Restart
  BY <1>2, Turns, ExpiryKeeps, OpeningKeeps, LaunchingKeeps, StartKeeps,
     PageReactsKeeps, FetchKeeps, AnswerKeeps, SameKeeps
     DEF Opening, Handle, Undisturbed
<1> QED
  BY <1>1, <1>2

-----------------------------------------------------------------------------
(***************************************************************************)
(* The redirects.                                                          *)
(***************************************************************************)
\* A result that is answered is what the user holds for the attribute.
LEMMA SubjectHeld ==
  ASSUME LoginInv, WalletInv, NEW t \in Tabs, tab[t].at = "answering", HasResult(t)
  PROVE  tab[t].userIdentification
           \in Wallet[BrowserOf[t]][OrDefault(tab[t].launch.attribute)]
<1>1. /\ tab[t].token \in RequestorTokens /\ irma[tab[t].token] # NULL
      /\ irma[tab[t].token].browser = BrowserOf[t]
      /\ irma[tab[t].token].status = "done"
  BY DEF LoginInv, TabInv, PageInv, Ending
<1> QED
  BY <1>1 DEF WalletInv, HasResult, Ending

\* A tab that answers still has what its launch put in the HttpSession.
LEMMA StillHas ==
  ASSUME NEW t \in Tabs, FlowInv(t), tab[t].at = "answering",
         tab[t].oauthSession # NULL \/ session(t).redirectUri # NULL
  PROVE  HasLaunch(t) /\ HasResult(t) /\ LaunchOf(t)
BY DEF FlowInv, Lost, NoAttributes, Loaded, Ending

LEMMA CodeAnswersLaunch ==
  ASSUME LoginInv, WalletInv, NEW t \in Tabs, FlowInv(t), EndAnswerCode(t),
         NEW d \in delivered' \ delivered
  PROVE  AnswersLaunch(d)
<1>1. PICK s \in Sessions :
        /\ tab[t].oauthSession = Id(s)
        /\ Answer(t, [browser |-> BrowserOf[t], launch |-> tab[t].launch,
                      uri     |-> heap[s].request.redirectUri,
                      code    |-> Code(s), state |-> heap[s].request.state,
                      subject |-> tab[t].userIdentification])
  BY CodeAnswer
<1>2. /\ d.browser = BrowserOf[t] /\ d.launch = tab[t].launch
      /\ d.uri = heap[s].request.redirectUri /\ d.state = heap[s].request.state
      /\ d.code = Code(s) /\ d.subject = tab[t].userIdentification
  BY <1>1 DEF Answer
<1>3. tab[t].at = "answering" /\ tab[t].oauthSession # NULL
  BY DEF EndAnswerCode
<1>4. HasLaunch(t) /\ HasResult(t) /\ session(t).oauthSession = Id(s)
  BY <1>1, <1>3, StillHas DEF FlowInv
<1>5. tab[t].launch.kind = "authorize" /\ MadeFor(Id(s), tab[t].launch)
  BY <1>3, <1>1, <1>4 DEF HasLaunch
<1>6. heap[s].request = tab[t].launch
  BY <1>5 DEF MadeFor, Id
<1>7. d.code # NULL
  BY <1>2, ObjectAssumption DEF Codes
<1> QED
  BY <1>2, <1>3, <1>4, <1>5, <1>6, <1>7, SubjectHeld DEF AnswersLaunch

LEMMA TokenAnswersLaunch ==
  ASSUME LoginInv, WalletInv, NEW t \in Tabs, FlowInv(t), EndAnswerToken(t),
         NEW d \in delivered' \ delivered
  PROVE  AnswersLaunch(d)
<1>1. /\ d.browser = BrowserOf[t] /\ d.launch = tab[t].launch
      /\ d.uri = session(t).redirectUri /\ d.code = NULL
      /\ d.subject = tab[t].userIdentification
  BY DEF EndAnswerToken, Answer
<1>2. /\ tab[t].at = "answering" /\ tab[t].oauthSession = NULL
      /\ session(t).redirectUri # NULL
  BY DEF EndAnswerToken
<1>3. HasLaunch(t) /\ HasResult(t) /\ session(t).oauthSession = NULL
  BY <1>2, StillHas DEF FlowInv
<1>4. tab[t].launch.kind # "authorize"
  BY <1>3, ObjectAssumption DEF HasLaunch, MadeFor, Ids
<1>5. session(t).redirectUri = tab[t].launch.redirectUri
  BY <1>3, <1>4 DEF HasLaunch
<1> QED
  BY <1>1, <1>2, <1>3, <1>4, <1>5, SubjectHeld DEF AnswersLaunch

LEMMA LaunchedStep ==
  ASSUME LaunchInv, [Next]_vars
  PROVE  DeliveredAsLaunched'
<1> SUFFICES ASSUME NEW d \in delivered' \ delivered
             PROVE  AnswersLaunch(d)
  BY DEF LaunchInv, DeliveredAsLaunched, AnswersLaunch
<1> QED
  BY DeliveredChanges, CodeAnswersLaunch, TokenAnswersLaunch DEF LaunchInv

-----------------------------------------------------------------------------
(***************************************************************************)
(* A code that is out is not answered again.                               *)
(***************************************************************************)
\* A session belongs to one browser, so to one tab.
LEMMA OneOwner ==
  ASSUME OneTabEach, NEW t \in Tabs, NEW u \in Tabs, NEW s \in Sessions,
         Owns(BrowserOf[t], s), Owns(BrowserOf[u], s)
  PROVE  t = u
BY DEF Owns, OneTabEach

\* The tab that is answered a code is left; no other has the session.
LEMMA NewCodeSettles ==
  ASSUME LaunchInv, Undisturbed, NEW u \in Tabs, EndAnswerCode(u),
         NEW d \in delivered' \ delivered,
         NEW s \in Sessions, d.code = Code(s), NEW t \in Tabs
  PROVE  Settles(t, s)'
<1>1. PICK o \in Sessions :
        /\ Owns(BrowserOf[u], o)
        /\ Answer(u, [browser |-> BrowserOf[u], launch |-> tab[u].launch,
                      uri     |-> heap[o].request.redirectUri,
                      code    |-> Code(o), state |-> heap[o].request.state,
                      subject |-> tab[u].userIdentification])
  BY CodeAnswer DEF LaunchInv
<1>2. s = o /\ tab' = [tab EXCEPT ![u] = Page("blank", NULL)]
  BY <1>1 DEF Answer, Code
<1>3. /\ tab \in [Tabs -> Tab] /\ UNCHANGED httpSession /\ BrowserOf[t] \in Browsers
      /\ HttpSessionInv /\ PageInv(t)
  BY LoginAssumption DEF EndAnswerCode, LaunchInv, LoginInv, TypeOK, TabInv
<1>4. CASE t = u
  BY <1>2, <1>3, <1>4, ObjectAssumption DEF Settles, Page, Ids, session
<1>5. CASE t # u
  <2>1. ~Owns(BrowserOf[t], s)
    BY <1>1, <1>2, <1>5, OneOwner DEF Undisturbed
  <2>2. tab'[t] = tab[t]
    BY <1>2, <1>3, <1>5
  <2> QED
    BY <1>3, <2>1, <2>2 DEF HttpSessionInv, PageInv, Settles, session
<1> QED
  BY <1>4, <1>5

\* Where the ids that a request of t's page leaves behind come from.
LEMMA IdsOfTab ==
  ASSUME LoginInv, NEW t \in Tabs, Start(t) \/ PageReacts(t) \/ Handle(t)
  PROVE  /\ tab[t].at # "blank"
         /\ \/ /\ tab[t].at = "setSession"
               /\ httpSession'[BrowserOf[t]].oauthSession = tab[t].oauthSession
               /\ tab'[t].oauthSession = NULL
            \/ /\ tab[t].at # "setSession"
               /\ httpSession'[BrowserOf[t]].oauthSession = session(t).oauthSession
               /\ tab'[t].oauthSession
                    \in {NULL, tab[t].oauthSession, session(t).oauthSession}
<1>1. /\ tab \in [Tabs -> Tab] /\ httpSession \in [Browsers -> HttpSession]
      /\ BrowserOf[t] \in Browsers
  BY LoginAssumption DEF LoginInv, TypeOK
<1>2. ASSUME NEW new \in HttpSession, SetAttribute(t, new)
      PROVE  httpSession'[BrowserOf[t]] = new
  BY <1>1, <1>2 DEF SetAttribute
<1>3. session(t) \in HttpSession /\ tab[t] \in Tab
  BY <1>1 DEF session
<1>4. CASE Start(t) \/ PageReacts(t)
  <2>1. CASE StartSession(t)
    <3>1. PICK k \in RequestorTokens :
            tab' = [tab EXCEPT ![t] = [@ EXCEPT !.at = "waiting", !.token = k]]
      BY <2>1 DEF StartSession
    <3>2. tab'[t].oauthSession = tab[t].oauthSession
      BY <1>1, <1>3, <3>1 DEF Tab
    <3> QED
      BY <2>1, <3>2 DEF StartSession, session
  <2>2. CASE StartSessionFails(t)
    <3>1. tab'[t].oauthSession = tab[t].oauthSession
      BY <1>1, <1>3, <2>2 DEF StartSessionFails, Tab
    <3> QED
      BY <2>2, <3>1 DEF StartSessionFails, session
  <2>3. CASE PageStops(t)
    <3>1. tab'[t].oauthSession = NULL
      BY <1>1, <2>3 DEF PageStops, Page
    <3> QED
      BY <2>3, <3>1 DEF PageStops, session
  <2>4. CASE EndSession(t)
    <3>1. tab'[t].oauthSession = tab[t].oauthSession
      BY <1>1, <1>3, <2>4 DEF EndSession, Tab
    <3> QED
      BY <2>4, <3>1 DEF EndSession, session
  <2> QED
    BY <1>4, <2>1, <2>2, <2>3, <2>4 DEF Start, PageReacts
<1>5. CASE AuthorizeSetSession(t)
  BY <1>1, <1>3, <1>5 DEF AuthorizeSetSession, SetAttribute, Page, session, HttpSession
<1>6. CASE AuthorizeSetRedirect(t) \/ AuthorizeSetAttribute(t)
  BY <1>1, <1>3, <1>6 DEF AuthorizeSetRedirect, AuthorizeSetAttribute, SetAttribute,
     session, HttpSession, Tab
<1>7. CASE IndexSetAttribute(t)
  BY <1>1, <1>3, <1>7 DEF IndexSetAttribute, SetAttribute, session, HttpSession, Page
<1>8. CASE EndFetchResult(t) \/ EndFetchFails(t)
  <2>1. CASE EndFetchResult(t)
    <3>1. tab'[t].oauthSession = session(t).oauthSession
      BY <1>1, <1>3, <2>1 DEF EndFetchResult, Tab
    <3> QED
      BY <2>1, <3>1 DEF EndFetchResult, session
  <2>2. CASE EndFetchFails(t)
    <3>1. tab'[t].oauthSession = NULL
      BY <1>1, <2>2 DEF EndFetchFails, Page
    <3> QED
      BY <2>2, <3>1 DEF EndFetchFails, session
  <2> QED
    BY <1>8, <2>1, <2>2
<1>9. ASSUME NEW redirect, Answer(t, redirect)
      PROVE  tab'[t].oauthSession = NULL
  BY <1>1, <1>9 DEF Answer, Page
<1>10. CASE \/ EndAnswerCode(t) \/ EndAnswerUnknown(t)
            \/ EndAnswerToken(t) \/ EndAnswerNowhere(t)
  <2>1. /\ tab[t].at = "answering"
        /\ UNCHANGED httpSession
    BY <1>10 DEF EndAnswerCode, EndAnswerUnknown, EndAnswerToken, EndAnswerNowhere
  <2>2. ASSUME EndAnswerCode(t) \/ EndAnswerToken(t)
        PROVE  tab'[t].oauthSession = NULL
    <3>1. \E redirect : Answer(t, redirect)
      BY <2>2 DEF EndAnswerCode, EndAnswerToken
    <3> QED
      BY <1>9, <3>1
  <2>3. ASSUME EndAnswerUnknown(t) \/ EndAnswerNowhere(t)
        PROVE  tab'[t].oauthSession = NULL
    BY <1>1, <2>3 DEF EndAnswerUnknown, EndAnswerNowhere, Page
  <2>4. tab'[t].oauthSession = NULL
    BY <1>10, <2>2, <2>3
  <2> QED
    BY <2>1, <2>4 DEF session
<1> QED
  BY <1>4, <1>5, <1>6, <1>7, <1>8, <1>10 DEF Handle

LEMMA SettlesStep ==
  ASSUME LaunchInv, Undisturbed, [Next]_vars, NEW t \in Tabs,
         NEW s \in Sessions, heap[s] # NULL, Settles(t, s)
  PROVE  Settles(t, s)'
<1>1. /\ tab \in [Tabs -> Tab] /\ BrowserOf[t] \in Browsers /\ LoginInv /\ FlowInv(t)
      /\ httpSession \in [Browsers -> HttpSession]
  BY LoginAssumption DEF LaunchInv, LoginInv, TypeOK
<1>2. NoAttributes.oauthSession # Id(s) /\ NULL # Id(s)
  BY ObjectAssumption DEF NoAttributes, Ids
<1>3. CASE Restart
  <2>1. httpSession'[BrowserOf[t]] = NoAttributes
    BY <1>1, <1>3 DEF Restart
  <2>2. tab'[t] \in {Page("blank", NULL), Page("stopped", tab[t].launch), tab[t]}
    BY <1>3 DEF Restart, Launching, Ending
  <2> QED
    BY <1>2, <2>1, <2>2 DEF Settles, Page, session
<1>4. CASE SessionExpires(BrowserOf[t])
  BY <1>1, <1>2, <1>4 DEF SessionExpires, Settles, session
<1>5. ASSUME NEW l \in LaunchesOf[t], AuthorizeRefused(t, l)
      PROVE  Settles(t, s)'
  BY <1>1, <1>2, <1>5 DEF AuthorizeRefused, Settles, Page, session
<1>6. ASSUME NEW l \in LaunchesOf[t], AuthorizeStore(t, l)
      PROVE  Settles(t, s)'
  <2>1. PICK o \in Sessions :
          /\ heap[o] = NULL
          /\ tab' = [tab EXCEPT ![t] =
                       [Page("setSession", l) EXCEPT !.oauthSession = Id(o)]]
    BY <1>6 DEF AuthorizeStore
  <2>2. tab'[t].oauthSession = Id(o) /\ tab'[t].at = "setSession" /\ Id(o) # Id(s)
    BY <1>1, <2>1 DEF Page, Id
  <2> QED
    BY <2>2 DEF Settles
<1>7. ASSUME NEW l \in LaunchesOf[t], IndexSetRedirect(t, l)
      PROVE  Settles(t, s)'
  <2>1. /\ session(t).oauthSession = NULL /\ session(t) \in HttpSession
        /\ httpSession'[BrowserOf[t]] = [session(t) EXCEPT !.redirectUri = l.redirectUri]
        /\ tab'[t] = Page("checkLaunch", l)
    BY <1>1, <1>7 DEF IndexSetRedirect, SetAttribute, session, FlowInv, Opens
  <2> QED
    BY <1>2, <2>1 DEF Settles, Page, session, HttpSession
<1>8. CASE Start(t) \/ PageReacts(t) \/ Handle(t)
  BY <1>1, <1>2, <1>8, IdsOfTab DEF Settles, session
<1>9. CASE Same(t)
  BY <1>9 DEF Same, Settles, session
<1> QED
  BY <1>1, <1>3, <1>4, <1>5, <1>6, <1>7, <1>8, <1>9, Turns DEF Opening

LEMMA SettledStep ==
  ASSUME LaunchInv, Undisturbed, [Next]_vars
  PROVE  SettledInv'
<1> SUFFICES ASSUME NEW d \in delivered', NEW s \in Sessions, d.code = Code(s),
                    NEW t \in Tabs
             PROVE  Settles(t, s)'
  BY DEF SettledInv, Code
<1>1. CASE d \in delivered
  <2>1. Settles(t, s) /\ heap[s] # NULL
    BY <1>1 DEF LaunchInv, SettledInv, LoginInv, DeliveredInv
  <2> QED
    BY <2>1, SettlesStep
<1>2. ASSUME d \notin delivered, NEW u \in Tabs, EndAnswerToken(u)
      PROVE  FALSE
  <2>1. d.code = NULL
    BY <1>2 DEF EndAnswerToken, Answer
  <2> QED
    BY <2>1, ObjectAssumption DEF Codes
<1> QED
  BY <1>1, <1>2, NewCodeSettles, DeliveredChanges

-----------------------------------------------------------------------------
(***************************************************************************)
(* The theorems.                                                           *)
(***************************************************************************)
LEMMA LaunchStep ==
  ASSUME Undisturbed, LaunchInv, [Next]_vars
  PROVE  LaunchInv'
BY LoginInvStep, WalletStep, FlowStep, SettledStep, LaunchedStep DEF LaunchInv

\* LaunchInv is an invariant while no tab is disturbed by another.
THEOREM LaunchInvariance ==
  ASSUME Undisturbed
  PROVE  Spec => []LaunchInv
<1>1. LaunchInv /\ [Next]_vars => LaunchInv'
  BY LaunchStep
<1>2. QED
  BY LaunchInitInv, <1>1, PTL DEF Spec

(***************************************************************************)
(* Every redirect answers the launch of the page that receives it.         *)
(***************************************************************************)
THEOREM AnswersLaunches ==
  ASSUME Undisturbed
  PROVE  Spec => []DeliveredAsLaunched
<1>1. LaunchInv => DeliveredAsLaunched
  BY DEF LaunchInv
<1>2. QED
  BY <1>1, LaunchInvariance, PTL

\* No page can answer for a session whose code is out.
LEMMA NoAnswerAgain ==
  ASSUME LaunchInv, NEW d \in delivered, NEW s \in Sessions, d.code = Code(s),
         NEW t \in Tabs, EndAnswerCode(t)
  PROVE  tab[t].oauthSession # Id(s) /\ heap'[s] = heap[s]
<1>1. LoginInv /\ Settles(t, s)
  BY DEF LaunchInv, SettledInv
<1>2. PICK o \in Sessions :
        /\ tab[t].oauthSession = Id(o)
        /\ \A p \in Sessions \ {o} : heap'[p] = heap[p]
  BY <1>1, CodeAnswer
<1>3. s # o
  BY <1>1, <1>2 DEF Settles
<1> QED
  BY <1>1, <1>2, <1>3 DEF Settles

LEMMA IdentificationKept ==
  ASSUME LaunchInv, [Next]_vars, NEW d \in delivered, NEW s \in Sessions,
         d.code = Code(s), heap[s] # NULL, Live(s)'
  PROVE  heap'[s].userIdentification = heap[s].userIdentification
<1>1. LoginInv
  BY DEF LaunchInv
<1> QED
  BY <1>1, IdentificationStep, NoAnswerAgain

(***************************************************************************)
(* stopSession never changes the identification of a session whose code    *)
(* has reached a relying party.                                            *)
(***************************************************************************)
THEOREM IdentificationsFinal ==
  ASSUME Undisturbed
  PROVE  Spec => IdentificationFinal
<1>1. ASSUME LaunchInv, [Next]_vars, NEW d \in delivered, NEW s \in Sessions,
             Carries(d, s), Live(s)'
      PROVE  heap'[s].userIdentification = heap[s].userIdentification
  BY <1>1, IdentificationKept DEF Carries, Live
<1>2. LaunchInv /\ [Next]_vars =>
        [\A d \in delivered, s \in Sessions :
           Carries(d, s) /\ Live(s)' =>
             heap'[s].userIdentification = heap[s].userIdentification]_vars
  BY <1>1
<1>3. QED
  BY <1>2, LaunchInvariance, PTL DEF Spec, IdentificationFinal

(***************************************************************************)
(* A result that a page has posted leads to a redirect, when its launch    *)
(* named one and the HttpSession is not lost.                              *)
(***************************************************************************)
THEOREM ResultsRedirect ==
  ASSUME Undisturbed, WithRedirect
  PROVE  Spec => PostedResultRedirects
<1>1. ASSUME LaunchInv, [Next]_vars, NEW t \in Tabs,
             tab[t].at = "answering", tab'[t].at = "blank"
      PROVE  \/ \E d \in delivered' :
                  d.launch = tab[t].launch /\ d.browser = BrowserOf[t]
             \/ session(t) = NoAttributes
  <2>1. LoginInv /\ FlowInv(t) /\ tab \in [Tabs -> Tab]
    BY <1>1 DEF LaunchInv, LoginInv, TypeOK
  <2>2. Undisturbed
    OBVIOUS
  <2>3. ~Restart
    BY <1>1 DEF Restart, Launching, Ending, Page
  <2>4. ~Same(t) /\ ~SessionExpires(BrowserOf[t]) /\ ~Opening(t)
    BY <1>1 DEF Same, SessionExpires, InFlight, Ending, Opening, AuthorizeRefused,
       AuthorizeStore, IndexSetRedirect, Opens
  <2>5. ~Start(t) /\ ~PageReacts(t)
    BY <1>1 DEF Start, StartSession, StartSessionFails, PageReacts, PageStops, EndSession
  <2>6. Handle(t)
    BY <1>1, <2>1, <2>2, <2>3, <2>4, <2>5, Turns
  <2>7. ASSUME NEW redirect, Answer(t, redirect),
               redirect.launch = tab[t].launch, redirect.browser = BrowserOf[t]
        PROVE  \E d \in delivered' :
                 d.launch = tab[t].launch /\ d.browser = BrowserOf[t]
    BY <1>1, <2>1, <2>7 DEF Answer, Page
  <2>8. CASE EndAnswerCode(t) \/ EndAnswerToken(t)
    BY <2>7, <2>8 DEF EndAnswerCode, EndAnswerToken
  <2>9. CASE EndAnswerUnknown(t)
    BY <1>1, <2>1, <2>9 DEF EndAnswerUnknown, Page
  <2>10. CASE EndAnswerNowhere(t)
    <3>1. session(t).oauthSession = NULL /\ session(t).redirectUri = NULL
      BY <2>1, <2>10 DEF EndAnswerNowhere, FlowInv
    <3>2. ~HasLaunch(t)
      <4>1. tab[t].launch \in Launches
        BY <1>1, <2>1, LoginAssumption DEF FlowInv, LaunchOf
      <4> QED
        BY <3>1, <4>1, ObjectAssumption DEF HasLaunch, MadeFor, Ids, WithRedirect
    <3> QED
      BY <1>1, <2>1, <3>2 DEF FlowInv, Loaded, Ending, Lost
  <2> QED
    BY <1>1, <2>6, <2>8, <2>9, <2>10 DEF Handle, AuthorizeSetSession,
       AuthorizeSetRedirect, AuthorizeSetAttribute, IndexSetAttribute,
       EndFetchResult, EndFetchFails
<1>2. LaunchInv /\ [Next]_vars =>
        [\A t \in Tabs :
           tab[t].at = "answering" /\ tab'[t].at = "blank" =>
             \/ \E d \in delivered' :
                  d.launch = tab[t].launch /\ d.browser = BrowserOf[t]
             \/ session(t) = NoAttributes]_vars
  BY <1>1
<1>3. QED
  BY <1>2, LaunchInvariance, PTL DEF Spec, PostedResultRedirects
=============================================================================
