----------------------------- MODULE LoginFlow -----------------------------
(***************************************************************************)
(* Logging in with Yivi (IRMA): from opening the login page to the         *)
(* redirect that hands the relying party a code or a token.                *)
(*                                                                         *)
(* A browser holds one HttpSession and any number of tabs.  A tab opens    *)
(* the login page through /oauth2/authorize (Oauth2Controller) or / (Index *)
(* Controller); the page (yivi.html) starts an IRMA session, waits for the *)
(* wallet, and posts the result to /api/session/end (SessionController).   *)
(*                                                                         *)
(* The handlers of one browser share its HttpSession without a lock, so a  *)
(* handler is one action per access to the session or to the store; what   *)
(* lies between two accesses is local to the request.  A tab has at most   *)
(* one request under way: a reload during a request is a second tab.       *)
(***************************************************************************)
EXTENDS OauthSessionService

CONSTANTS
  Tabs,
  BrowserOf,          \* [Tabs -> Browsers]
  DesktopTabs,        \* tabs on a desktop, whose sessions ask for no pairing
  LaunchesOf,         \* LaunchesOf[t]: the links that t's user may follow
  RequestorTokens,    \* IRMA sessions that may be started (bound)
  Attributes,
  Wallet,             \* Wallet[b][a]: what b's user can disclose for a
  DefaultAttribute, AllowedAttributes, ValidateAttribute,
  AllowedUris, ValidateRedirectDomain,
  Faults              \* which of FaultKinds can happen

FaultKinds == {"expiry", "restart", "unreachable", "lost"}

ASSUME LoginAssumption ==
  /\ BrowserOf \in [Tabs -> Browsers] /\ DesktopTabs \subseteq Tabs
  /\ LaunchesOf \in [Tabs -> SUBSET Launches]
  /\ Wallet \in [Browsers -> [Attributes -> SUBSET Values]]
  /\ DefaultAttribute \in Attributes
  /\ NULL \notin Attributes
  /\ Empty \notin Values
  /\ \A l \in Launches : l.attribute \in Attributes \cup {NULL}
  /\ Faults \subseteq FaultKinds

VARIABLES
  httpSession,  \* the attributes of each browser's HttpSession
  irma,         \* the sessions of the IRMA server
  tab,          \* what each tab shows, and the request it has under way
  delivered     \* history: the redirects that reached a browser

loginVars == <<httpSession, irma, tab, delivered>>
vars == <<heap, storeVars, loginVars>>

-----------------------------------------------------------------------------
HttpSession ==
  [oauthSession: Ids \cup {NULL},
   redirectUri:  {l.redirectUri : l \in Launches} \cup {NULL},
   attribute:    Attributes \cup {NULL}]

NoAttributes == [oauthSession |-> NULL, redirectUri |-> NULL, attribute |-> NULL]

\* Where a tab's request has got to; the names say what comes next.
Launching == {"setSession", "setRedirect", "setAttribute", "checkLaunch"}
Ending    == {"fetching", "answering"}
Showing   == {"blank", "ready", "waiting", "stopped"}

InFlight(t) == tab[t].at \in Launching \cup Ending

Tab ==
  [at: Launching \cup Ending \cup Showing, launch: Launches \cup {NULL},
   token: RequestorTokens \cup {NULL}, attribute: Attributes \cup {NULL},
   userIdentification: Subjects \cup {NULL}, oauthSession: Ids \cup {NULL}]

Page(at, launch) ==
  [at |-> at, launch |-> launch, token |-> NULL, attribute |-> NULL,
   userIdentification |-> NULL, oauthSession |-> NULL]

IrmaSession ==
  [browser: Browsers, attribute: Attributes,
   status: {"initialized", "done", "over"}, disclosed: Values \cup {NULL}]

ASSUME IrmaAssumption == NULL \notin IrmaSession

\* What a relying party receives.  code and state are NULL for a token.
Redirect ==
  [browser: Browsers, launch: Launches \cup {NULL},
   uri: {l.redirectUri : l \in Launches}, code: Codes \cup {NULL},
   state: {l.state : l \in Launches} \cup {NULL}, subject: Subjects]

-----------------------------------------------------------------------------
session(t) == httpSession[BrowserOf[t]]
SetAttribute(t, new) == httpSession' = [httpSession EXCEPT ![BrowserOf[t]] = new]

OrDefault(attribute) ==
  IF attribute = NULL THEN DefaultAttribute ELSE attribute

\* ValidationService
AttributeAccepted(a)  == a \in AllowedAttributes \/ ~ValidateAttribute
RedirectAccepted(uri) == uri \in AllowedUris \/ ~ValidateRedirectDomain

-----------------------------------------------------------------------------
(***************************************************************************)
(* GET /oauth2/authorize                                                   *)
(***************************************************************************)
Opens(t, l, kind) == l.kind = kind /\ ~InFlight(t)

AuthorizeRefused(t, l) ==
  /\ Opens(t, l, "authorize") /\ l.responseType # "code"
  /\ tab' = [tab EXCEPT ![t] = Page("blank", NULL)]
  /\ UNCHANGED <<heap, storeVars, httpSession, irma, delivered>>

AuthorizeStore(t, l) ==
  /\ Opens(t, l, "authorize") /\ l.responseType = "code"
  /\ \E s \in Sessions :
       /\ heap[s] = NULL
       /\ heap' = [heap EXCEPT ![s] = NewOauthSession(s, l, BrowserOf[t])]
       /\ Store(s, RandomToken[s])
       /\ tab' = [tab EXCEPT ![t] =
                    [Page("setSession", l) EXCEPT !.oauthSession = Id(s)]]
  /\ UNCHANGED <<httpSession, irma, delivered>>

\* Mutant: an oauthSession that is already there is kept.
AuthorizeKeepSession(t) ==
  /\ tab[t].at = "setSession"
  /\ SetAttribute(t, IF session(t).oauthSession = NULL
                     THEN [session(t) EXCEPT !.oauthSession = tab[t].oauthSession]
                     ELSE session(t))
  /\ tab' = [tab EXCEPT ![t] = Page("setRedirect", tab[t].launch)]
  /\ UNCHANGED <<heap, storeVars, irma, delivered>>

AuthorizeSetSession(t) ==
  /\ tab[t].at = "setSession"
  /\ SetAttribute(t, [session(t) EXCEPT !.oauthSession = tab[t].oauthSession])
  /\ tab' = [tab EXCEPT ![t] = Page("setRedirect", tab[t].launch)]
  /\ UNCHANGED <<heap, storeVars, irma, delivered>>

AuthorizeSetRedirect(t) ==
  /\ tab[t].at = "setRedirect"
  /\ SetAttribute(t, [session(t) EXCEPT !.redirectUri = tab[t].launch.redirectUri])
  /\ tab' = [tab EXCEPT ![t].at = "setAttribute"]
  /\ UNCHANGED <<heap, storeVars, irma, delivered>>

\* Mutant: no default, the attribute of an earlier request stays.
AuthorizeSetGivenAttribute(t) ==
  /\ tab[t].at = "setAttribute"
  /\ SetAttribute(t, IF tab[t].launch.attribute = NULL THEN session(t)
                     ELSE [session(t) EXCEPT !.attribute = tab[t].launch.attribute])
  /\ tab' = [tab EXCEPT ![t].at = "ready"]
  /\ UNCHANGED <<heap, storeVars, irma, delivered>>

AuthorizeSetAttribute(t) ==
  /\ tab[t].at = "setAttribute"
  /\ SetAttribute(t, [session(t) EXCEPT !.attribute = OrDefault(tab[t].launch.attribute)])
  /\ tab' = [tab EXCEPT ![t].at = "ready"]
  /\ UNCHANGED <<heap, storeVars, irma, delivered>>

(***************************************************************************)
(* GET /: the parameters go into the session before they are validated.    *)
(***************************************************************************)
\* Mutants: the redirect_uri is set only once, or not at all.
IndexSetRedirectOnce(t, l) ==
  /\ Opens(t, l, "index")
  /\ SetAttribute(t, IF session(t).redirectUri # NULL THEN session(t)
                     ELSE [session(t) EXCEPT !.redirectUri = l.redirectUri])
  /\ tab' = [tab EXCEPT ![t] = Page("checkLaunch", l)]
  /\ UNCHANGED <<heap, storeVars, irma, delivered>>

IndexSetNoRedirect(t, l) ==
  /\ Opens(t, l, "index")
  /\ tab' = [tab EXCEPT ![t] = Page("checkLaunch", l)]
  /\ UNCHANGED <<heap, storeVars, httpSession, irma, delivered>>

IndexSetRedirect(t, l) ==
  /\ Opens(t, l, "index")
  /\ SetAttribute(t, [session(t) EXCEPT !.redirectUri = l.redirectUri])
  /\ tab' = [tab EXCEPT ![t] = Page("checkLaunch", l)]
  /\ UNCHANGED <<heap, storeVars, irma, delivered>>

IndexSetAttribute(t) ==
  LET l == tab[t].launch
      accepted == /\ AttributeAccepted(OrDefault(l.attribute))
                  /\ RedirectAccepted(l.redirectUri)
  IN  /\ tab[t].at = "checkLaunch"
      /\ SetAttribute(t, [session(t) EXCEPT !.attribute = OrDefault(l.attribute)])
      /\ tab' = [tab EXCEPT ![t] =
                   IF accepted THEN Page("ready", l) ELSE Page("blank", NULL)]
      /\ UNCHANGED <<heap, storeVars, irma, delivered>>

-----------------------------------------------------------------------------
(***************************************************************************)
(* POST /api/session/start, sent by the page as it loads and again when    *)
(* its user restarts it.  A refused attribute (ValidationException) and an *)
(* unreachable IRMA server both leave the page in its error state.         *)
(***************************************************************************)
StartSession(t) ==
  LET attribute == OrDefault(session(t).attribute) IN
  /\ tab[t].at \in {"ready", "stopped"}
  /\ AttributeAccepted(attribute)
  /\ \E k \in RequestorTokens :
       /\ irma[k] = NULL
       /\ irma' = [irma EXCEPT ![k] =
                     [browser |-> BrowserOf[t], attribute |-> attribute,
                      status |-> "initialized", disclosed |-> NULL]]
       /\ tab' = [tab EXCEPT ![t] = [@ EXCEPT !.at = "waiting", !.token = k]]
  /\ UNCHANGED <<heap, storeVars, httpSession, delivered>>

StartSessionFails(t) ==
  /\ tab[t].at = "ready"
  /\ \/ ~AttributeAccepted(OrDefault(session(t).attribute))
     \/ "unreachable" \in Faults
  /\ tab' = [tab EXCEPT ![t].at = "stopped"]
  /\ UNCHANGED <<heap, storeVars, httpSession, irma, delivered>>

(***************************************************************************)
(* The IRMA server and the wallet (external).                              *)
(***************************************************************************)
Disclose(k) ==
  /\ irma[k] # NULL /\ irma[k].status = "initialized"
  /\ \E v \in Wallet[irma[k].browser][irma[k].attribute] :
       irma' = [irma EXCEPT ![k] = [@ EXCEPT !.status = "done", !.disclosed = v]]
  /\ UNCHANGED <<heap, storeVars, httpSession, tab, delivered>>

CancelOrTimeout(k) ==
  /\ irma[k] # NULL /\ irma[k].status = "initialized"
  /\ irma' = [irma EXCEPT ![k].status = "over"]
  /\ UNCHANGED <<heap, storeVars, httpSession, tab, delivered>>

\* Mutant: the page keeps waiting for a session that is over.
PageWaitsOn(t) ==
  /\ tab[t].at = "waiting"
  /\ UNCHANGED vars

\* The IRMA session is over, or the page gives it up: its user cancels, or it
\* cannot be followed any more (see YiviPage).
PageStops(t) ==
  /\ tab[t].at = "waiting"
  /\ tab' = [tab EXCEPT ![t] = Page("stopped", tab[t].launch)]
  /\ UNCHANGED <<heap, storeVars, httpSession, irma, delivered>>

-----------------------------------------------------------------------------
\* Mutant: the page posts its result whatever became of the IRMA session.
EndAnySession(t) ==
  /\ tab[t].at = "waiting"
  /\ tab' = [tab EXCEPT ![t] =
               [@ EXCEPT !.at = "fetching",
                         !.attribute = OrDefault(session(t).attribute)]]
  /\ UNCHANGED <<heap, storeVars, httpSession, irma, delivered>>

(***************************************************************************)
(* POST /api/session/end/{sessionToken}, sent by the page once the IRMA    *)
(* session is done.  The attribute is read before the call to the IRMA     *)
(* server, the rest of the HttpSession after it.                           *)
(***************************************************************************)
EndSession(t) ==
  /\ tab[t].at = "waiting" /\ irma[tab[t].token].status = "done"
  /\ tab' = [tab EXCEPT ![t] =
               [@ EXCEPT !.at = "fetching",
                         !.attribute = OrDefault(session(t).attribute)]]
  /\ UNCHANGED <<heap, storeVars, httpSession, irma, delivered>>

\* IrmaService.endSession: the value disclosed for the attribute, or "".
Matched(result, attribute) ==
  IF result.attribute = attribute THEN result.disclosed ELSE Empty

EndFetchResult(t) ==
  /\ tab[t].at = "fetching"
  /\ tab' = [tab EXCEPT ![t] = [@ EXCEPT
       !.at = "answering",
       !.userIdentification = Matched(irma[tab[t].token], tab[t].attribute),
       !.oauthSession = session(t).oauthSession]]
  /\ UNCHANGED <<heap, storeVars, httpSession, irma, delivered>>

EndFetchFails(t) ==
  /\ tab[t].at = "fetching" /\ "unreachable" \in Faults
  /\ tab' = [tab EXCEPT ![t] = Page("stopped", tab[t].launch)]
  /\ UNCHANGED <<heap, storeVars, httpSession, irma, delivered>>

\* The answer reaches the page, which follows its url, or it is lost.
Answer(t, redirect) ==
  \/ /\ delivered' = delivered \cup {redirect}
     /\ tab' = [tab EXCEPT ![t] = Page("blank", NULL)]
  \/ /\ "lost" \in Faults
     /\ tab' = [tab EXCEPT ![t] = Page("stopped", tab[t].launch)]
     /\ UNCHANGED delivered

\* Mutant: the redirect_uri of the HttpSession instead of the OauthSession.
EndAnswerCodeElsewhere(t) ==
  /\ tab[t].at = "answering" /\ tab[t].oauthSession # NULL
  /\ session(t).redirectUri # NULL
  /\ \E s \in RetrieveById(tab[t].oauthSession) \ {NULL} :
       /\ heap' = [heap EXCEPT ![s].userIdentification = tab[t].userIdentification]
       /\ Answer(t, [browser |-> BrowserOf[t], launch |-> tab[t].launch,
                     uri     |-> session(t).redirectUri,
                     code    |-> Code(s), state |-> heap[s].request.state,
                     subject |-> tab[t].userIdentification])
  /\ UNCHANGED <<storeVars, httpSession, irma>>

\* Mutant: userIdentification is a field of the controller all requests share.
EndAnswerCodeOfAnybody(t) ==
  /\ tab[t].at = "answering" /\ tab[t].oauthSession # NULL
  /\ \E s \in RetrieveById(tab[t].oauthSession) \ {NULL} :
       \E u \in {u \in Tabs : tab[u].at = "answering"} :
         /\ heap' = [heap EXCEPT ![s].userIdentification = tab[u].userIdentification]
         /\ Answer(t, [browser |-> BrowserOf[t], launch |-> tab[t].launch,
                       uri     |-> heap[s].request.redirectUri,
                       code    |-> Code(s), state |-> heap[s].request.state,
                       subject |-> tab[t].userIdentification])
  /\ UNCHANGED <<storeVars, httpSession, irma>>

\* An OAuth session: record who was identified, answer its code and state.
EndAnswerCode(t) ==
  /\ tab[t].at = "answering" /\ tab[t].oauthSession # NULL
  /\ \E s \in RetrieveById(tab[t].oauthSession) \ {NULL} :
       /\ heap' = [heap EXCEPT ![s].userIdentification = tab[t].userIdentification]
       /\ Answer(t, [browser |-> BrowserOf[t], launch |-> tab[t].launch,
                     uri     |-> heap[s].request.redirectUri,
                     code    |-> Code(s), state |-> heap[s].request.state,
                     subject |-> tab[t].userIdentification])
  /\ UNCHANGED <<storeVars, httpSession, irma>>

\* retrieveById found nothing: a NullPointerException, answered with a 500.
EndAnswerUnknown(t) ==
  /\ tab[t].at = "answering" /\ tab[t].oauthSession # NULL
  /\ NULL \in RetrieveById(tab[t].oauthSession)
  /\ tab' = [tab EXCEPT ![t] = Page("stopped", tab[t].launch)]
  /\ UNCHANGED <<heap, storeVars, httpSession, irma, delivered>>

\* No OAuth session: an id token for the redirect URI, in the URI itself.
EndAnswerToken(t) ==
  /\ tab[t].at = "answering" /\ tab[t].oauthSession = NULL
  /\ session(t).redirectUri # NULL
  /\ Answer(t, [browser |-> BrowserOf[t], launch |-> tab[t].launch,
                uri     |-> session(t).redirectUri,
                code    |-> NULL, state |-> NULL,
                subject |-> tab[t].userIdentification])
  /\ UNCHANGED <<heap, storeVars, httpSession, irma>>

\* Neither: an empty url, on which the page goes back in its history.
EndAnswerNowhere(t) ==
  /\ tab[t].at = "answering" /\ tab[t].oauthSession = NULL
  /\ session(t).redirectUri = NULL
  /\ tab' = [tab EXCEPT ![t] = Page("blank", NULL)]
  /\ UNCHANGED <<heap, storeVars, httpSession, irma, delivered>>

-----------------------------------------------------------------------------
(***************************************************************************)
(* Faults.  An HttpSession expires after it has been idle, so not during a *)
(* request of its browser.  A restart loses everything the server holds    *)
(* and fails the requests under way; pages and IRMA sessions live on.      *)
(***************************************************************************)
SessionExpires(b) ==
  /\ "expiry" \in Faults
  /\ \A t \in Tabs : BrowserOf[t] = b => ~InFlight(t)
  /\ httpSession' = [httpSession EXCEPT ![b] = NoAttributes]
  /\ UNCHANGED <<heap, storeVars, irma, tab, delivered>>

Restart ==
  /\ "restart" \in Faults
  /\ ServiceRestart
  /\ httpSession' = [b \in Browsers |-> NoAttributes]
  /\ tab' = [t \in Tabs |->
               CASE tab[t].at \in Launching -> Page("blank", NULL)
                 [] tab[t].at \in Ending    -> Page("stopped", tab[t].launch)
                 [] OTHER                   -> tab[t]]
  /\ UNCHANGED <<irma, delivered>>

-----------------------------------------------------------------------------
LoginInit ==
  /\ httpSession = [b \in Browsers |-> NoAttributes]
  /\ irma = [k \in RequestorTokens |-> NULL]
  /\ tab = [t \in Tabs |-> Page("blank", NULL)]
  /\ delivered = {}

Init == ServiceInit /\ LoginInit

Launch(t) ==
  \E l \in LaunchesOf[t] :
    AuthorizeRefused(t, l) \/ AuthorizeStore(t, l) \/ IndexSetRedirect(t, l)

\* The rest of a request once a handler has it.
Handle(t) ==
  \/ AuthorizeSetSession(t) \/ AuthorizeSetRedirect(t) \/ AuthorizeSetAttribute(t)
  \/ IndexSetAttribute(t)
  \/ EndFetchResult(t) \/ EndFetchFails(t)
  \/ EndAnswerCode(t) \/ EndAnswerUnknown(t) \/ EndAnswerToken(t) \/ EndAnswerNowhere(t)

\* What the page does by itself.
PageReacts(t) == PageStops(t) \/ EndSession(t)

Start(t) == StartSession(t) \/ StartSessionFails(t)

IrmaSettles(k) == Disclose(k) \/ CancelOrTimeout(k)

LoginNext ==
  \/ \E t \in Tabs : Launch(t) \/ Start(t) \/ PageReacts(t) \/ Handle(t)
  \/ \E k \in RequestorTokens : IrmaSettles(k)
  \/ \E b \in Browsers : SessionExpires(b)

Next == LoginNext \/ Restart

Spec == Init /\ [][Next]_vars

(***************************************************************************)
(* A request thread is scheduled until it has answered; the IRMA server    *)
(* times a session out that no wallet completes; and a page on a desktop   *)
(* learns that its session is done or over, or gives it up, which is what  *)
(* YiviSettles says of it.  On a phone, or while pairing, a page may miss  *)
(* the last status of its session, and owes nothing.  Neither do users:    *)
(* they may leave a page at any time.                                      *)
(***************************************************************************)
IrmaSettled(t) == irma[tab[t].token].status \in {"done", "over"}

Fairness ==
  /\ \A t \in Tabs : WF_vars(Handle(t))
  /\ \A t \in DesktopTabs : WF_vars(PageReacts(t) /\ IrmaSettled(t))
  /\ \A k \in RequestorTokens : WF_vars(IrmaSettles(k))

FairSpec == Spec /\ Fairness
=============================================================================
