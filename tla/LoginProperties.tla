-------------------------- MODULE LoginProperties --------------------------
(***************************************************************************)
(* What LoginFlow must guarantee.                                          *)
(***************************************************************************)
EXTENDS LoginFlow

\* Every variable of the login flow has the type its Java field has.
TypeOK ==
  /\ ServiceTypeOK
  /\ httpSession \in [Browsers -> HttpSession]
  /\ irma \in [RequestorTokens -> IrmaSession \cup {NULL}]
  /\ tab \in [Tabs -> Tab]
  /\ delivered \in SUBSET Redirect

\* What the wallet of b's user has disclosed, in sessions b started.
Disclosed(b) ==
  {irma[k].disclosed : k \in
     {j \in RequestorTokens :
        irma[j] # NULL /\ irma[j].browser = b /\ irma[j].status = "done"}}

\* The code of s went out with d, and the JVM that made s still runs.
Carries(d, s) == d.code = Code(s) /\ Live(s)

(***************************************************************************)
(* Whatever the interleaving of the tabs, the faults and the races on the  *)
(* maps: a redirect of a browser names somebody its own user disclosed     *)
(* before (or nobody), and so does, from then on, the session behind the   *)
(* code it carries -- SessionController.stopSession never writes one       *)
(* browser's identification into another's OauthSession.                   *)
(***************************************************************************)
OwnDisclosuresOnly ==
  \A d \in delivered :
    LET own == Disclosed(d.browser) \cup {Empty} IN
    /\ d.subject \in own
    /\ \A s \in Sessions : Carries(d, s) => heap[s].userIdentification \in own

(***************************************************************************)
(* A code is only ever answered to the browser whose authorization request *)
(* made it, at the redirect_uri and with the state of that same request.   *)
(***************************************************************************)
CodeMatchesRequest ==
  \A d \in delivered, s \in Sessions :
    Carries(d, s) =>
      /\ heap[s].openedBy = d.browser
      /\ heap[s].request.redirectUri = d.uri
      /\ heap[s].request.state = d.state

(***************************************************************************)
(* Without races on the maps, a code that reached a relying party can be   *)
(* exchanged until the server restarts: STORE_CODE finds its session, and  *)
(* that session has an identification.                                     *)
(***************************************************************************)
DeliveredCodeUsable ==
  \A d \in delivered, s \in Sessions :
    Carries(d, s) =>
      /\ storeCode[Code(s)] = s
      /\ heap[s].userIdentification # NULL

(***************************************************************************)
(* Without races on the maps, the id an HttpSession holds is in STORE_ID,  *)
(* so stopSession never dereferences a null OauthSession.                  *)
(***************************************************************************)
OpenSessionsKnown ==
  \A b \in Browsers, s \in Sessions :
    httpSession[b].oauthSession = Id(s) => storeId[Id(s)] = s

(***************************************************************************)
(* The redirect a page receives is the one its launch asked for: at the    *)
(* launch's redirect_uri, a code with the launch's state if it was an      *)
(* authorization request and a token otherwise, for what the user          *)
(* disclosed of the attribute the launch asked for.                        *)
(***************************************************************************)
AnswersLaunch(d) ==
  /\ d.uri = d.launch.redirectUri
  /\ IF d.launch.kind = "authorize"
     THEN d.code # NULL /\ d.state = d.launch.state
     ELSE d.code = NULL
  /\ d.subject \in Wallet[d.browser][OrDefault(d.launch.attribute)]

DeliveredAsLaunched == \A d \in delivered : AnswersLaunch(d)

\* The part of it about the subject: somebody was identified.
SubjectIdentified == \A d \in delivered : d.subject # Empty

(***************************************************************************)
(* Once its code has reached a relying party, the identification of an     *)
(* OauthSession is settled: every exchange of that code names one person.  *)
(***************************************************************************)
IdentificationFinal ==
  [][\A d \in delivered, s \in Sessions :
       Carries(d, s) /\ Live(s)' =>
         heap'[s].userIdentification = heap[s].userIdentification]_vars

(***************************************************************************)
(* Faults or not, no page waits for ever for the answer to a request of    *)
(* its own, and none on a desktop that is not asked to pair waits for ever *)
(* for the wallet either.  It ends up following a redirect, or where its   *)
(* user can start (again).                                                 *)
(***************************************************************************)
Settled(t) == tab[t].at \in {"blank", "ready", "stopped"}

PagesSettle ==
  /\ \A t \in Tabs : InFlight(t) ~> Settled(t)
  /\ \A t \in DesktopTabs : ~Settled(t) ~> Settled(t)

(***************************************************************************)
(* No result that a page has posted is dropped: when the page is left, its *)
(* browser has been redirected for the page's launch, or has lost the      *)
(* HttpSession that the launch wrote to.  (Otherwise, by PagesSettle, the  *)
(* page is back where its user can start again.)                           *)
(***************************************************************************)
PostedResultRedirects ==
  [][\A t \in Tabs :
       tab[t].at = "answering" /\ tab'[t].at = "blank" =>
         \/ \E d \in delivered' : d.launch = tab[t].launch /\ d.browser = BrowserOf[t]
         \/ session(t) = NoAttributes]_vars

-----------------------------------------------------------------------------
(***************************************************************************)
(* LoginFlow implements LoginContract.                                     *)
(***************************************************************************)
Promise == INSTANCE LoginContract WITH
  Holds     <- [b \in Browsers |-> UNION {Wallet[b][a] : a \in Attributes}],
  disclosed <- [b \in Browsers |-> Disclosed(b)],
  asserted  <- {<<d.browser, d.subject>> : d \in delivered}

KeepsContract == Promise!Contract
=============================================================================
