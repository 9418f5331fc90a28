------------------------------ MODULE YiviPage ------------------------------
(***************************************************************************)
(* The login page while it is open: what the bundled library (public/js/   *)
(* yivi.js) does between yiviWeb.start() in templates/yivi.html and the    *)
(* settling of its promise.  It starts an IRMA session through the server, *)
(* offers it as a QR code or a button, follows its status, and posts for   *)
(* its result; it stops when something fails, and its user restarts it.    *)
(*                                                                         *)
(* JavaScript runs one task at a time, each with the promise callbacks it  *)
(* resolves, so an action is a task: a response, a server-sent event, a    *)
(* timer or a click, with every transition that follows from it.  Requests *)
(* under way are state of their own: nothing aborts them, and the callback *)
(* of one acts on whatever state the page is in by then.                   *)
(***************************************************************************)
EXTENDS YiviStateMachine, StatusListener

CONSTANTS
  Tokens,       \* IRMA sessions this page may start (bound)
  SlotsOf,      \* the EventSources that each may have at a time (bound)
  UserAgents,   \* kinds of device the page may find itself on
  PairingHint   \* does the IRMA server ask for a pairing code?

ASSUME YiviAssumption ==
  /\ NULL \notin Tokens /\ NULL \notin Slots
  /\ SlotsOf \in [Tokens -> SUBSET Slots]
  /\ UserAgents \subseteq {"Desktop", "Mobile"}
  /\ PairingHint \in BOOLEAN

VARIABLES
  state,         \* of the state machine
  start,         \* the requests to start a session
  sessionToken,  \* _mappings of the session client: the last start answered
  watched,       \* _mappings of the state client: the session it listens to
  listener,      \* the status listeners, of watched and of sessions before it
  pairing,       \* _pairingEnabled, and the requests and timers about it
  results,       \* sessions whose result has been asked for, under way
  cancel,        \* the DELETEs of sessions
  resolved,      \* the session whose result resolved the promise
  irma,          \* the status of the sessions, at the IRMA server
  offered        \* history: sessions whose QR code or button has been shown

pageVars   == <<state, sessionToken, watched, listener, resolved, offered>>
serverVars == <<irma, start>>
yiviVars   == <<pageVars, serverVars, pairing, results, cancel>>

\* calls: telling the server whether to pair, before either is shown, and the
\* delay before a wrong code is rejected; completing: the sessions for which
\* the right code is being confirmed.
PairingCalls == {"showQRCode", "showYiviButton", "rejected"}
PairingState ==
  [enabled: BOOLEAN, calls: SUBSET PairingCalls, completing: SUBSET Tokens]

\* A page whose promise has resolved is left; nothing of it runs any more.
Runs == resolved = NULL

-----------------------------------------------------------------------------
(***************************************************************************)
(* What entering a state makes the plugins do (stateChange).               *)
(***************************************************************************)
\* Loading: the session client posts to /api/session/start.
EnterLoading ==
  /\ state' = "Loading"
  /\ \E k \in Tokens : start[k] = "no" /\ start' = [start EXCEPT ![k] = "asked"]

WatchedClosed(ls) ==
  IF watched = NULL THEN ls ELSE [ls EXCEPT ![watched] = Close(@)]

\* _serverCloseSession: a listener that was running takes its session with it.
ServerCloseSession(ls) ==
  /\ listener' = WatchedClosed(ls)
  /\ cancel' = IF watched # NULL /\ ls[watched].isRunning
               THEN [cancel EXCEPT ![watched] = "asked"] ELSE cancel

\* The transition "fail" of whatever has failed, if it is valid now.
Fail(ls) ==
  IF Valid("fail", state)
  THEN state' = After("fail", state) /\ ServerCloseSession(ls)
  ELSE listener' = ls /\ UNCHANGED <<state, cancel>>

\* Mutant: shows the session of before the answer.
ShowEarlier(ls, k, qr) ==
  /\ state' = IF qr THEN "ShowingQRCode" ELSE "ShowingYiviButton"
  /\ offered' = offered \cup {watched}
  /\ \E i \in SlotsOf[k] :
       /\ ls[k].polling \/ IsFree(ls[k].sources[i])
       /\ listener' = [ls EXCEPT ![k] = Observe(@, i)]

\* Preparing is over: show the session's QR code or button and listen to it.
Show(ls, k, qr) ==
  /\ state' = IF qr THEN "ShowingQRCode" ELSE "ShowingYiviButton"
  /\ offered' = offered \cup {k}
  /\ \E i \in SlotsOf[k] :
       /\ ls[k].polling \/ IsFree(ls[k].sources[i])
       /\ listener' = [ls EXCEPT ![k] = Observe(@, i)]

\* _updatePairingState: the server is told first, when pairing must change.
Prepare(ls, k, qr, enabled) ==
  LET wanted == qr /\ PairingHint IN
  \/ /\ wanted = enabled
     /\ Show(ls, k, qr)
     /\ pairing' = [pairing EXCEPT !.enabled = enabled]
  \/ /\ wanted # enabled
     /\ state' = IF qr THEN "PreparingQRCode" ELSE "PreparingYiviButton"
     /\ pairing' = [pairing EXCEPT !.enabled = wanted, !.calls = @ \cup
                      {IF qr THEN "showQRCode" ELSE "showYiviButton"}]
     /\ listener' = ls
     /\ UNCHANGED offered

\* _determineFlow, in CheckingUserAgent.
DetermineFlow(ls, k, enabled) ==
  \E agent \in UserAgents : Prepare(ls, k, agent = "Desktop", enabled)

\* Mutant: a session that ended is listened to all the same.
EndsUnheard(ls, transition) ==
  /\ listener' = ls
  /\ state' = Select(transition, state)
  /\ UNCHANGED results

\* Mutant: however a session ended, its result is posted for.
EndsAsDone(ls, transition) ==
  /\ listener' = WatchedClosed(ls)
  /\ state' = IF Valid("prepareResult", state) THEN "PreparingResult"
              ELSE Select(transition, state)
  /\ results' = IF Valid("prepareResult", state)
                THEN results \cup {sessionToken} ELSE results

\* _noSuccessTransition after the listener has been closed: nothing to cancel.
Ends(ls, transition) ==
  /\ listener' = WatchedClosed(ls)
  /\ state' = Select(transition, state)
  /\ UNCHANGED results

(***************************************************************************)
(* _serverStateChange: what a listener reports, whichever listener it is;  *)
(* the one that is closed is the one of the watched session.  (A status    *)
(* "INITIALIZED" is never reported.)                                       *)
(***************************************************************************)
ServerStateChange(ls, status) ==
  \/ /\ status = "PAIRING"
     /\ state' = Select("appPairing", state)
     /\ listener' = ls /\ UNCHANGED results
  \/ /\ status = "CONNECTED"
     /\ state' = IF state = "Pairing" THEN state ELSE Select("appConnected", state)
     /\ listener' = ls /\ UNCHANGED results
  \/ LET connected == Select("appConnected", state) IN
     /\ status = "DONE"
     /\ listener' = WatchedClosed(ls)
     /\ state' = Select("prepareResult", connected)
     /\ results' = IF Valid("prepareResult", connected)
                   THEN results \cup {sessionToken} ELSE results
  \/ status = "CANCELLED" /\ Ends(ls, "cancel")
  \/ status = "TIMEOUT" /\ Ends(ls, "timeout")

-----------------------------------------------------------------------------
(***************************************************************************)
(* Starting a session.                                                     *)
(***************************************************************************)
Initialize ==
  /\ Runs /\ state = "Uninitialized" /\ EnterLoading
  /\ UNCHANGED <<sessionToken, watched, listener, resolved, offered, irma,
                 pairing, results, cancel>>

\* A click on "try again", or the window regaining focus after it stopped.
Restart ==
  /\ Runs /\ Valid("restart", state) /\ EnterLoading
  /\ UNCHANGED <<sessionToken, watched, listener, resolved, offered, irma,
                 pairing, results, cancel>>

\* Mutant: a session that starts too late is not cancelled.
StartLeftAlone(k) ==
  /\ Runs /\ start[k] = "created"
  /\ start' = [start EXCEPT ![k] = "answered"]
  /\ sessionToken' = k
  /\ \/ /\ state = "Loading"
        /\ watched' = k
        /\ DetermineFlow([listener EXCEPT ![k] = NewListener], k, FALSE)
        /\ UNCHANGED cancel
     \/ /\ state # "Loading"
        /\ UNCHANGED <<state, watched, listener, offered, pairing, cancel>>
  /\ UNCHANGED <<resolved, irma, results>>

\* The session client takes the token before it looks at the state.
StartAnswered(k) ==
  /\ Runs /\ start[k] = "created"
  /\ start' = [start EXCEPT ![k] = "answered"]
  /\ sessionToken' = k
  /\ \/ /\ state = "Loading"
        /\ watched' = k
        /\ DetermineFlow([listener EXCEPT ![k] = NewListener], k, FALSE)
        /\ UNCHANGED cancel
     \/ /\ state # "Loading"
        /\ cancel' = [cancel EXCEPT ![k] = "asked"]
        /\ UNCHANGED <<state, watched, listener, offered, pairing>>
  /\ UNCHANGED <<resolved, irma, results>>

\* Refused, failed, or the answer is lost.
StartFails(k) ==
  /\ Runs /\ start[k] \in {"asked", "created"}
  /\ start' = [start EXCEPT ![k] = "lost"]
  /\ Fail(listener)
  /\ UNCHANGED <<sessionToken, watched, resolved, offered, irma, pairing, results>>

-----------------------------------------------------------------------------
(***************************************************************************)
(* Following its status.                                                   *)
(***************************************************************************)
Becomes(k, l) == [listener EXCEPT ![k] = l]
UnchangedByListening ==
  UNCHANGED <<sessionToken, watched, resolved, offered, serverVars, pairing>>

\* The listener of k does something that only concerns itself.
Listens(k, l) ==
  /\ listener' = Becomes(k, l)
  /\ UNCHANGED <<state, results, cancel>> /\ UnchangedByListening

SourceOpens(k, i) ==
  /\ Runs /\ listener[k].sources[i].at = "connecting"
  /\ Listens(k, SourceOpened(listener[k], i, irma[k]))

SourceTells(k, i) ==
  LET source == listener[k].sources[i] IN
  /\ Runs /\ source.at = "open" /\ source.told # irma[k]
  /\ ServerStateChange(Becomes(k, SourceTold(listener[k], i, irma[k])), irma[k])
  /\ UNCHANGED cancel /\ UnchangedByListening

SourceFails(k, i) ==
  /\ Runs /\ listener[k].sources[i].at \in {"connecting", "open"}
  /\ \E at \in {"connecting", "closed"} :
       Listens(k, SourceFailed(listener[k], i, at))

ConnectTimer(k, i) ==
  /\ Runs /\ listener[k].sources[i].timer
  /\ Listens(k, TimerFired(listener[k], i))

\* Only a running listener reports what a poll found, when it is new.
PollAnswers(k) ==
  LET l == listener[k]
      answered == PollAnswered(l, irma[k])
  IN
  /\ Runs /\ l.poll \in {"asked", "again"}
  /\ \/ /\ l.isRunning /\ irma[k] # l.currentStatus
        /\ ServerStateChange(Becomes(k, answered), irma[k])
        /\ UNCHANGED cancel /\ UnchangedByListening
     \/ /\ ~l.isRunning \/ irma[k] = l.currentStatus
        /\ Listens(k, answered)

\* A second failure in a row is reported by any listener, running or not.
PollFails(k) ==
  LET l == listener[k] IN
  /\ Runs
  /\ \/ /\ l.poll = "asked" /\ Listens(k, PollFailed(l))
     \/ /\ l.poll = "again" /\ Fail(Becomes(k, PollFailed(l)))
        /\ UNCHANGED results /\ UnchangedByListening

PollInterval(k) ==
  /\ Runs /\ listener[k].poll = "interval"
  /\ Listens(k, IntervalOver(listener[k]))

-----------------------------------------------------------------------------
(***************************************************************************)
(* Its user: a resize of the window (or "go back"), "show QR code", the    *)
(* pairing code, "cancel".                                                 *)
(***************************************************************************)
CheckUserAgent ==
  /\ Runs /\ Valid("checkUserAgent", state)
  /\ DetermineFlow([listener EXCEPT ![watched] = Close(@)], watched, pairing.enabled)
  /\ UNCHANGED <<sessionToken, watched, resolved, serverVars, results, cancel>>

\* The listener goes on; what it reports while the page prepares is dropped.
\* A second source is opened beside the first, which nothing closes.
ChooseQR ==
  /\ Runs /\ Valid("chooseQR", state)
  /\ Prepare(listener, watched, TRUE, pairing.enabled)
  /\ UNCHANGED <<sessionToken, watched, resolved, serverVars, results, cancel>>

Calls(call) == call \in pairing.calls
Called(call) == pairing' = [pairing EXCEPT !.calls = @ \ {call}]

\* The server has been told whether to pair.
OptionsUpdated(qr) ==
  LET show == IF qr THEN "showQRCode" ELSE "showYiviButton" IN
  /\ Runs /\ Calls(show) /\ Called(show)
  /\ \/ Valid(show, state) /\ Show(listener, watched, qr)
     \/ ~Valid(show, state) /\ UNCHANGED <<state, listener, offered>>
  /\ UNCHANGED <<sessionToken, watched, resolved, serverVars, results, cancel>>

CodeEntered(right) ==
  /\ Runs /\ Valid("codeEntered", state)
  /\ state' = After("codeEntered", state)
  /\ pairing' = IF right THEN [pairing EXCEPT !.completing = @ \cup {watched}]
                ELSE [pairing EXCEPT !.calls = @ \cup {"rejected"}]
  /\ UNCHANGED <<sessionToken, watched, listener, resolved, offered, serverVars,
                 results, cancel>>

PairingRejected ==
  /\ Runs /\ Calls("rejected") /\ Called("rejected")
  /\ state' = Select("pairingRejected", state)
  /\ UNCHANGED <<sessionToken, watched, listener, resolved, offered, serverVars,
                 results, cancel>>

Completed(k) == pairing' = [pairing EXCEPT !.completing = @ \ {k}]

\* Any answer will do for the page; the session goes on if it was pairing.
PairingCompleted(k) ==
  /\ Runs /\ k \in pairing.completing /\ Completed(k)
  /\ state' = Select("appConnected", state)
  /\ irma' = IF irma[k] = "PAIRING" THEN [irma EXCEPT ![k] = "CONNECTED"] ELSE irma
  /\ UNCHANGED <<sessionToken, watched, listener, resolved, offered, start,
                 results, cancel>>

\* A request about pairing fails.
OptionsFail(qr) ==
  LET show == IF qr THEN "showQRCode" ELSE "showYiviButton" IN
  /\ Runs /\ Calls(show) /\ Called(show) /\ Fail(listener)
  /\ UNCHANGED <<sessionToken, watched, resolved, offered, serverVars, results>>

CompletingFails(k) ==
  /\ Runs /\ k \in pairing.completing /\ Completed(k) /\ Fail(listener)
  /\ UNCHANGED <<sessionToken, watched, resolved, offered, serverVars, results>>

Cancel ==
  /\ Runs /\ state \in Following
  /\ state' = After("cancel", state) /\ ServerCloseSession(listener)
  /\ UNCHANGED <<sessionToken, watched, resolved, offered, serverVars, pairing, results>>

-----------------------------------------------------------------------------
(***************************************************************************)
(* The result (POST /api/session/end).  The result of a session that is    *)
(* not done names no disclosed attributes, and IrmaService.endSession      *)
(* fails on it.                                                            *)
(***************************************************************************)
ResultAnswered(k) ==
  /\ Runs /\ k \in results /\ irma[k] = "DONE"
  /\ results' = results \ {k}
  /\ state' = Select("succeed", state)
  /\ resolved' = IF Valid("succeed", state) THEN k ELSE NULL
  /\ UNCHANGED <<sessionToken, watched, listener, offered, serverVars, pairing, cancel>>

ResultFails(k) ==
  /\ Runs /\ k \in results
  /\ results' = results \ {k}
  /\ Fail(listener)
  /\ UNCHANGED <<sessionToken, watched, resolved, offered, serverVars, pairing>>

\* The IRMA server and the wallet (external).
SessionCreated(k) ==
  /\ start[k] = "asked"
  /\ start' = [start EXCEPT ![k] = "created"]
  /\ irma' = [irma EXCEPT ![k] = "INITIALIZED"]
  /\ UNCHANGED <<pageVars, pairing, results, cancel>>

Moves(k, status) ==
  /\ irma' = [irma EXCEPT ![k] = status]
  /\ UNCHANGED <<pageVars, start, pairing, results>>

\* A wallet only knows of a session what a page has shown of it.
WalletConnects(k) ==
  /\ k \in offered /\ irma[k] = "INITIALIZED"
  /\ \E status \in {"CONNECTED"} \cup (IF PairingHint THEN {"PAIRING"} ELSE {}) :
       Moves(k, status)
  /\ UNCHANGED cancel

WalletDiscloses(k) == irma[k] = "CONNECTED" /\ Moves(k, "DONE") /\ UNCHANGED cancel

EndsUnfinished(k) ==
  /\ irma[k] \in Pending /\ \E status \in {"CANCELLED", "TIMEOUT"} : Moves(k, status)
  /\ UNCHANGED cancel

\* The DELETE arrives, or is lost.
CancelArrives(k) ==
  /\ cancel[k] = "asked"
  /\ cancel' = [cancel EXCEPT ![k] = "over"]
  /\ \/ irma[k] \in Pending /\ Moves(k, "CANCELLED")
     \/ UNCHANGED <<pageVars, serverVars, pairing, results>>

-----------------------------------------------------------------------------
YiviInit ==
  /\ state = "Uninitialized"
  /\ start = [k \in Tokens |-> "no"]
  /\ sessionToken = NULL /\ watched = NULL /\ resolved = NULL
  /\ listener = [k \in Tokens |-> NewListener]
  /\ pairing = [enabled |-> FALSE, calls |-> {}, completing |-> {}]
  /\ results = {} /\ offered = {}
  /\ cancel = [k \in Tokens |-> "no"]
  /\ irma = [k \in Tokens |-> "none"]

OptionsSettle(qr)    == OptionsUpdated(qr) \/ OptionsFail(qr)
CompletingSettles(k) == PairingCompleted(k) \/ CompletingFails(k)
StartSettles(k)  == StartAnswered(k) \/ StartFails(k)
PollSettles(k)   == PollAnswers(k) \/ PollFails(k)
ResultSettles(k) == ResultAnswered(k) \/ ResultFails(k)
IrmaSettles(k)   == WalletDiscloses(k) \/ EndsUnfinished(k)

YiviNext ==
  \/ Initialize \/ Restart \/ CheckUserAgent \/ ChooseQR \/ Cancel
  \/ PairingRejected
  \/ \E qr \in BOOLEAN : OptionsSettle(qr)
  \/ \E right \in BOOLEAN : CodeEntered(right)
  \/ \E k \in Tokens :
       \/ StartSettles(k) \/ CompletingSettles(k) \/ PollSettles(k) \/ PollInterval(k)
       \/ ResultSettles(k) \/ SessionCreated(k) \/ WalletConnects(k) \/ IrmaSettles(k)
       \/ CancelArrives(k)
       \/ \E i \in Slots :
            SourceOpens(k, i) \/ SourceTells(k, i) \/ SourceFails(k, i) \/ ConnectTimer(k, i)

YiviSpec == YiviInit /\ [][YiviNext]_yiviVars

(***************************************************************************)
(* Every request is answered or fails, and timers fire.  The IRMA server   *)
(* ends a session by its timeout, and forgets one that is over: its events *)
(* end, and a page that asks for them over and over is refused in the end  *)
(* (hence SF: resizing the window closes a source and opens another).      *)
(* Users and wallets owe nothing, and an open source may be silent.        *)
(***************************************************************************)
EventsEnd(k) == irma[k] \in Final /\ \E i \in Slots : SourceFails(k, i)

YiviFairness ==
  /\ WF_yiviVars(Initialize)
  /\ \A qr \in BOOLEAN : WF_yiviVars(OptionsSettle(qr))
  /\ \A k \in Tokens :
       /\ WF_yiviVars(StartSettles(k)) /\ WF_yiviVars(ResultSettles(k))
       /\ WF_yiviVars(PollSettles(k) \/ PollInterval(k))
       /\ WF_yiviVars(IrmaSettles(k)) /\ SF_yiviVars(EventsEnd(k))
       /\ \A i \in Slots : WF_yiviVars(ConnectTimer(k, i))

YiviFairSpec == YiviSpec /\ YiviFairness
=============================================================================
