----------------------------- MODULE YiviProofs -----------------------------
(***************************************************************************)
(* Theorems about YiviPage.                                                *)
(***************************************************************************)
EXTENDS YiviProperties, TLAPS

-----------------------------------------------------------------------------
(***************************************************************************)
(* The table of transitions, one transition at a time.                     *)
(***************************************************************************)
LEMMA StatesAre ==
  States = {"Uninitialized", "Loading", "CheckingUserAgent", "PreparingQRCode",
            "PreparingYiviButton", "ShowingQRCode", "ShowingYiviButton",
            "EnterPairingCode", "Pairing", "ContinueOn2ndDevice",
            "ContinueInYiviApp", "PreparingResult", "Cancelled", "TimedOut",
            "Error", "Success"}
BY DEF States, Transitions

\* What can fail ends in Error.
LEMMA FailTable ==
  ASSUME NEW s \in States
  PROVE  /\ Valid("fail", s) <=> s \notin {"Uninitialized", "Success"} \cup Stopped
         /\ Valid("fail", s) => After("fail", s) = "Error"
BY StatesAre DEF Valid, After, Transitions, Stopped

LEMMA ConnectTable ==
  ASSUME NEW s \in States
  PROVE  Select("appConnected", s) =
           IF s \in {"ShowingQRCode", "Pairing"} THEN "ContinueOn2ndDevice"
           ELSE IF s = "ShowingYiviButton" THEN "ContinueInYiviApp" ELSE s
BY StatesAre DEF Select, Valid, After, Transitions

LEMMA PairingTable ==
  ASSUME NEW s \in States
  PROVE  /\ Select("appPairing", s) = IF s = "ShowingQRCode" THEN "EnterPairingCode" ELSE s
         /\ Select("pairingRejected", s) = IF s = "Pairing" THEN "EnterPairingCode" ELSE s
         /\ Valid("codeEntered", s) <=> s = "EnterPairingCode"
         /\ Valid("codeEntered", s) => After("codeEntered", s) = "Pairing"
BY StatesAre DEF Select, Valid, After, Transitions

LEMMA ResultTable ==
  ASSUME NEW s \in States
  PROVE  /\ Valid("prepareResult", s) <=> s \in {"ContinueOn2ndDevice", "ContinueInYiviApp"}
         /\ Valid("prepareResult", s) => After("prepareResult", s) = "PreparingResult"
         /\ Valid("succeed", s) <=> s = "PreparingResult"
         /\ Valid("succeed", s) => After("succeed", s) = "Success"
BY StatesAre DEF Valid, After, Transitions

LEMMA EndTable ==
  ASSUME NEW s \in States
  PROVE  /\ Select("cancel", s) =
              IF s \in Offering \cup Following THEN "Cancelled" ELSE s
         /\ Select("timeout", s) =
              IF s \in Offering \cup Following THEN "TimedOut" ELSE s
         /\ s \in Following => After("cancel", s) = "Cancelled"
BY StatesAre DEF Select, Valid, After, Transitions, Offering, Following

LEMMA UserTable ==
  ASSUME NEW s \in States
  PROVE  /\ Valid("restart", s) <=> s \in Stopped
         /\ Valid("checkUserAgent", s) <=> s \in Offering
         /\ Valid("chooseQR", s) <=> s = "ShowingYiviButton"
         /\ Valid("showQRCode", s) <=> s = "PreparingQRCode"
         /\ Valid("showYiviButton", s) <=> s = "PreparingYiviButton"
BY StatesAre DEF Valid, Transitions, Stopped, Offering

-----------------------------------------------------------------------------
(***************************************************************************)
(* The operations of a listener: they give a listener, and only Close and  *)
(* Observe change whether it is running.                                   *)
(***************************************************************************)
LEMMA NewListenerType ==
  NewListener \in Listener /\ ~NewListener.isRunning
BY DEF NewListener, Listener, EventSource, Unused, Statuses, Pending

LEMMA SourceType ==
  ASSUME NEW l \in Listener, NEW i \in Slots, NEW source \in EventSource
  PROVE  /\ [l EXCEPT !.sources[i] = source] \in Listener
         /\ [l EXCEPT !.sources[i] = source].isRunning = l.isRunning
BY DEF Listener

LEMMA CloseSourceType ==
  ASSUME NEW l \in Listener
  PROVE  CloseSource(l) \in Listener /\ CloseSource(l).isRunning = l.isRunning
<1> DEFINE closed == [i \in Slots |->
             IF i = l.source
             THEN [l.sources[i] EXCEPT !.at = "closed", !.told = "INITIALIZED"]
             ELSE l.sources[i]]
<1>1. closed \in [Slots -> EventSource]
  <2> SUFFICES ASSUME NEW i \in Slots
               PROVE  closed[i] \in EventSource
    OBVIOUS
  <2>1. l.sources[i] \in EventSource
    BY DEF Listener
  <2>2. [l.sources[i] EXCEPT !.at = "closed", !.told = "INITIALIZED"] \in EventSource
    BY <2>1 DEF EventSource, Statuses, Pending
  <2> QED BY <2>1, <2>2
<1>2. CloseSource(l) = [l EXCEPT !.sources = closed]
  BY DEF CloseSource
<1> HIDE DEF closed
<1> QED BY <1>1, <1>2 DEF Listener

LEMMA CloseType ==
  ASSUME NEW l \in Listener
  PROVE  Close(l) \in Listener /\ ~Close(l).isRunning
<1>1. \A c \in Listener : /\ [c EXCEPT !.isRunning = FALSE] \in Listener
                          /\ ~[c EXCEPT !.isRunning = FALSE].isRunning
  BY DEF Listener
<1> QED BY <1>1, CloseSourceType DEF Close

LEMMA StartPollingType ==
  ASSUME NEW l \in Listener
  PROVE  StartPolling(l) \in Listener /\ StartPolling(l).isRunning = l.isRunning
BY DEF StartPolling, Listener, Statuses, Pending

LEMMA ObserveType ==
  ASSUME NEW l \in Listener, NEW i \in Slots
  PROVE  Observe(l, i) \in Listener /\ Observe(l, i).isRunning
<1>1. [l EXCEPT !.isRunning = TRUE] \in Listener
  BY DEF Listener
<1>2. [at |-> "connecting", timer |-> TRUE, told |-> "INITIALIZED"] \in EventSource
  BY DEF EventSource, Statuses, Pending
<1> QED BY <1>1, <1>2, StartPollingType DEF Observe, Listener

LEMMA SourceOpenedType ==
  ASSUME NEW l \in Listener, NEW i \in Slots, NEW status \in Statuses
  PROVE  /\ SourceOpened(l, i, status) \in Listener
         /\ SourceOpened(l, i, status).isRunning = l.isRunning
<1>1. [at |-> "open", timer |-> FALSE, told |-> status] \in EventSource
  BY DEF EventSource
<1> QED BY <1>1, SourceType DEF SourceOpened

LEMMA SourceToldType ==
  ASSUME NEW l \in Listener, NEW i \in Slots, NEW status \in Statuses
  PROVE  /\ SourceTold(l, i, status) \in Listener
         /\ SourceTold(l, i, status).isRunning = l.isRunning
BY DEF SourceTold, Listener, EventSource

LEMMA SourceFailedType ==
  ASSUME NEW l \in Listener, NEW i \in Slots, NEW at \in {"connecting", "closed"}
  PROVE  /\ SourceFailed(l, i, at) \in Listener
         /\ SourceFailed(l, i, at).isRunning = l.isRunning
<1>1. [at |-> at, timer |-> FALSE, told |-> "INITIALIZED"] \in EventSource
  BY DEF EventSource, Statuses, Pending
<1> DEFINE failed == [l EXCEPT !.sources[i] =
                        [at |-> at, timer |-> FALSE, told |-> "INITIALIZED"]]
<1>2. failed \in Listener /\ failed.isRunning = l.isRunning
  BY <1>1, SourceType
<1>3. SourceFailed(l, i, at) = StartPolling(CloseSource(failed))
  BY DEF SourceFailed
<1> DEFINE shut == CloseSource(failed)
<1> HIDE DEF failed
<1>4. shut \in Listener /\ shut.isRunning = l.isRunning
  BY <1>2, CloseSourceType
<1>5. SourceFailed(l, i, at) = StartPolling(shut)
  BY <1>3
<1> HIDE DEF shut
<1>6. StartPolling(shut) \in Listener /\ StartPolling(shut).isRunning = l.isRunning
  BY <1>4, StartPollingType
<1> QED BY <1>5, <1>6

LEMMA TimerFiredType ==
  ASSUME NEW l \in Listener, NEW i \in Slots
  PROVE  TimerFired(l, i) \in Listener /\ TimerFired(l, i).isRunning = l.isRunning
<1> DEFINE source == [l.sources[i] EXCEPT !.timer = FALSE]
<1>0. l.sources[i] \in EventSource
  BY DEF Listener
<1>1. source \in EventSource
  BY <1>0 DEF EventSource
<1>2. [l EXCEPT !.sources[i].timer = FALSE] = [l EXCEPT !.sources[i] = source]
  OBVIOUS
<1> HIDE DEF source
<1>3. /\ [l EXCEPT !.sources[i].timer = FALSE] \in Listener
      /\ [l EXCEPT !.sources[i].timer = FALSE].isRunning = l.isRunning
  BY <1>1, <1>2, SourceType
<1> QED BY <1>3, CloseSourceType, StartPollingType DEF TimerFired

LEMMA PollType ==
  ASSUME NEW l \in Listener, NEW status \in Statuses
  PROVE  /\ PollAnswered(l, status) \in Listener
         /\ PollAnswered(l, status).isRunning = l.isRunning
         /\ PollFailed(l) \in Listener /\ PollFailed(l).isRunning = l.isRunning
         /\ IntervalOver(l) \in Listener /\ IntervalOver(l).isRunning = l.isRunning
BY DEF PollAnswered, PollFailed, IntervalOver, LoopEnds, Listener, Statuses, Pending

-----------------------------------------------------------------------------
(***************************************************************************)
(* The inductive invariant.  A listener only runs while the page waits for *)
(* its session, so that a page that loads another one has none; what is    *)
(* known of a session grows from its request to its answer, and a wallet   *)
(* only gets at one that was offered.                                      *)
(***************************************************************************)
Waiting == Preparing \cup Offering \cup Following

Fit(ls, w, s, asked) ==
  /\ ls \in [Tokens -> Listener]
  /\ \A k \in Tokens :
       /\ ls[k].isRunning => k = w /\ s \in Waiting
       /\ asked[k] # "answered" => ls[k] = NewListener

SessionKnown(k) ==
  /\ start[k] \in {"no", "asked"} => irma[k] = "none"
  /\ start[k] \in {"created", "answered"} => irma[k] # "none"
  /\ irma[k] \in {"PAIRING", "CONNECTED", "DONE"} => k \in offered

YiviInv ==
  /\ YiviTypeOK
  /\ Fit(listener, watched, state, start)
  /\ watched # NULL => sessionToken # NULL /\ start[watched] = "answered"
  /\ state \in Waiting => watched # NULL
  /\ state = "Success" <=> resolved # NULL
  /\ \A k \in Tokens : SessionKnown(k)

LEMMA WaitingStates ==
  /\ Waiting = {"PreparingQRCode", "PreparingYiviButton", "ShowingQRCode",
                "ShowingYiviButton", "EnterPairingCode", "Pairing",
                "ContinueOn2ndDevice", "ContinueInYiviApp"}
  /\ Waiting \subseteq States /\ Stopped \subseteq States
  /\ Waiting \cap Stopped = {}
  /\ Offering \subseteq Waiting /\ Following \subseteq Waiting /\ Preparing \subseteq Waiting
BY StatesAre DEF Waiting, Preparing, Offering, Following, Stopped

LEMMA FitMoves ==
  ASSUME NEW ls, NEW w, NEW s, NEW t, NEW asked, Fit(ls, w, s, asked),
         s \in Waiting => t \in Waiting
  PROVE  Fit(ls, w, t, asked)
BY DEF Fit

\* A listener that does not start to run, of a session that is answered.
LEMMA FitReplaces ==
  ASSUME NEW ls, NEW w, NEW s, NEW asked, Fit(ls, w, s, asked),
         NEW k \in Tokens, asked[k] = "answered",
         NEW l \in Listener, l.isRunning => ls[k].isRunning
  PROVE  Fit([ls EXCEPT ![k] = l], w, s, asked)
BY DEF Fit

\* Closing what is watched leaves no listener running, wherever the page goes.
LEMMA WatchedClosedFits ==
  ASSUME YiviInv, NEW ls, Fit(ls, watched, state, start), NEW t
  PROVE  Fit(WatchedClosed(ls), watched, t, start)
<1>1. CASE watched = NULL
  BY <1>1, YiviAssumption DEF Fit, WatchedClosed
<1>2. CASE watched # NULL
  <2>1. watched \in Tokens /\ start[watched] = "answered"
    BY <1>2 DEF YiviInv, YiviTypeOK
  <2>2. ls[watched] \in Listener
    BY <2>1 DEF Fit
  <2>3. Close(ls[watched]) \in Listener /\ ~Close(ls[watched]).isRunning
    BY <2>2, CloseType
  <2>4. WatchedClosed(ls) = [ls EXCEPT ![watched] = Close(ls[watched])]
    BY <1>2 DEF WatchedClosed
  <2> QED BY <2>1, <2>3, <2>4 DEF Fit
<1> QED BY <1>1, <1>2

LEMMA ServerCloseSessionFits ==
  ASSUME YiviInv, NEW ls, Fit(ls, watched, state, start), ServerCloseSession(ls), NEW t
  PROVE  Fit(listener', watched, t, start) /\ cancel' \in [Tokens -> {"no", "asked", "over"}]
<1>1. Fit(listener', watched, t, start)
  BY WatchedClosedFits DEF ServerCloseSession
<1>2. cancel' \in [Tokens -> {"no", "asked", "over"}]
  BY DEF ServerCloseSession, YiviInv, YiviTypeOK
<1> QED BY <1>1, <1>2

LEMMA FailFits ==
  ASSUME YiviInv, NEW ls, Fit(ls, watched, state, start), Fail(ls)
  PROVE  /\ Fit(listener', watched, state', start)
         /\ cancel' \in [Tokens -> {"no", "asked", "over"}]
         /\ \/ state' = state
            \/ state' = "Error" /\ state \notin {"Uninitialized", "Success"} \cup Stopped
<1> USE DEF YiviInv, YiviTypeOK
<1>1. CASE Valid("fail", state)
  BY <1>1, FailTable, ServerCloseSessionFits DEF Fail
<1>2. CASE ~Valid("fail", state)
  BY <1>2 DEF Fail
<1> QED BY <1>1, <1>2

\* Showing and preparing to show session k, whose listener alone may run.
LEMMA ShowFits ==
  ASSUME NEW ls, NEW k \in Tokens, NEW qr, NEW asked,
         Fit(ls, k, "ShowingQRCode", asked), asked[k] = "answered",
         YiviAssumption, Show(ls, k, qr)
  PROVE  /\ Fit(listener', k, state', asked)
         /\ state' \in Offering /\ offered' = offered \cup {k}
<1>1. state' \in Offering /\ offered' = offered \cup {k}
  BY DEF Show, Offering
<1>2. PICK i \in SlotsOf[k] : listener' = [ls EXCEPT ![k] = Observe(ls[k], i)]
  BY DEF Show
<1>3. i \in Slots /\ ls[k] \in Listener
  BY <1>2 DEF Fit, YiviAssumption
<1>4. Observe(ls[k], i) \in Listener
  BY <1>3, ObserveType
<1>5. state' \in Waiting
  BY <1>1, WaitingStates
<1> QED BY <1>1, <1>2, <1>4, <1>5 DEF Fit

LEMMA PrepareFits ==
  ASSUME NEW ls, NEW k \in Tokens, NEW qr, NEW asked, NEW enabled,
         Fit(ls, k, "ShowingQRCode", asked), asked[k] = "answered",
         YiviAssumption, pairing \in PairingState, Prepare(ls, k, qr, enabled)
  PROVE  /\ Fit(listener', k, state', asked)
         /\ pairing' \in PairingState
         /\ \/ state' \in Offering /\ offered' = offered \cup {k}
            \/ state' \in Preparing /\ offered' = offered
<1> DEFINE wanted == qr /\ PairingHint
<1>0. wanted \in BOOLEAN
  BY DEF YiviAssumption
<1>1. CASE wanted = enabled
  <2>1. Show(ls, k, qr) /\ pairing' = [pairing EXCEPT !.enabled = wanted]
    BY <1>1 DEF Prepare
  <2>2. pairing' \in PairingState
    BY <1>0, <2>1 DEF PairingState
  <2> QED BY <2>1, <2>2, ShowFits
<1>2. CASE wanted # enabled
  <2>1. /\ state' = IF qr THEN "PreparingQRCode" ELSE "PreparingYiviButton"
        /\ pairing' = [pairing EXCEPT !.enabled = wanted, !.calls = @ \cup
                         {IF qr THEN "showQRCode" ELSE "showYiviButton"}]
        /\ listener' = ls /\ offered' = offered
    BY <1>2 DEF Prepare
  <2>2. state' \in Preparing
    BY <2>1 DEF Preparing
  <2>3. pairing' \in PairingState
    BY <1>0, <2>1 DEF PairingState, PairingCalls
  <2>4. Fit(listener', k, state', asked)
    BY <2>1, <2>2, FitMoves, WaitingStates
  <2> QED BY <2>1, <2>2, <2>3, <2>4
<1> QED BY <1>1, <1>2

\* What a report makes of the page: nothing, a later state of the same wait,
\* an end of it, or a request for the result of a session that is done.
LEMMA ServerStateChangeFits ==
  ASSUME YiviInv, NEW ls, Fit(ls, watched, state, start), NEW status \in Statuses,
         ServerStateChange(ls, status)
  PROVE  /\ Fit(listener', watched, state', start)
         /\ results' \in SUBSET Tokens
         /\ \/ state' = state /\ UNCHANGED results
            \/ /\ state \in Offering \cup Following /\ state' \in Following \cup Stopped
               /\ UNCHANGED results
            \/ /\ state \in Offering \cup Following
               /\ state' = "PreparingResult" /\ status = "DONE"
               /\ sessionToken \in Tokens /\ results' = results \cup {sessionToken}
<1> USE DEF YiviInv, YiviTypeOK
<1> DEFINE connected == Select("appConnected", state)
           Changed ==
             /\ Fit(listener', watched, state', start)
             /\ results' \in SUBSET Tokens
             /\ \/ state' = state /\ UNCHANGED results
                \/ /\ state \in Offering \cup Following /\ state' \in Following \cup Stopped
                   /\ UNCHANGED results
                \/ /\ state \in Offering \cup Following
                   /\ state' = "PreparingResult" /\ status = "DONE"
                   /\ sessionToken \in Tokens /\ results' = results \cup {sessionToken}
<1>0. \/ connected = state
      \/ state \in Offering \cup Following /\ connected \in Following
  BY ConnectTable DEF Offering, Following
<1>1. ASSUME NEW t, t = state \/ (state \in Offering \cup Following /\ t \in Following),
             state' = t, listener' = ls, results' = results
      PROVE  Changed
  BY <1>1, FitMoves, WaitingStates
<1>2. CASE status = "PAIRING"
  <2>1. state' = Select("appPairing", state) /\ listener' = ls /\ results' = results
    BY <1>2 DEF ServerStateChange
  <2> QED BY <1>1, <2>1, PairingTable DEF Offering, Following
<1>3. CASE status = "CONNECTED"
  <2>1. /\ state' \in {state, connected}
        /\ listener' = ls /\ results' = results
    BY <1>3 DEF ServerStateChange
  <2> QED BY <1>0, <1>1, <2>1
<1>4. CASE status = "DONE"
  <2>1. /\ listener' = WatchedClosed(ls)
        /\ state' = Select("prepareResult", connected)
        /\ results' = IF Valid("prepareResult", connected)
                      THEN results \cup {sessionToken} ELSE results
    BY <1>4 DEF ServerStateChange
  <2>2. connected \in States
    BY <1>0, WaitingStates
  <2>3. /\ Valid("prepareResult", connected) => connected \in Following
        /\ state' = IF Valid("prepareResult", connected) THEN "PreparingResult" ELSE connected
    BY <2>1, <2>2, ResultTable DEF Select, Following
  <2>4. Valid("prepareResult", connected) => state \in Offering \cup Following
    BY <1>0, <2>3
  <2>5. /\ results' \in SUBSET Tokens
        /\ Valid("prepareResult", connected) => sessionToken \in Tokens
    BY <2>1, <2>4, WaitingStates
  <2>6. Fit(listener', watched, state', start)
    BY <2>1, WatchedClosedFits
  <2> QED BY <1>0, <1>4, <2>1, <2>3, <2>4, <2>5, <2>6
<1>5. ASSUME NEW transition \in {"cancel", "timeout"}, Ends(ls, transition)
      PROVE  Changed
  <2>1. state' = Select(transition, state) /\ listener' = WatchedClosed(ls) /\ results' = results
    BY <1>5 DEF Ends
  <2>2. state' = state \/ (state \in Offering \cup Following /\ state' \in Stopped)
    BY <2>1, EndTable DEF Stopped
  <2> QED BY <2>1, <2>2, WatchedClosedFits
<1>6. CASE status = "CANCELLED"
  BY <1>5, <1>6 DEF ServerStateChange
<1>7. CASE status = "TIMEOUT"
  BY <1>5, <1>7 DEF ServerStateChange
<1> QED BY <1>2, <1>3, <1>4, <1>6, <1>7 DEF ServerStateChange

-----------------------------------------------------------------------------
(***************************************************************************)
(* Every step keeps the invariant.                                         *)
(***************************************************************************)
\* A step of the page that asks nothing of a server it has not asked before.
LEMMA PageStep ==
  ASSUME YiviInv, UNCHANGED <<sessionToken, watched, resolved, serverVars>>,
         Fit(listener', watched, state', start), state' \in States,
         state' \in Waiting => watched # NULL,
         state' = "Success" <=> state = "Success",
         pairing' \in PairingState, results' \in SUBSET Tokens,
         cancel' \in [Tokens -> {"no", "asked", "over"}],
         offered' \in SUBSET Tokens, offered \subseteq offered'
  PROVE  YiviInv'
BY DEF YiviInv, YiviTypeOK, Fit, SessionKnown, serverVars

LEMMA InvInit == YiviAssumption /\ YiviInit => YiviInv
<1> SUFFICES ASSUME YiviAssumption, YiviInit PROVE YiviInv
  OBVIOUS
<1>1. YiviTypeOK
  BY NewListenerType, StatesAre
  DEF YiviInit, YiviTypeOK, PairingState, Statuses
<1>2. Fit(listener, watched, state, start)
  BY NewListenerType DEF YiviInit, Fit
<1> QED BY <1>1, <1>2, WaitingStates DEF YiviInv, YiviInit, SessionKnown

LEMMA LoadingKeeps ==
  ASSUME YiviInv, Initialize \/ Restart
  PROVE  YiviInv'
<1> USE DEF Initialize, Restart, EnterLoading
<1>1. state \notin Waiting /\ state # "Success"
  BY UserTable, WaitingStates DEF YiviInv, YiviTypeOK, Stopped
<1>2. PICK k \in Tokens : start[k] = "no" /\ start' = [start EXCEPT ![k] = "asked"]
  OBVIOUS
<1>3. Fit(listener', watched', state', start')
  BY <1>1, <1>2 DEF Fit, YiviInv, YiviTypeOK
<1>4. YiviTypeOK'
  BY <1>2, StatesAre DEF YiviInv, YiviTypeOK
<1> QED BY <1>1, <1>2, <1>3, <1>4, WaitingStates DEF YiviInv, YiviTypeOK, SessionKnown

LEMMA StartAnsweredKeeps ==
  ASSUME YiviInv, YiviAssumption, NEW k \in Tokens, StartAnswered(k)
  PROVE  YiviInv'
<1> USE DEF StartAnswered
<1>1. /\ start[k] = "created" /\ start' = [start EXCEPT ![k] = "answered"]
      /\ sessionToken' = k /\ resolved = NULL
      /\ UNCHANGED <<resolved, irma, results>>
  BY DEF Runs
<1>2. start' \in [Tokens -> {"no", "asked", "created", "answered", "lost"}]
      /\ start'[k] = "answered" /\ irma[k] # "none"
  BY <1>1 DEF YiviInv, YiviTypeOK, SessionKnown
<1>3. CASE state = "Loading"
  <2>1. /\ watched' = k /\ UNCHANGED cancel
        /\ DetermineFlow([listener EXCEPT ![k] = NewListener], k, FALSE)
    BY <1>3
  <2>2. Fit([listener EXCEPT ![k] = NewListener], k, "ShowingQRCode", start')
    BY <1>1, <1>2, <1>3, NewListenerType, WaitingStates DEF YiviInv, Fit
  <2>3. PICK agent \in UserAgents :
          Prepare([listener EXCEPT ![k] = NewListener], k, agent = "Desktop", FALSE)
    BY <2>1 DEF DetermineFlow
  <2>4. /\ Fit(listener', k, state', start')
        /\ pairing' \in PairingState
        /\ \/ state' \in Offering /\ offered' = offered \cup {k}
           \/ state' \in Preparing /\ offered' = offered
    <3> DEFINE qr == agent = "Desktop"
               ls == [listener EXCEPT ![k] = NewListener]
    <3>1. qr \in BOOLEAN /\ pairing \in PairingState
      BY DEF YiviInv, YiviTypeOK
    <3>2. Fit(ls, k, "ShowingQRCode", start') /\ Prepare(ls, k, qr, FALSE)
      BY <2>2, <2>3
    <3> HIDE DEF qr, ls
    <3> QED BY <1>2, <3>1, <3>2, PrepareFits
  <2>5. state' \in States /\ state' # "Success"
    BY <2>4, StatesAre DEF Offering, Preparing
  <2>6. YiviTypeOK'
    BY <1>1, <1>2, <2>1, <2>4, <2>5 DEF YiviInv, YiviTypeOK, Fit
  <2>7. \A j \in Tokens : SessionKnown(j)'
    BY <1>1, <1>2, <2>4 DEF YiviInv, YiviTypeOK, SessionKnown
  <2> QED BY <1>1, <1>2, <1>3, <2>1, <2>4, <2>5, <2>6, <2>7, YiviAssumption DEF YiviInv
<1>4. CASE state # "Loading"
  <2>1. cancel' = [cancel EXCEPT ![k] = "asked"]
        /\ UNCHANGED <<state, watched, listener, offered, pairing>>
    BY <1>4
  <2>2. Fit(listener', watched', state', start')
    BY <1>1, <2>1 DEF YiviInv, YiviTypeOK, Fit
  <2>3. YiviTypeOK'
    BY <1>1, <1>2, <2>1 DEF YiviInv, YiviTypeOK
  <2>4. \A j \in Tokens : SessionKnown(j)'
    BY <1>1, <1>2, <2>1 DEF YiviInv, YiviTypeOK, SessionKnown
  <2> QED BY <1>1, <1>2, <2>1, <2>2, <2>3, <2>4, YiviAssumption DEF YiviInv, YiviTypeOK
<1> QED BY <1>3, <1>4

LEMMA StartFailsKeeps ==
  ASSUME YiviInv, NEW k \in Tokens, StartFails(k)
  PROVE  YiviInv'
<1> USE DEF StartFails
<1>1. /\ start[k] \in {"asked", "created"} /\ start' = [start EXCEPT ![k] = "lost"]
      /\ Fail(listener)
      /\ UNCHANGED <<sessionToken, watched, resolved, offered, irma, pairing, results>>
  OBVIOUS
<1>2. /\ Fit(listener', watched, state', start)
      /\ cancel' \in [Tokens -> {"no", "asked", "over"}]
      /\ \/ state' = state
         \/ state' = "Error" /\ state \notin {"Uninitialized", "Success"} \cup Stopped
  <2>1. Fit(listener, watched, state, start) /\ Fail(listener)
    BY <1>1 DEF YiviInv
  <2> QED
    BY <2>1, FailFits
<1>3. Fit(listener', watched', state', start')
  BY <1>1, <1>2, ZenonT(40) DEF YiviInv, YiviTypeOK, Fit
<1>4. YiviTypeOK'
  <2>1. state' \in States
    BY <1>2, StatesAre DEF YiviInv, YiviTypeOK
  <2>2. listener' \in [Tokens -> Listener]
    BY <1>2 DEF Fit
  <2>3. start' \in [Tokens -> {"no", "asked", "created", "answered", "lost"}]
    BY <1>1 DEF YiviInv, YiviTypeOK
  <2> QED BY <1>1, <1>2, <2>1, <2>2, <2>3 DEF YiviInv, YiviTypeOK
<1>5. \A j \in Tokens : SessionKnown(j)'
  BY <1>1 DEF YiviInv, YiviTypeOK, SessionKnown
<1>6. /\ state' \in Waiting => state \in Waiting
      /\ state' = "Success" <=> state = "Success"
  BY <1>2, WaitingStates
<1>7. watched # NULL => start'[watched] = "answered"
  BY <1>1 DEF YiviInv, YiviTypeOK
<1> QED BY <1>1, <1>3, <1>4, <1>5, <1>6, <1>7 DEF YiviInv

\* Whoever listens listens to a session the server knows of.
LEMMA ListenedTo ==
  ASSUME YiviInv, NEW k \in Tokens, listener[k] # NewListener
  PROVE  start[k] = "answered" /\ irma[k] \in Statuses /\ listener[k] \in Listener
BY DEF YiviInv, YiviTypeOK, Fit, SessionKnown

LEMMA BecomesFits ==
  ASSUME YiviInv, NEW k \in Tokens, start[k] = "answered",
         NEW l \in Listener, l.isRunning = listener[k].isRunning
  PROVE  Fit(Becomes(k, l), watched, state, start)
BY FitReplaces DEF YiviInv, Becomes

LEMMA ListensKeeps ==
  ASSUME YiviInv, NEW k \in Tokens, start[k] = "answered",
         NEW l \in Listener, l.isRunning = listener[k].isRunning, Listens(k, l)
  PROVE  YiviInv'
<1>1. Fit(listener', watched', state', start')
  BY BecomesFits DEF Listens, UnchangedByListening, serverVars
<1> QED BY <1>1, PageStep DEF Listens, UnchangedByListening, serverVars, YiviInv, YiviTypeOK

LEMMA ReportKeeps ==
  ASSUME YiviInv, NEW k \in Tokens, start[k] = "answered",
         NEW l \in Listener, l.isRunning = listener[k].isRunning,
         NEW status \in Statuses, ServerStateChange(Becomes(k, l), status),
         UNCHANGED cancel, UnchangedByListening
  PROVE  YiviInv'
<1>1. Fit(Becomes(k, l), watched, state, start)
  BY BecomesFits
<1>2. /\ Fit(listener', watched, state', start)
      /\ results' \in SUBSET Tokens
      /\ \/ state' = state
         \/ state \in Offering \cup Following /\ state' \in Following \cup Stopped
         \/ state \in Offering \cup Following /\ state' = "PreparingResult"
  BY <1>1, ServerStateChangeFits
<1>3. /\ state' \in States /\ (state' \in Waiting => state \in Waiting)
      /\ state' = "Success" <=> state = "Success"
  BY <1>2, StatesAre, WaitingStates DEF YiviInv, YiviTypeOK, Offering, Following, Stopped
<1> QED BY <1>2, <1>3, PageStep DEF UnchangedByListening, serverVars, YiviInv, YiviTypeOK

LEMMA SourceKeeps ==
  ASSUME YiviInv, NEW k \in Tokens, NEW i \in Slots,
         SourceOpens(k, i) \/ SourceTells(k, i) \/ SourceFails(k, i) \/ ConnectTimer(k, i)
  PROVE  YiviInv'
<1>1. listener[k] # NewListener
  BY DEF SourceOpens, SourceTells, SourceFails, ConnectTimer, NewListener, Unused
<1>2. start[k] = "answered" /\ irma[k] \in Statuses /\ listener[k] \in Listener
  BY <1>1, ListenedTo
<1>3. CASE SourceOpens(k, i)
  BY <1>2, <1>3, SourceOpenedType, ListensKeeps DEF SourceOpens
<1>4. CASE SourceTells(k, i)
  BY <1>2, <1>4, SourceToldType, ReportKeeps DEF SourceTells
<1>5. CASE SourceFails(k, i)
  BY <1>2, <1>5, SourceFailedType, ListensKeeps DEF SourceFails
<1>6. CASE ConnectTimer(k, i)
  BY <1>2, <1>6, TimerFiredType, ListensKeeps DEF ConnectTimer
<1> QED BY <1>3, <1>4, <1>5, <1>6

LEMMA PollKeeps ==
  ASSUME YiviInv, NEW k \in Tokens,
         PollAnswers(k) \/ PollFails(k) \/ PollInterval(k)
  PROVE  YiviInv'
<1>1. listener[k] # NewListener
  BY DEF PollAnswers, PollFails, PollInterval, NewListener
<1>2. start[k] = "answered" /\ irma[k] \in Statuses /\ listener[k] \in Listener
  BY <1>1, ListenedTo
<1>3. CASE PollAnswers(k)
  BY <1>2, <1>3, PollType, ListensKeeps, ReportKeeps DEF PollAnswers
<1>4. CASE PollFails(k)
  <2>1. CASE Listens(k, PollFailed(listener[k]))
    BY <1>2, <2>1, PollType, ListensKeeps
  <2>2. CASE /\ Fail(Becomes(k, PollFailed(listener[k])))
             /\ UNCHANGED results /\ UnchangedByListening
    <3>1. Fit(Becomes(k, PollFailed(listener[k])), watched, state, start)
      BY <1>2, PollType, BecomesFits
    <3>2. /\ Fit(listener', watched, state', start)
          /\ cancel' \in [Tokens -> {"no", "asked", "over"}]
          /\ \/ state' = state
             \/ state' = "Error" /\ state \notin {"Uninitialized", "Success"} \cup Stopped
      BY <2>2, <3>1, FailFits
    <3>3. /\ state' \in States /\ (state' \in Waiting => state \in Waiting)
          /\ state' = "Success" <=> state = "Success"
      BY <3>2, StatesAre, WaitingStates DEF YiviInv, YiviTypeOK
    <3> QED BY <2>2, <3>2, <3>3, PageStep
            DEF UnchangedByListening, serverVars, YiviInv, YiviTypeOK
  <2> QED BY <1>4, <2>1, <2>2 DEF PollFails
<1>5. CASE PollInterval(k)
  BY <1>2, <1>5, PollType, ListensKeeps DEF PollInterval
<1> QED BY <1>3, <1>4, <1>5

\* Something fails while listener is what it was.
LEMMA FailKeeps ==
  ASSUME YiviInv, Fail(listener), pairing' \in PairingState, results' \in SUBSET Tokens,
         UNCHANGED <<sessionToken, watched, resolved, offered, serverVars>>
  PROVE  YiviInv'
<1>1. /\ Fit(listener', watched, state', start)
      /\ cancel' \in [Tokens -> {"no", "asked", "over"}]
      /\ \/ state' = state
         \/ state' = "Error" /\ state \notin {"Uninitialized", "Success"} \cup Stopped
  BY FailFits DEF YiviInv
<1>2. /\ state' \in States /\ (state' \in Waiting => state \in Waiting)
      /\ state' = "Success" <=> state = "Success"
  BY <1>1, StatesAre, WaitingStates DEF YiviInv, YiviTypeOK
<1> QED BY <1>1, <1>2, PageStep DEF serverVars, YiviInv, YiviTypeOK

\* The state moves on, the listeners stay as they are.
LEMMA MoveKeeps ==
  ASSUME YiviInv, state' \in States, state' \in Waiting <=> state \in Waiting,
         state' = "Success" <=> state = "Success",
         pairing' \in PairingState,
         UNCHANGED <<sessionToken, watched, listener, resolved, offered, serverVars,
                     results, cancel>>
  PROVE  YiviInv'
<1>1. Fit(listener', watched', state', start')
  BY FitMoves DEF YiviInv, serverVars
<1> QED BY <1>1, PageStep DEF YiviInv, YiviTypeOK, serverVars

LEMMA WatchedInWaiting ==
  ASSUME YiviInv, state \in Waiting
  PROVE  /\ watched \in Tokens /\ start[watched] = "answered"
         /\ listener[watched] \in Listener
         /\ Fit(listener, watched, "ShowingQRCode", start)
<1>1. watched \in Tokens /\ start[watched] = "answered"
  BY DEF YiviInv, YiviTypeOK
<1>2. "ShowingQRCode" \in Waiting
  BY WaitingStates
<1> QED BY <1>1, <1>2 DEF YiviInv, Fit

\* The page comes to show, or prepares to show, the session that it watches.
LEMMA OfferKeeps ==
  ASSUME YiviInv, state \in Waiting, Fit(listener', watched, state', start),
         pairing' \in PairingState,
         \/ state' \in Offering /\ offered' = offered \cup {watched}
         \/ state' \in Preparing /\ offered' = offered,
         UNCHANGED <<sessionToken, watched, resolved, serverVars, results, cancel>>
  PROVE  YiviInv'
<1>1. /\ state' \in States /\ state' # "Success" /\ state # "Success"
      /\ offered' \in SUBSET Tokens /\ offered \subseteq offered'
  BY WatchedInWaiting, StatesAre, WaitingStates
  DEF YiviInv, YiviTypeOK, Offering, Preparing
<1> QED BY <1>1, PageStep DEF YiviInv, YiviTypeOK, serverVars

LEMMA CheckUserAgentKeeps ==
  ASSUME YiviInv, YiviAssumption, CheckUserAgent
  PROVE  YiviInv'
<1> DEFINE ls == [listener EXCEPT ![watched] = Close(@)]
<1>1. state \in Offering /\ state \in Waiting
  BY UserTable, WaitingStates DEF CheckUserAgent, YiviInv, YiviTypeOK
<1>2. Fit(ls, watched, "ShowingQRCode", start)
  BY <1>1, WatchedInWaiting, CloseType, FitReplaces
<1>3. PICK agent \in UserAgents : Prepare(ls, watched, agent = "Desktop", pairing.enabled)
  BY DEF CheckUserAgent, DetermineFlow
<1> HIDE DEF ls
<1>4. pairing \in PairingState
  BY DEF YiviInv, YiviTypeOK
<1>5. /\ Fit(listener', watched, state', start) /\ pairing' \in PairingState
      /\ \/ state' \in Offering /\ offered' = offered \cup {watched}
         \/ state' \in Preparing /\ offered' = offered
  BY <1>1, <1>2, <1>3, <1>4, WatchedInWaiting, PrepareFits
<1> QED BY <1>1, <1>5, OfferKeeps DEF CheckUserAgent

LEMMA ChooseQRKeeps ==
  ASSUME YiviInv, YiviAssumption, ChooseQR
  PROVE  YiviInv'
<1>1. state \in Offering /\ state \in Waiting
  BY UserTable, WaitingStates DEF ChooseQR, YiviInv, YiviTypeOK, Offering
<1>2. pairing \in PairingState
  BY DEF YiviInv, YiviTypeOK
<1>3. /\ Fit(listener', watched, state', start) /\ pairing' \in PairingState
      /\ \/ state' \in Offering /\ offered' = offered \cup {watched}
         \/ state' \in Preparing /\ offered' = offered
  BY <1>1, <1>2, WatchedInWaiting, PrepareFits DEF ChooseQR
<1> QED BY <1>1, <1>3, OfferKeeps DEF ChooseQR

LEMMA OptionsSettleKeeps ==
  ASSUME YiviInv, YiviAssumption, NEW qr \in BOOLEAN, OptionsSettle(qr)
  PROVE  YiviInv'
<1> DEFINE show == IF qr THEN "showQRCode" ELSE "showYiviButton"
<1>1. pairing' \in PairingState
  BY DEF OptionsSettle, OptionsUpdated, OptionsFail, Called, PairingState, YiviInv, YiviTypeOK
<1>2. CASE OptionsFail(qr)
  BY <1>1, <1>2, FailKeeps DEF OptionsFail, YiviInv, YiviTypeOK
<1>3. CASE OptionsUpdated(qr)
  <2>1. CASE Valid(show, state) /\ Show(listener, watched, qr)
    <3>1. state \in Waiting
      BY <2>1, UserTable, WaitingStates DEF YiviInv, YiviTypeOK
    <3>2. /\ Fit(listener', watched, state', start)
          /\ state' \in Offering /\ offered' = offered \cup {watched}
      BY <2>1, <3>1, WatchedInWaiting, ShowFits
    <3> QED BY <1>1, <1>3, <3>1, <3>2, OfferKeeps DEF OptionsUpdated
  <2>2. CASE UNCHANGED <<state, listener, offered>>
    BY <1>1, <1>3, <2>2, MoveKeeps DEF OptionsUpdated, YiviInv, YiviTypeOK
  <2> QED BY <1>3, <2>1, <2>2 DEF OptionsUpdated
<1> QED BY <1>2, <1>3 DEF OptionsSettle

LEMMA CodeKeeps ==
  ASSUME YiviInv, PairingRejected \/ \E right \in BOOLEAN : CodeEntered(right)
  PROVE  YiviInv'
<1> USE DEF YiviInv, YiviTypeOK
<1>1. CASE PairingRejected
  <2>1. pairing' \in PairingState
    BY <1>1 DEF PairingRejected, Called, PairingState
  <2>2. /\ state' \in States /\ (state' \in Waiting <=> state \in Waiting)
        /\ state' = "Success" <=> state = "Success"
    BY <1>1, PairingTable, WaitingStates DEF PairingRejected
  <2> QED BY <1>1, <2>1, <2>2, MoveKeeps DEF PairingRejected
<1>2. ASSUME NEW right \in BOOLEAN, CodeEntered(right) PROVE YiviInv'
  <2>1. state = "EnterPairingCode" /\ state' = "Pairing"
    BY <1>2, PairingTable DEF CodeEntered
  <2>2. watched \in Tokens
    BY <2>1, WaitingStates
  <2>3. pairing' \in PairingState
    BY <1>2, <2>2 DEF CodeEntered, PairingState, PairingCalls
  <2> QED BY <1>2, <2>1, <2>3, MoveKeeps, WaitingStates DEF CodeEntered
<1> QED BY <1>1, <1>2

LEMMA CancelKeeps ==
  ASSUME YiviInv, Cancel
  PROVE  YiviInv'
<1>1. state \in States /\ state \in Following /\ state' = "Cancelled"
  BY EndTable DEF Cancel, YiviInv, YiviTypeOK
<1>2. /\ Fit(listener', watched, state', start)
      /\ cancel' \in [Tokens -> {"no", "asked", "over"}]
  BY ServerCloseSessionFits DEF Cancel, YiviInv
<1>3. /\ state' \in States /\ state' \notin Waiting
      /\ state' # "Success" /\ state # "Success"
  BY <1>1, StatesAre, WaitingStates
<1> QED BY <1>2, <1>3, PageStep DEF Cancel, YiviInv, YiviTypeOK

LEMMA ResultKeeps ==
  ASSUME YiviInv, YiviAssumption, NEW k \in Tokens, ResultSettles(k)
  PROVE  YiviInv'
<1>1. CASE ResultFails(k)
  BY <1>1, FailKeeps DEF ResultFails, YiviInv, YiviTypeOK
<1>2. CASE ResultAnswered(k)
  <2>1. /\ state' = IF state = "PreparingResult" THEN "Success" ELSE state
        /\ resolved' = IF state = "PreparingResult" THEN k ELSE NULL
        /\ resolved = NULL /\ results' = results \ {k}
        /\ UNCHANGED <<sessionToken, watched, listener, offered, irma, start, pairing, cancel>>
    BY <1>2, ResultTable DEF ResultAnswered, Runs, Select, serverVars, YiviInv, YiviTypeOK
  <2>2. state' \in Waiting <=> state \in Waiting
    BY <2>1, WaitingStates
  <2>3. Fit(listener', watched', state', start')
    BY <2>1, <2>2, FitMoves DEF YiviInv
  <2>4. YiviTypeOK'
    BY <2>1, StatesAre DEF YiviInv, YiviTypeOK
  <2>5. \A j \in Tokens : SessionKnown(j)'
    BY <2>1 DEF YiviInv, SessionKnown
  <2> QED BY <2>1, <2>2, <2>3, <2>4, <2>5, YiviAssumption DEF YiviInv
<1> QED BY <1>1, <1>2 DEF ResultSettles

\* What the server, the wallet and time do to a session the server knows of.
LEMMA ServerStep ==
  ASSUME YiviInv, NEW k \in Tokens, irma[k] # "none",
         NEW status \in Statuses, irma' = [irma EXCEPT ![k] = status],
         status \in {"PAIRING", "CONNECTED", "DONE"} => k \in offered,
         state' \in States, state' \in Waiting <=> state \in Waiting,
         state' = "Success" <=> state = "Success",
         pairing' \in PairingState, cancel' \in [Tokens -> {"no", "asked", "over"}],
         UNCHANGED <<sessionToken, watched, listener, resolved, offered, start, results>>
  PROVE  YiviInv'
<1>1. Fit(listener', watched', state', start')
  BY FitMoves DEF YiviInv
<1>2. YiviTypeOK'
  BY DEF YiviInv, YiviTypeOK
<1>3. \A j \in Tokens : SessionKnown(j)'
  <2> SUFFICES ASSUME NEW j \in Tokens PROVE SessionKnown(j)'
    OBVIOUS
  <2>1. SessionKnown(j) /\ SessionKnown(k)
    BY DEF YiviInv
  <2>2. status # "none"
    BY DEF Statuses, Pending, Final
  <2>3. irma'[j] = IF j = k THEN status ELSE irma[j]
    BY DEF YiviInv, YiviTypeOK
  <2> QED BY <2>1, <2>2, <2>3 DEF SessionKnown
<1> QED BY <1>1, <1>2, <1>3 DEF YiviInv

LEMMA CompletingKeeps ==
  ASSUME YiviInv, NEW k \in Tokens, CompletingSettles(k)
  PROVE  YiviInv'
<1> USE DEF YiviInv, YiviTypeOK
<1>1. pairing' \in PairingState
  BY DEF CompletingSettles, PairingCompleted, CompletingFails, Completed, PairingState
<1>2. CASE CompletingFails(k)
  BY <1>1, <1>2, FailKeeps DEF CompletingFails
<1>3. CASE PairingCompleted(k)
  <2>1. /\ state' \in States /\ (state' \in Waiting <=> state \in Waiting)
        /\ state' = "Success" <=> state = "Success"
    BY <1>3, ConnectTable, WaitingStates DEF PairingCompleted
  <2>2. CASE irma[k] = "PAIRING"
    BY <1>1, <1>3, <2>1, <2>2, ServerStep
    DEF PairingCompleted, Statuses, Pending, SessionKnown
  <2>3. CASE irma[k] # "PAIRING"
    BY <1>1, <1>3, <2>1, <2>3, MoveKeeps DEF PairingCompleted, serverVars
  <2> QED BY <2>2, <2>3
<1> QED BY <1>2, <1>3 DEF CompletingSettles

LEMMA IrmaKeeps ==
  ASSUME YiviInv, NEW k \in Tokens,
         SessionCreated(k) \/ WalletConnects(k) \/ IrmaSettles(k) \/ CancelArrives(k)
  PROVE  YiviInv'
<1> USE DEF YiviInv, YiviTypeOK
<1>1. CASE SessionCreated(k)
  <2>1. /\ start[k] = "asked" /\ start' = [start EXCEPT ![k] = "created"]
        /\ irma' = [irma EXCEPT ![k] = "INITIALIZED"]
        /\ UNCHANGED <<state, sessionToken, watched, listener, resolved, offered,
                       pairing, results, cancel>>
    BY <1>1 DEF SessionCreated, pageVars
  <2>2. Fit(listener', watched', state', start')
    BY <2>1 DEF Fit
  <2>3. YiviTypeOK'
    BY <2>1 DEF Statuses, Pending
  <2>4. \A j \in Tokens : SessionKnown(j)'
    BY <2>1 DEF SessionKnown
  <2>5. watched # NULL => start'[watched] = "answered"
    BY <2>1
  <2> HIDE DEF YiviTypeOK
  <2> QED BY <2>1, <2>2, <2>3, <2>4, <2>5
<1>2. ASSUME NEW status \in Statuses, irma[k] # "none",
             status \in {"PAIRING", "CONNECTED", "DONE"} => k \in offered,
             Moves(k, status), cancel' \in [Tokens -> {"no", "asked", "over"}]
      PROVE  YiviInv'
  <2>1. /\ irma' = [irma EXCEPT ![k] = status]
        /\ UNCHANGED <<state, sessionToken, watched, listener, resolved, offered,
                       start, pairing, results>>
    BY <1>2 DEF Moves, pageVars
  <2> QED BY <1>2, <2>1, ServerStep
<1>3. CASE WalletConnects(k)
  BY <1>2, <1>3 DEF WalletConnects, Statuses, Pending
<1>4. CASE WalletDiscloses(k)
  BY <1>2, <1>4 DEF WalletDiscloses, Statuses, Final, SessionKnown
<1>5. CASE EndsUnfinished(k)
  BY <1>2, <1>5 DEF EndsUnfinished, Statuses, Final, Pending
<1>6. CASE CancelArrives(k)
  <2>1. cancel' \in [Tokens -> {"no", "asked", "over"}]
    BY <1>6 DEF CancelArrives
  <2>2. CASE irma[k] \in Pending /\ Moves(k, "CANCELLED")
    BY <1>2, <2>1, <2>2 DEF Statuses, Final, Pending
  <2>3. CASE UNCHANGED <<pageVars, serverVars, pairing, results>>
    BY <2>1, <2>3, PageStep DEF pageVars, serverVars
  <2> QED BY <1>6, <2>2, <2>3 DEF CancelArrives
<1> QED BY <1>1, <1>3, <1>4, <1>5, <1>6 DEF IrmaSettles

LEMMA InvNext == YiviAssumption /\ YiviInv /\ [YiviNext]_yiviVars => YiviInv'
<1> SUFFICES ASSUME YiviAssumption, YiviInv, [YiviNext]_yiviVars
             PROVE  YiviInv'
  OBVIOUS
<1>1. CASE Initialize \/ Restart
  BY <1>1, LoadingKeeps
<1>2. CASE CheckUserAgent
  BY <1>2, CheckUserAgentKeeps
<1>3. CASE ChooseQR
  BY <1>3, ChooseQRKeeps
<1>4. CASE Cancel
  BY <1>4, CancelKeeps
<1>5. CASE PairingRejected \/ \E right \in BOOLEAN : CodeEntered(right)
  BY <1>5, CodeKeeps
<1>6. CASE \E qr \in BOOLEAN : OptionsSettle(qr)
  BY <1>6, OptionsSettleKeeps
<1>7. ASSUME NEW k \in Tokens, StartSettles(k)
      PROVE  YiviInv'
  BY <1>7, StartAnsweredKeeps, StartFailsKeeps DEF StartSettles
<1>8. ASSUME NEW k \in Tokens, CompletingSettles(k) \/ ResultSettles(k)
      PROVE  YiviInv'
  BY <1>8, CompletingKeeps, ResultKeeps
<1>9. ASSUME NEW k \in Tokens, PollSettles(k) \/ PollInterval(k)
      PROVE  YiviInv'
  BY <1>9, PollKeeps DEF PollSettles
<1>10. ASSUME NEW k \in Tokens,
              SessionCreated(k) \/ WalletConnects(k) \/ IrmaSettles(k) \/ CancelArrives(k)
       PROVE  YiviInv'
  BY <1>10, IrmaKeeps
<1>11. ASSUME NEW k \in Tokens, NEW i \in Slots,
              SourceOpens(k, i) \/ SourceTells(k, i) \/ SourceFails(k, i) \/ ConnectTimer(k, i)
       PROVE  YiviInv'
  BY <1>11, SourceKeeps
<1>12. CASE UNCHANGED yiviVars
  BY <1>12, MoveKeeps DEF yiviVars, pageVars, serverVars, YiviInv, YiviTypeOK
<1> QED BY <1>1, <1>2, <1>3, <1>4, <1>5, <1>6, <1>7, <1>8, <1>9, <1>10, <1>11, <1>12
        DEF YiviNext

LEMMA InvHolds == YiviSpec => []YiviInv
BY InvInit, InvNext, YiviAssumption, PTL DEF YiviSpec

-----------------------------------------------------------------------------
(***************************************************************************)
(* Whatever the sessions, devices and pairing: the page is well typed, and *)
(* listens only to the session that it shows.                              *)
(***************************************************************************)
THEOREM YiviTypeCorrect == YiviSpec => []YiviTypeOK
BY InvHolds, PTL DEF YiviInv

THEOREM OneListener == YiviSpec => []OneListenerRuns
<1>1. YiviInv => OneListenerRuns
  BY DEF YiviInv, Fit, OneListenerRuns
<1> QED BY <1>1, InvHolds, PTL

-----------------------------------------------------------------------------
(***************************************************************************)
(* Every step of the page is a step of PageContract, or none.              *)
(***************************************************************************)
LEMMA PhaseTable ==
  ASSUME NEW s \in States, s = state
  PROVE  /\ s \in Offering \cup Following => Phase = "offering"
         /\ s \in {"Uninitialized", "Loading", "CheckingUserAgent"} \cup Preparing =>
              Phase = "starting"
         /\ s = "PreparingResult" => Phase = "posting"
         /\ s \in Stopped => Phase = "stopped"
         /\ s = "Success" => Phase = "left"
BY DEF Phase, Offering, Following, Preparing, Stopped

LEMMA PhaseTableAfter ==
  ASSUME NEW s \in States, s = state'
  PROVE  /\ s \in Offering \cup Following => Phase' = "offering"
         /\ s \in {"Uninitialized", "Loading", "CheckingUserAgent"} \cup Preparing =>
              Phase' = "starting"
         /\ s = "PreparingResult" => Phase' = "posting"
         /\ s \in Stopped => Phase' = "stopped"
         /\ s = "Success" => Phase' = "left"
BY DEF Phase, Offering, Following, Preparing, Stopped

Promised == [Promise!ContractNext]_(Promise!pageContractVars)

\* Nothing happens, a wait goes on, or the page stops.
LEMMA MovesPromised ==
  ASSUME state \in States, state' \in States,
         UNCHANGED <<offered, Done, resolved, results>>,
         \/ state' = state
         \/ state \in Offering \cup Following /\ state' \in Following \cup Stopped
         \/ state' = "Error" /\ state \notin {"Success"} \cup Stopped
  PROVE  Promised
<1>1. CASE state' = state
  <2>1. Phase' = Phase
    BY <1>1 DEF Phase
  <2> QED BY <2>1 DEF Promised, Promise!pageContractVars
<1>2. CASE state \in Offering \cup Following /\ state' \in Following
  <2>1. Phase = "offering" /\ Phase' = "offering"
    BY <1>2, PhaseTable, PhaseTableAfter
  <2> QED BY <2>1 DEF Promised, Promise!pageContractVars
<1>3. ASSUME state \notin {"Success"} \cup Stopped, state' \in Stopped
      PROVE  Promised
  <2>1. Phase \in {"starting", "offering", "posting"} /\ Phase' = "stopped"
    BY <1>3, PhaseTable, PhaseTableAfter, StatesAre
    DEF Offering, Following, Preparing, Stopped
  <2>2. Promise!Stop
    BY <2>1 DEF Promise!Stop, Promise!Stops
  <2> QED BY <2>2 DEF Promised, Promise!ContractNext
<1> QED BY <1>1, <1>2, <1>3 DEF Offering, Following, Stopped

\* A session is offered, or the page prepares to offer it.
LEMMA OfferPromised ==
  ASSUME state \in States, state' \in States, NEW k \in Tokens,
         UNCHANGED <<Done, resolved, results>>,
         state \in {"Loading"} \cup Preparing \cup Offering,
         \/ state' \in Offering /\ offered' = offered \cup {k}
         \/ state' \in Preparing /\ offered' = offered
  PROVE  Promised
<1>1. Phase \in {"starting", "offering"}
  BY PhaseTable
<1>2. CASE state' \in Offering /\ offered' = offered \cup {k}
  <2>1. Promise!Offer(k)
    BY <1>1, <1>2, PhaseTableAfter DEF Promise!Offer
  <2> QED BY <2>1 DEF Promised, Promise!ContractNext
<1>3. CASE state' \in Preparing /\ offered' = offered
  <2>1. Phase' = "starting"
    BY <1>3, PhaseTableAfter
  <2>2. CASE Phase = "starting"
    BY <1>3, <2>1, <2>2 DEF Promised, Promise!pageContractVars
  <2>3. CASE Phase = "offering"
    <3>1. Promise!Withdraw
      BY <1>3, <2>1, <2>3 DEF Promise!Withdraw
    <3> QED BY <3>1 DEF Promised, Promise!ContractNext
  <2> QED BY <1>1, <2>2, <2>3
<1> QED BY <1>2, <1>3

LEMMA FailPromised ==
  ASSUME YiviInv, YiviInv', NEW ls, Fit(ls, watched, state, start), Fail(ls),
         UNCHANGED <<offered, Done, resolved, results>>
  PROVE  Promised
BY FailFits, MovesPromised DEF YiviInv, YiviTypeOK

LEMMA LoadingPromised ==
  ASSUME YiviInv, YiviInv', Initialize \/ Restart
  PROVE  Promised
<1>1. state' = "Loading" /\ UNCHANGED <<offered, irma, resolved, results>>
  BY DEF Initialize, Restart, EnterLoading
<1>2. Phase' = "starting" /\ Done' = Done
  BY <1>1, PhaseTableAfter DEF YiviInv, YiviTypeOK, Done
<1>3. CASE Initialize
  <2>1. Phase = "starting"
    BY <1>3, PhaseTable, StatesAre DEF Initialize
  <2> QED BY <1>1, <1>2, <2>1 DEF Promised, Promise!pageContractVars
<1>4. CASE Restart
  <2>1. Phase = "stopped"
    BY <1>4, PhaseTable, UserTable DEF Restart, YiviInv, YiviTypeOK
  <2>2. Promise!Retry
    BY <1>1, <1>2, <2>1 DEF Promise!Retry
  <2> QED BY <2>2 DEF Promised, Promise!ContractNext
<1> QED BY <1>3, <1>4

LEMMA StartPromised ==
  ASSUME YiviInv, YiviInv', YiviAssumption, NEW k \in Tokens, StartSettles(k)
  PROVE  Promised
<1> USE DEF YiviInv, YiviTypeOK
<1>1. CASE StartFails(k)
  BY <1>1, FailPromised DEF StartFails, Done
<1>2. CASE StartAnswered(k) /\ state # "Loading"
  <2>1. UNCHANGED <<state, offered, irma, resolved, results>>
    BY <1>2 DEF StartAnswered
  <2> QED BY <2>1, MovesPromised DEF Done
<1>3. CASE StartAnswered(k) /\ state = "Loading"
  <2>1. DetermineFlow([listener EXCEPT ![k] = NewListener], k, FALSE)
    BY <1>3 DEF StartAnswered
  <2>2. \/ state' \in Offering /\ offered' = offered \cup {k}
        \/ state' \in Preparing /\ offered' = offered
    BY <2>1 DEF DetermineFlow, Prepare, Show, Offering, Preparing
  <2> QED BY <1>3, <2>2, OfferPromised DEF StartAnswered, Done
<1> QED BY <1>1, <1>2, <1>3 DEF StartSettles

\* What the page reports to itself: only of a session that is done does it post.
LEMMA ReportPromised ==
  ASSUME YiviInv, YiviInv', NEW k \in Tokens, start[k] = "answered",
         NEW l \in Listener, l.isRunning = listener[k].isRunning, irma[k] \in Statuses,
         ServerStateChange(Becomes(k, l), irma[k]), UnchangedByListening
  PROVE  Promised
<1>1. Fit(Becomes(k, l), watched, state, start)
  BY BecomesFits
<1>2. \/ state' = state /\ UNCHANGED results
      \/ /\ state \in Offering \cup Following /\ state' \in Following \cup Stopped
         /\ UNCHANGED results
      \/ /\ state \in Offering \cup Following
         /\ state' = "PreparingResult" /\ irma[k] = "DONE"
         /\ sessionToken \in Tokens /\ results' = results \cup {sessionToken}
  BY <1>1, ServerStateChangeFits
<1>3. UNCHANGED <<offered, Done, resolved>>
  BY DEF UnchangedByListening, serverVars, Done
<1>4. CASE /\ state \in Offering \cup Following
           /\ state' = "PreparingResult" /\ irma[k] = "DONE"
           /\ sessionToken \in Tokens /\ results' = results \cup {sessionToken}
  <2>1. Phase = "offering" /\ Phase' = "posting"
    BY <1>4, PhaseTable, PhaseTableAfter DEF YiviInv, YiviTypeOK
  <2>2. k \in Done
    BY <1>4 DEF Done
  <2>3. Promise!Post(sessionToken)
    BY <1>3, <1>4, <2>1, <2>2 DEF Promise!Post
  <2> QED BY <1>4, <2>3 DEF Promised, Promise!ContractNext
<1> QED BY <1>2, <1>3, <1>4, MovesPromised DEF YiviInv, YiviTypeOK

LEMMA ListensPromised ==
  ASSUME YiviInv, YiviInv', NEW k \in Tokens, NEW l, Listens(k, l)
  PROVE  Promised
BY MovesPromised DEF Listens, UnchangedByListening, serverVars, Done, YiviInv, YiviTypeOK

LEMMA SourcePromised ==
  ASSUME YiviInv, YiviInv', NEW k \in Tokens, NEW i \in Slots,
         SourceOpens(k, i) \/ SourceTells(k, i) \/ SourceFails(k, i) \/ ConnectTimer(k, i)
  PROVE  Promised
<1>1. CASE SourceTells(k, i)
  <2>1. start[k] = "answered" /\ irma[k] \in Statuses /\ listener[k] \in Listener
    BY <1>1, ListenedTo DEF SourceTells, NewListener, Unused
  <2> QED BY <1>1, <2>1, SourceToldType, ReportPromised DEF SourceTells
<1>2. CASE SourceOpens(k, i) \/ SourceFails(k, i) \/ ConnectTimer(k, i)
  BY <1>2, ListensPromised DEF SourceOpens, SourceFails, ConnectTimer
<1> QED BY <1>1, <1>2

LEMMA PollPromised ==
  ASSUME YiviInv, YiviInv', NEW k \in Tokens,
         PollAnswers(k) \/ PollFails(k) \/ PollInterval(k)
  PROVE  Promised
<1>1. listener[k] # NewListener
  BY DEF PollAnswers, PollFails, PollInterval, NewListener
<1>2. start[k] = "answered" /\ irma[k] \in Statuses /\ listener[k] \in Listener
  BY <1>1, ListenedTo
<1>3. CASE PollAnswers(k)
  BY <1>2, <1>3, PollType, ReportPromised, ListensPromised DEF PollAnswers
<1>4. CASE PollFails(k)
  <2>1. CASE Listens(k, PollFailed(listener[k]))
    BY <2>1, ListensPromised
  <2>2. CASE /\ Fail(Becomes(k, PollFailed(listener[k])))
             /\ UNCHANGED results /\ UnchangedByListening
    <3>1. Fit(Becomes(k, PollFailed(listener[k])), watched, state, start)
      BY <1>2, PollType, BecomesFits
    <3> QED BY <2>2, <3>1, FailPromised DEF UnchangedByListening, serverVars, Done
  <2> QED BY <1>4, <2>1, <2>2 DEF PollFails
<1>5. CASE PollInterval(k)
  BY <1>5, ListensPromised DEF PollInterval
<1> QED BY <1>3, <1>4, <1>5

LEMMA UserPromised ==
  ASSUME YiviInv, YiviInv', YiviAssumption,
         \/ CheckUserAgent \/ ChooseQR \/ Cancel \/ PairingRejected
         \/ \E right \in BOOLEAN : CodeEntered(right)
  PROVE  Promised
<1> USE DEF YiviInv, YiviTypeOK
<1>1. CASE CheckUserAgent
  <2>1. state \in Offering /\ watched \in Tokens
    BY <1>1, UserTable, WaitingStates DEF CheckUserAgent
  <2>2. UNCHANGED <<Done, resolved, results>>
    BY <1>1 DEF CheckUserAgent, serverVars, Done
  <2>3. \/ state' \in Offering /\ offered' = offered \cup {watched}
        \/ state' \in Preparing /\ offered' = offered
    BY <1>1 DEF CheckUserAgent, DetermineFlow, Prepare, Show, Offering, Preparing
  <2> QED BY <2>1, <2>2, <2>3, OfferPromised
<1>2. CASE ChooseQR
  <2>1. state \in Offering /\ watched \in Tokens
    BY <1>2, UserTable, WaitingStates DEF ChooseQR, Offering
  <2>2. UNCHANGED <<Done, resolved, results>>
    BY <1>2 DEF ChooseQR, serverVars, Done
  <2>3. \/ state' \in Offering /\ offered' = offered \cup {watched}
        \/ state' \in Preparing /\ offered' = offered
    BY <1>2 DEF ChooseQR, Prepare, Show, Offering, Preparing
  <2> QED BY <2>1, <2>2, <2>3, OfferPromised
<1>3. CASE Cancel
  BY <1>3, EndTable, MovesPromised DEF Cancel, serverVars, Done, Stopped
<1>4. CASE PairingRejected
  BY <1>4, PairingTable, MovesPromised DEF PairingRejected, serverVars, Done, Following
<1>5. ASSUME NEW right \in BOOLEAN, CodeEntered(right) PROVE Promised
  BY <1>5, PairingTable, MovesPromised DEF CodeEntered, serverVars, Done, Following
<1> QED BY <1>1, <1>2, <1>3, <1>4, <1>5

LEMMA OptionsPromised ==
  ASSUME YiviInv, YiviInv', NEW qr \in BOOLEAN, OptionsSettle(qr)
  PROVE  Promised
<1> USE DEF YiviInv, YiviTypeOK
<1> DEFINE show == IF qr THEN "showQRCode" ELSE "showYiviButton"
<1>0. CASE OptionsFail(qr)
  BY <1>0, FailPromised DEF OptionsFail, serverVars, Done
<1>1. CASE OptionsUpdated(qr)
  <2>1. UNCHANGED <<Done, resolved, results>>
    BY <1>1 DEF OptionsUpdated, serverVars, Done
  <2>2. CASE Valid(show, state) /\ Show(listener, watched, qr)
    <3>1. state \in Preparing /\ watched \in Tokens
      BY <2>2, UserTable, WaitingStates DEF Preparing
    <3>2. state' \in Offering /\ offered' = offered \cup {watched}
      BY <2>2 DEF Show, Offering
    <3> QED BY <2>1, <3>1, <3>2, OfferPromised
  <2>3. CASE UNCHANGED <<state, listener, offered>>
    BY <2>1, <2>3, MovesPromised
  <2> QED BY <1>1, <2>2, <2>3 DEF OptionsUpdated
<1> QED BY <1>0, <1>1 DEF OptionsSettle

\* Confirming a code moves a session, but not one that is done.
LEMMA CompletingPromised ==
  ASSUME YiviInv, YiviInv', NEW k \in Tokens, CompletingSettles(k)
  PROVE  Promised
<1> USE DEF YiviInv, YiviTypeOK
<1>1. CASE CompletingFails(k)
  BY <1>1, FailPromised DEF CompletingFails, serverVars, Done
<1>2. CASE PairingCompleted(k)
  <2>1. UNCHANGED <<Done, offered, resolved, results>>
    BY <1>2 DEF PairingCompleted, Done
  <2>2. \/ state' = state
        \/ state \in Offering \cup Following /\ state' \in Following
    BY <1>2, ConnectTable DEF PairingCompleted, Offering, Following
  <2> QED BY <2>1, <2>2, MovesPromised
<1> QED BY <1>1, <1>2 DEF CompletingSettles

LEMMA ResultPromised ==
  ASSUME YiviInv, YiviInv', NEW k \in Tokens, ResultSettles(k)
  PROVE  Promised
<1> USE DEF YiviInv, YiviTypeOK
<1>1. CASE ResultFails(k)
  <2>1. /\ k \in results /\ results' = results \ {k} /\ Fail(listener)
        /\ UNCHANGED <<Done, offered, resolved>>
    BY <1>1 DEF ResultFails, serverVars, Done
  <2>2. \/ state' = state
        \/ state' = "Error" /\ state \notin {"Uninitialized", "Success"} \cup Stopped
    BY <2>1, FailFits
  <2>3. CASE state' = state
    <3>1. Phase' = Phase
      BY <2>3 DEF Phase
    <3>2. Promise!Drop(k)
      BY <2>1, <3>1 DEF Promise!Drop
    <3> QED BY <3>2 DEF Promised, Promise!ContractNext
  <2>4. ASSUME state' = "Error", state \notin {"Success"} \cup Stopped
        PROVE  Promised
    <3>1. Phase \in {"starting", "offering", "posting"} /\ Phase' = "stopped"
      BY <2>4, PhaseTable, PhaseTableAfter, StatesAre
      DEF Offering, Following, Preparing, Stopped
    <3>2. Promise!Drop(k)
      BY <2>1, <3>1 DEF Promise!Drop, Promise!Stops
    <3> QED BY <3>2 DEF Promised, Promise!ContractNext
  <2> QED BY <2>2, <2>3, <2>4
<1>2. CASE ResultAnswered(k)
  <2>1. /\ state' = IF state = "PreparingResult" THEN "Success" ELSE state
        /\ resolved' = IF state = "PreparingResult" THEN k ELSE NULL
        /\ k \in results /\ results' = results \ {k}
        /\ resolved = NULL /\ irma[k] = "DONE" /\ UNCHANGED <<Done, offered>>
    BY <1>2, ResultTable DEF ResultAnswered, Runs, Select, serverVars, Done
  <2>2. CASE state = "PreparingResult"
    <3>1. Phase = "posting" /\ Phase' = "left"
      BY <2>1, <2>2, PhaseTable, PhaseTableAfter
    <3>2. Promise!Finish(k)
      BY <2>1, <2>2, <3>1 DEF Promise!Finish, Done
    <3> QED BY <3>2 DEF Promised, Promise!ContractNext
  <2>3. CASE state # "PreparingResult"
    <3>1. Phase' = Phase
      BY <2>1, <2>3 DEF Phase
    <3>2. Promise!Drop(k)
      BY <2>1, <2>3, <3>1 DEF Promise!Drop
    <3> QED BY <3>2 DEF Promised, Promise!ContractNext
  <2> QED BY <2>2, <2>3
<1> QED BY <1>1, <1>2 DEF ResultSettles

\* The IRMA server and wallets: only what was offered is completed.
LEMMA IrmaPromised ==
  ASSUME YiviInv, YiviInv', NEW k \in Tokens,
         SessionCreated(k) \/ WalletConnects(k) \/ IrmaSettles(k) \/ CancelArrives(k)
  PROVE  Promised
<1> USE DEF YiviInv, YiviTypeOK
<1>1. UNCHANGED <<state, offered, resolved, results>>
  BY DEF SessionCreated, WalletConnects, IrmaSettles, WalletDiscloses, EndsUnfinished,
         CancelArrives, Moves, pageVars
<1>2. CASE WalletDiscloses(k)
  <2>1. k \in offered /\ Done' = Done \cup {k}
    BY <1>2 DEF WalletDiscloses, Moves, Done, SessionKnown
  <2>2. Phase' = Phase
    BY <1>1 DEF Phase
  <2>3. Promise!Complete(k)
    BY <1>1, <2>1, <2>2 DEF Promise!Complete
  <2> QED BY <2>3 DEF Promised, Promise!ContractNext
<1>3. ASSUME NEW status \in Statuses, status # "DONE", irma[k] # "DONE",
             irma' = [irma EXCEPT ![k] = status]
      PROVE  Promised
  <2>1. Done' = Done
    BY <1>3 DEF Done
  <2> QED BY <1>1, <2>1, MovesPromised
<1>4. CASE SessionCreated(k)
  BY <1>3, <1>4 DEF SessionCreated, SessionKnown, Statuses, Pending
<1>5. CASE WalletConnects(k)
  BY <1>3, <1>5 DEF WalletConnects, Moves, Statuses, Pending
<1>6. CASE EndsUnfinished(k)
  BY <1>3, <1>6 DEF EndsUnfinished, Moves, Statuses, Pending, Final
<1>7. CASE CancelArrives(k)
  <2>1. CASE irma[k] \in Pending /\ Moves(k, "CANCELLED")
    BY <1>3, <2>1 DEF Moves, Statuses, Pending, Final
  <2>2. CASE UNCHANGED <<pageVars, serverVars, pairing, results>>
    BY <1>1, <2>2, MovesPromised DEF serverVars, Done
  <2> QED BY <1>7, <2>1, <2>2 DEF CancelArrives
<1> QED BY <1>2, <1>4, <1>5, <1>6, <1>7 DEF IrmaSettles

LEMMA NextPromised ==
  ASSUME YiviAssumption, YiviInv, YiviInv', [YiviNext]_yiviVars
  PROVE  Promised
<1>1. CASE Initialize \/ Restart
  BY <1>1, LoadingPromised
<1>2. CASE \/ CheckUserAgent \/ ChooseQR \/ Cancel \/ PairingRejected
           \/ \E right \in BOOLEAN : CodeEntered(right)
  BY <1>2, UserPromised
<1>3. CASE \E qr \in BOOLEAN : OptionsSettle(qr)
  BY <1>3, OptionsPromised
<1>4. ASSUME NEW k \in Tokens,
             StartSettles(k) \/ CompletingSettles(k) \/ ResultSettles(k)
      PROVE  Promised
  BY <1>4, StartPromised, CompletingPromised, ResultPromised
<1>5. ASSUME NEW k \in Tokens, PollSettles(k) \/ PollInterval(k)
      PROVE  Promised
  BY <1>5, PollPromised DEF PollSettles
<1>6. ASSUME NEW k \in Tokens,
             SessionCreated(k) \/ WalletConnects(k) \/ IrmaSettles(k) \/ CancelArrives(k)
      PROVE  Promised
  BY <1>6, IrmaPromised
<1>7. ASSUME NEW k \in Tokens, NEW i \in Slots,
             SourceOpens(k, i) \/ SourceTells(k, i) \/ SourceFails(k, i) \/ ConnectTimer(k, i)
      PROVE  Promised
  BY <1>7, SourcePromised
<1>8. CASE UNCHANGED yiviVars
  BY <1>8, MovesPromised DEF yiviVars, pageVars, serverVars, Done, YiviInv, YiviTypeOK
<1> QED BY <1>1, <1>2, <1>3, <1>4, <1>5, <1>6, <1>7, <1>8 DEF YiviNext

(***************************************************************************)
(* The page implements PageContract: whatever is late, lost or out of      *)
(* order, it posts only once a session that it has shown is completed, and *)
(* its promise resolves once, with the result of a completed session that  *)
(* it has posted for.                                                      *)
(***************************************************************************)
THEOREM PageKeepsContract == YiviSpec => KeepsPageContract
<1>1. YiviInit => Promise!ContractInit
  BY PhaseTable, StatesAre DEF YiviInit, Promise!ContractInit, Done
<1>2. YiviAssumption /\ YiviInv /\ YiviInv' /\ [YiviNext]_yiviVars
        => [Promise!ContractNext]_(Promise!pageContractVars)
  BY NextPromised DEF Promised
<1> QED BY <1>1, <1>2, InvHolds, YiviAssumption, PTL
        DEF YiviSpec, KeepsPageContract, Promise!Contract
=============================================================================
