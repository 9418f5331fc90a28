--------------------------- MODULE DesktopProofs ---------------------------
(***************************************************************************)
(* The login page on a desktop while the IRMA server asks for no pairing:  *)
(* it never waits without listening and leaves no session open, for every  *)
(* number of sessions and event sources.  (On a phone neither holds: see   *)
(* ChooseQR.)                                                              *)
(***************************************************************************)
EXTENDS YiviProofs

OnDesktop == UserAgents = {"Desktop"} /\ PairingHint = FALSE

(***************************************************************************)
(* The inductive invariant.                                                *)
(***************************************************************************)
\* Only a running listener has a source that is not closed, and only one.
OneSource(l) ==
  \A i \in Slots : l.sources[i].at # "closed" => l.isRunning /\ l.source = i

\* A running listener hears of its session, and goes on doing so.
Attends(l) == l.isRunning => Hears(l) /\ l.poll # "failed"

Sound(l) == OneSource(l) /\ Attends(l)

Shown == {"ShowingQRCode", "ContinueOn2ndDevice"}
Elsewhere == {"Uninitialized", "Loading", "PreparingResult", "Success"} \cup Stopped

\* The IRMA server will end k, or has ended it.
Over(k) == irma[k] \in Final \/ cancel[k] # "no"

Unpaired == [enabled |-> FALSE, calls |-> {}, completing |-> {}]

DesktopInv ==
  /\ YiviInv
  /\ \A k \in Tokens : Sound(listener[k])
  /\ state \in Shown \cup Elsewhere
  /\ state \in Shown => listener[watched].isRunning
  /\ pairing = Unpaired
  /\ \A k \in Tokens : irma[k] # "PAIRING"
  /\ \A k \in Tokens :
       start[k] = "answered" => (k = watched /\ state \in Shown) \/ Over(k)

LEMMA ShownStates ==
  /\ Shown \cup Elsewhere \subseteq States
  /\ Shown \subseteq Offering \cup Following /\ Shown \subseteq Waiting
  /\ Elsewhere \cap (Offering \cup Following) = {} /\ Elsewhere \cap Waiting = {}
  /\ Shown \cap Offering = {"ShowingQRCode"}
  /\ Stopped = {"Cancelled", "TimedOut", "Error"}
BY StatesAre, WaitingStates DEF Shown, Elsewhere, Offering, Following, Stopped

-----------------------------------------------------------------------------
(***************************************************************************)
(* What the operations of a listener make of a sound one.                  *)
(***************************************************************************)
LEMMA IdleSound ==
  ASSUME NEW l, OneSource(l), ~l.isRunning
  PROVE  Sound(l)
BY DEF Sound, Attends

LEMMA NewListenerSound == Sound(NewListener)
BY DEF Sound, OneSource, Attends, NewListener, Unused

\* Once the source it has is closed, none is open.
LEMMA SourcesClosed ==
  ASSUME NEW l \in Listener,
         \A i \in Slots : l.sources[i].at # "closed" => l.source = i
  PROVE  /\ CloseSource(l) \in Listener
         /\ \A i \in Slots : CloseSource(l).sources[i].at = "closed"
         /\ CloseSource(l).isRunning = l.isRunning
         /\ CloseSource(l).poll = l.poll /\ CloseSource(l).polling = l.polling
<1>1. \A i \in Slots : l.sources[i] \in EventSource
  BY DEF Listener
<1>2. \A i \in Slots : CloseSource(l).sources[i].at = "closed"
  BY <1>1 DEF CloseSource, EventSource, Listener
<1> QED BY <1>2, CloseSourceType DEF CloseSource, Listener

LEMMA CloseSound ==
  ASSUME NEW l \in Listener, OneSource(l)
  PROVE  /\ Sound(Close(l)) /\ ~Close(l).isRunning /\ Close(l) \in Listener
         /\ Close(l).poll = l.poll
<1>1. CASE ~l.isRunning
  BY <1>1, IdleSound DEF Close
<1>2. CASE l.isRunning
  <2> DEFINE c == CloseSource(l)
  <2>1. /\ c \in Listener /\ c.poll = l.poll
        /\ \A i \in Slots : c.sources[i].at = "closed"
    BY SourcesClosed DEF OneSource
  <2>2. Close(l) = [c EXCEPT !.isRunning = FALSE]
    BY <1>2 DEF Close
  <2> HIDE DEF c
  <2>3. /\ Close(l).sources = c.sources /\ ~Close(l).isRunning
        /\ Close(l).poll = c.poll
    BY <2>1, <2>2 DEF Listener
  <2>4. OneSource(Close(l))
    BY <2>1, <2>3 DEF OneSource
  <2> QED BY <2>1, <2>3, <2>4, IdleSound, CloseType
<1> QED BY <1>1, <1>2

\* Polling makes up for the sources that are closed.
LEMMA StartPollingSound ==
  ASSUME NEW l \in Listener, \A i \in Slots : l.sources[i].at = "closed",
         l.isRunning => l.poll # "failed"
  PROVE  Sound(StartPolling(l))
<1>1. StartPolling(l).sources = l.sources /\ StartPolling(l).isRunning = l.isRunning
  BY DEF StartPolling, Listener
<1>2. l.isRunning => StartPolling(l).poll \in {"asked", "again", "interval"}
  BY DEF StartPolling, Listener
<1> QED BY <1>1, <1>2 DEF Sound, OneSource, Attends, Hears

LEMMA ObserveSound ==
  ASSUME NEW l \in Listener, NEW i \in Slots, OneSource(l), ~l.isRunning,
         l.poll # "failed", NULL \notin Slots
  PROVE  Sound(Observe(l, i)) /\ Observe(l, i).isRunning
<1>1. CASE l.polling
  <2> DEFINE r == [l EXCEPT !.isRunning = TRUE]
  <2>1. /\ r \in Listener /\ r.poll = l.poll
        /\ \A j \in Slots : r.sources[j].at = "closed"
    BY DEF Listener, OneSource
  <2>2. Observe(l, i) = StartPolling(r)
    BY <1>1 DEF Observe
  <2> HIDE DEF r
  <2> QED BY <2>1, <2>2, StartPollingSound, ObserveType
<1>2. CASE ~l.polling
  <2> DEFINE o == Observe(l, i)
  <2>1. /\ o.isRunning /\ o.source = i /\ o.poll = l.poll
        /\ o.sources = [l.sources EXCEPT ![i] =
                          [at |-> "connecting", timer |-> TRUE, told |-> "INITIALIZED"]]
    BY <1>2 DEF Observe, Listener
  <2>2. \A j \in Slots : o.sources[j].at = IF j = i THEN "connecting" ELSE "closed"
    BY <2>1 DEF Listener, OneSource
  <2> HIDE DEF o
  <2>3. Sound(o)
    BY <2>1, <2>2 DEF Sound, OneSource, Attends, Hears
  <2> QED BY <2>1, <2>3 DEF o
<1> QED BY <1>1, <1>2

LEMMA SourceOpenedSound ==
  ASSUME NEW l \in Listener, NEW i \in Slots, NEW status, Sound(l),
         l.sources[i].at # "closed", NULL \notin Slots
  PROVE  Sound(SourceOpened(l, i, status))
<1> DEFINE o == SourceOpened(l, i, status)
<1>1. /\ o.isRunning = l.isRunning /\ o.source = l.source /\ o.poll = l.poll
      /\ o.sources = [l.sources EXCEPT ![i] =
                        [at |-> "open", timer |-> FALSE, told |-> status]]
  BY DEF SourceOpened, Listener
<1>2. l.isRunning /\ l.source = i
  BY DEF Sound, OneSource
<1>3. \A j \in Slots : o.sources[j].at = IF j = i THEN "open" ELSE "closed"
  BY <1>1, <1>2 DEF Listener, Sound, OneSource
<1> HIDE DEF o
<1>4. Sound(o)
  BY <1>1, <1>2, <1>3 DEF Sound, OneSource, Attends, Hears
<1> QED BY <1>4 DEF o

LEMMA SourceToldSound ==
  ASSUME NEW l \in Listener, NEW i \in Slots, NEW status, Sound(l)
  PROVE  Sound(SourceTold(l, i, status))
<1> DEFINE o == SourceTold(l, i, status)
<1>1. /\ o.isRunning = l.isRunning /\ o.source = l.source /\ o.poll = l.poll
      /\ \A j \in Slots : o.sources[j].at = l.sources[j].at
  BY DEF SourceTold, Listener, EventSource
<1> HIDE DEF o
<1>2. Sound(o)
  BY <1>1, YiviAssumption DEF Sound, OneSource, Attends, Hears, Listener
<1> QED BY <1>2 DEF o

LEMMA SourceFailedSound ==
  ASSUME NEW l \in Listener, NEW i \in Slots, NEW at \in {"connecting", "closed"},
         Sound(l), l.sources[i].at # "closed"
  PROVE  Sound(SourceFailed(l, i, at))
<1> DEFINE source == [at |-> at, timer |-> FALSE, told |-> "INITIALIZED"]
           failed == [l EXCEPT !.sources[i] = source]
<1>1. source \in EventSource
  BY DEF EventSource, Statuses, Pending
<1>2. l.isRunning /\ l.source = i /\ l.poll # "failed"
  BY DEF Sound, OneSource, Attends
<1> HIDE DEF source
<1>3. /\ failed \in Listener /\ failed.isRunning = l.isRunning /\ failed.poll = l.poll
      /\ failed.source = i
      /\ \A j \in Slots : j # i => failed.sources[j] = l.sources[j]
  <2>1. failed \in Listener /\ failed.isRunning = l.isRunning
    BY <1>1, SourceType
  <2>2. failed.poll = l.poll /\ failed.source = l.source
    BY DEF Listener
  <2>3. \A j \in Slots : j # i => failed.sources[j] = l.sources[j]
    BY DEF Listener
  <2> QED BY <1>2, <2>1, <2>2, <2>3
<1>4. \A j \in Slots : failed.sources[j].at # "closed" => failed.source = j
  BY <1>2, <1>3 DEF Sound, OneSource
<1>5. SourceFailed(l, i, at) = StartPolling(CloseSource(failed))
  BY DEF SourceFailed, source
<1> HIDE DEF failed
<1> QED BY <1>2, <1>3, <1>4, <1>5, SourcesClosed, StartPollingSound

LEMMA TimerFiredSound ==
  ASSUME NEW l \in Listener, NEW i \in Slots, Sound(l)
  PROVE  Sound(TimerFired(l, i))
<1> DEFINE source == [l.sources[i] EXCEPT !.timer = FALSE]
           fired  == [l EXCEPT !.sources[i] = source]
<1>1. source \in EventSource /\ source.at = l.sources[i].at
  BY DEF Listener, EventSource
<1>2. [l EXCEPT !.sources[i].timer = FALSE] = fired
  OBVIOUS
<1> HIDE DEF source
<1>3. /\ fired \in Listener /\ fired.isRunning = l.isRunning /\ fired.poll = l.poll
      /\ fired.source = l.source
      /\ \A j \in Slots : fired.sources[j].at = l.sources[j].at
  BY <1>1, SourceType DEF Listener
<1>4. TimerFired(l, i) = StartPolling(CloseSource(fired))
  BY <1>2 DEF TimerFired
<1> HIDE DEF fired
<1>5. \A j \in Slots : fired.sources[j].at # "closed" => fired.source = j
  BY <1>3 DEF Sound, OneSource
<1> QED BY <1>3, <1>4, <1>5, SourcesClosed, StartPollingSound DEF Sound, Attends

\* A loop that fails for good leaves a listener that hears nothing.
LEMMA PollSound ==
  ASSUME NEW l \in Listener, NEW status, Sound(l)
  PROVE  /\ l.poll \in {"asked", "again"} => Sound(PollAnswered(l, status))
         /\ l.poll = "asked" => Sound(PollFailed(l))
         /\ OneSource(PollFailed(l))
         /\ l.poll = "interval" => Sound(IntervalOver(l))
BY DEF PollAnswered, PollFailed, IntervalOver, LoopEnds, Sound, OneSource, Attends, Hears,
       Listener

-----------------------------------------------------------------------------
(***************************************************************************)
(* Every step keeps the invariant.                                         *)
(***************************************************************************)
AllSound(ls) == \A k \in Tokens : Sound(ls[k])

LEMMA DesktopStep ==
  ASSUME DesktopInv, YiviInv', AllSound(listener'),
         state' \in Shown \cup Elsewhere,
         state' \in Shown => state \in Shown /\ listener'[watched].isRunning,
         state \in Shown => state' \in Shown \/ Over(watched)',
         \A k \in Tokens : Over(k) => Over(k)',
         \A k \in Tokens : irma'[k] # "PAIRING",
         \A k \in Tokens : start'[k] = "answered" => start[k] = "answered" \/ Over(k)',
         UNCHANGED <<watched, pairing>>
  PROVE  DesktopInv'
<1>1. ASSUME NEW k \in Tokens, start'[k] = "answered"
      PROVE  (k = watched' /\ state' \in Shown) \/ Over(k)'
  BY <1>1 DEF DesktopInv
<1> QED BY <1>1 DEF DesktopInv, AllSound, Unpaired

\* Nothing that tells of a session's end changes.
LEMMA OverStays ==
  ASSUME UNCHANGED <<irma, cancel>>, NEW k
  PROVE  Over(k)' <=> Over(k)
BY DEF Over

\* What watched is may be closed, whatever its listener hears.
LEMMA ClosedSound ==
  ASSUME YiviInv, NEW ls, Fit(ls, watched, state, start),
         \A k \in Tokens : OneSource(ls[k])
  PROVE  AllSound(WatchedClosed(ls))
<1> SUFFICES ASSUME NEW k \in Tokens
             PROVE  Sound(WatchedClosed(ls)[k])
  BY DEF AllSound
<1>1. ls \in [Tokens -> Listener] /\ (ls[k].isRunning => k = watched)
  BY DEF Fit
<1>2. CASE k = watched
  BY <1>1, <1>2, CloseSound, YiviAssumption DEF WatchedClosed
<1>3. CASE k # watched
  <2>1. WatchedClosed(ls)[k] = ls[k]
    BY <1>1, <1>3 DEF WatchedClosed
  <2> QED BY <1>1, <1>3, <2>1, IdleSound
<1> QED BY <1>2, <1>3

\* A page that fails cancels what it showed.
LEMMA FailSound ==
  ASSUME DesktopInv, NEW ls, Fit(ls, watched, state, start), Fail(ls),
         \A k \in Tokens : OneSource(ls[k]),
         \A k \in Tokens : ls[k].isRunning = listener[k].isRunning
  PROVE  /\ AllSound(listener') /\ state' \in Elsewhere
         /\ state \in Shown => cancel'[watched] # "no"
         /\ \A k \in Tokens : cancel[k] # "no" => cancel'[k] # "no"
<1> USE DEF DesktopInv, YiviInv, YiviTypeOK
<1>1. CASE Valid("fail", state)
  <2>1. state' = "Error" /\ ServerCloseSession(ls)
    BY <1>1, FailTable DEF Fail
  <2>2. AllSound(listener') /\ state' \in Elsewhere
    BY <2>1, ClosedSound, ShownStates DEF ServerCloseSession, Elsewhere
  <2>3. state \in Shown => watched \in Tokens /\ ls[watched].isRunning
    BY ShownStates, WatchedInWaiting
  <2> QED BY <2>1, <2>2, <2>3, YiviAssumption DEF ServerCloseSession
<1>2. CASE ~Valid("fail", state)
  <2>1. /\ listener' = ls /\ UNCHANGED <<state, cancel>>
        /\ state \in {"Uninitialized", "Success"} \cup Stopped
    BY <1>2, FailTable DEF Fail
  <2>2. state \in Elsewhere /\ state \notin Waiting /\ state \notin Shown
    BY <2>1, ShownStates, WaitingStates DEF Elsewhere, Shown
  <2>3. AllSound(listener')
    BY <2>1, <2>2, IdleSound DEF AllSound, Fit
  <2> QED BY <2>1, <2>2, <2>3
<1> QED BY <1>1, <1>2

LEMMA FailDesktop ==
  ASSUME DesktopInv, YiviInv', NEW ls, Fit(ls, watched, state, start), Fail(ls),
         \A k \in Tokens : OneSource(ls[k]),
         \A k \in Tokens : ls[k].isRunning = listener[k].isRunning,
         \A k \in Tokens : start'[k] = "answered" => start[k] = "answered",
         UNCHANGED <<watched, pairing, irma>>
  PROVE  DesktopInv'
<1>1. /\ AllSound(listener') /\ state' \in Elsewhere
      /\ state \in Shown => cancel'[watched] # "no"
      /\ \A k \in Tokens : cancel[k] # "no" => cancel'[k] # "no"
  BY FailSound
<1>2. state' \notin Shown
  BY <1>1 DEF Elsewhere, Shown, Stopped
<1>3. \A k \in Tokens : Over(k) => Over(k)'
  BY <1>1 DEF Over
<1>4. \A k \in Tokens : irma'[k] # "PAIRING"
  BY DEF DesktopInv
<1>5. state \in Shown => Over(watched)'
  BY <1>1 DEF Over
<1> QED BY <1>1, <1>2, <1>3, <1>4, <1>5, DesktopStep

\* The listeners stay as they are, and the page where it is or in Elsewhere.
LEMMA QuietDesktop ==
  ASSUME DesktopInv, YiviInv', UNCHANGED <<watched, pairing, listener>>,
         state' = state \/ (state \in Elsewhere /\ state' \in Elsewhere),
         \A k \in Tokens : Over(k) => Over(k)',
         \A k \in Tokens : irma'[k] # "PAIRING",
         \A k \in Tokens : start'[k] = "answered" => start[k] = "answered" \/ Over(k)'
  PROVE  DesktopInv'
<1>1. Elsewhere \cap Shown = {}
  BY DEF Elsewhere, Shown, Stopped
<1>2. state' \in Shown \cup Elsewhere /\ AllSound(listener')
  BY DEF DesktopInv, AllSound
<1>3. state' \in Shown <=> state \in Shown
  BY <1>1
<1>4. state' \in Shown => listener'[watched].isRunning
  BY <1>3 DEF DesktopInv
<1> QED BY <1>2, <1>3, <1>4, DesktopStep

LEMMA BecomesSound ==
  ASSUME DesktopInv, NEW k \in Tokens, NEW l, Sound(l)
  PROVE  /\ AllSound(Becomes(k, l))
         /\ l.isRunning = listener[k].isRunning =>
              \A j \in Tokens : Becomes(k, l)[j].isRunning = listener[j].isRunning
BY DEF AllSound, Becomes, DesktopInv, YiviInv, YiviTypeOK

LEMMA ListensDesktop ==
  ASSUME DesktopInv, YiviInv', NEW k \in Tokens, NEW l, Sound(l),
         l.isRunning = listener[k].isRunning, Listens(k, l)
  PROVE  DesktopInv'
<1>1. /\ AllSound(listener')
      /\ \A j \in Tokens : listener'[j].isRunning = listener[j].isRunning
  BY BecomesSound DEF Listens
<1>2. UNCHANGED <<state, cancel, watched, irma, start, pairing>>
  BY DEF Listens, UnchangedByListening, serverVars
<1>3. state' \in Shown => listener'[watched].isRunning
  BY <1>1, <1>2, ShownStates, WatchedInWaiting DEF DesktopInv
<1>4. \A j \in Tokens : Over(j) => Over(j)'
  BY <1>2, OverStays
<1> QED BY <1>1, <1>2, <1>3, <1>4, DesktopStep DEF DesktopInv

\* What a running listener reports is about the session that is shown.
LEMMA ReportDesktop ==
  ASSUME DesktopInv, YiviInv', NEW k \in Tokens, start[k] = "answered",
         NEW l \in Listener, Sound(l), l.isRunning, listener[k].isRunning,
         ServerStateChange(Becomes(k, l), irma[k]), UNCHANGED cancel, UnchangedByListening
  PROVE  DesktopInv'
<1> USE DEF DesktopInv, YiviInv, YiviTypeOK
<1> DEFINE ls == Becomes(k, l)
<1>1. k = watched /\ state \in Shown
  BY ShownStates, YiviAssumption DEF Fit
<1>2. AllSound(ls) /\ Fit(ls, watched, state, start) /\ ls[watched].isRunning
  <2>1. ls[watched].isRunning
    BY <1>1 DEF Becomes
  <2> QED BY <2>1, BecomesSound, BecomesFits
<1>3. UNCHANGED <<watched, irma, cancel, start, pairing>>
  BY DEF UnchangedByListening, serverVars
<1>4. \A j \in Tokens : Over(j) => Over(j)'
  BY <1>3, OverStays
<1> HIDE DEF ls
<1>5. ASSUME listener' = ls, state' \in Shown PROVE DesktopInv'
  BY <1>1, <1>2, <1>3, <1>4, <1>5, DesktopStep
<1>6. ASSUME listener' = WatchedClosed(ls), state' \in Elsewhere, irma[k] \in Final
      PROVE  DesktopInv'
  <2>1. AllSound(listener')
    BY <1>2, <1>6, ClosedSound DEF AllSound, Sound
  <2>2. state' \notin Shown
    BY <1>6 DEF Elsewhere, Shown, Stopped
  <2>3. Over(watched)'
    BY <1>1, <1>3, <1>6 DEF Over
  <2> QED BY <1>1, <1>3, <1>4, <1>6, <2>1, <2>2, <2>3, DesktopStep
<1>7. Select("appConnected", state) = "ContinueOn2ndDevice"
  BY <1>1, ConnectTable, ShownStates DEF Select, Valid, Transitions, Shown
<1>8. CASE irma[k] = "CONNECTED"
  <2>1. listener' = ls /\ state' = "ContinueOn2ndDevice"
    BY <1>1, <1>7, <1>8 DEF ServerStateChange, Shown, ls
  <2> QED BY <1>5, <2>1 DEF Shown
<1>9. CASE irma[k] = "DONE"
  <2>1. listener' = WatchedClosed(ls) /\ state' = Select("prepareResult", "ContinueOn2ndDevice")
    BY <1>7, <1>9 DEF ServerStateChange, ls
  <2>2. state' = "PreparingResult"
    BY <2>1, ResultTable, StatesAre DEF Select
  <2> QED BY <1>6, <1>9, <2>1, <2>2 DEF Elsewhere, Final
<1>10. CASE irma[k] = "CANCELLED"
  <2>1. listener' = WatchedClosed(ls) /\ state' = Select("cancel", state)
    BY <1>10 DEF ServerStateChange, Ends, ls
  <2>2. state' = "Cancelled"
    BY <1>1, <2>1, EndTable, ShownStates
  <2> QED BY <1>6, <1>10, <2>1, <2>2 DEF Elsewhere, Final, Stopped
<1>11. CASE irma[k] = "TIMEOUT"
  <2>1. listener' = WatchedClosed(ls) /\ state' = Select("timeout", state)
    BY <1>11 DEF ServerStateChange, Ends, ls
  <2>2. state' = "TimedOut"
    BY <1>1, <2>1, EndTable, ShownStates
  <2> QED BY <1>6, <1>11, <2>1, <2>2 DEF Elsewhere, Final, Stopped
<1> QED BY <1>8, <1>9, <1>10, <1>11 DEF ServerStateChange

LEMMA SourceDesktop ==
  ASSUME DesktopInv, YiviInv', NEW k \in Tokens, NEW i \in Slots,
         SourceOpens(k, i) \/ SourceTells(k, i) \/ SourceFails(k, i) \/ ConnectTimer(k, i)
  PROVE  DesktopInv'
<1>1. listener[k] # NewListener
  BY DEF SourceOpens, SourceTells, SourceFails, ConnectTimer, NewListener, Unused
<1>2. /\ start[k] = "answered" /\ irma[k] \in Statuses /\ listener[k] \in Listener
      /\ Sound(listener[k])
  BY <1>1, ListenedTo DEF DesktopInv
<1>3. CASE SourceOpens(k, i)
  BY <1>2, <1>3, SourceOpenedType, SourceOpenedSound, ListensDesktop, YiviAssumption
  DEF SourceOpens
<1>4. CASE SourceTells(k, i)
  <2>1. listener[k].isRunning
    BY <1>2, <1>4 DEF SourceTells, Sound, OneSource
  <2> QED BY <1>2, <1>4, <2>1, SourceToldType, SourceToldSound, ReportDesktop DEF SourceTells
<1>5. CASE SourceFails(k, i)
  BY <1>2, <1>5, SourceFailedType, SourceFailedSound, ListensDesktop DEF SourceFails
<1>6. CASE ConnectTimer(k, i)
  BY <1>2, <1>6, TimerFiredType, TimerFiredSound, ListensDesktop DEF ConnectTimer
<1> QED BY <1>3, <1>4, <1>5, <1>6

LEMMA PollDesktop ==
  ASSUME DesktopInv, YiviInv', NEW k \in Tokens,
         PollAnswers(k) \/ PollFails(k) \/ PollInterval(k)
  PROVE  DesktopInv'
<1>1. listener[k] # NewListener
  BY DEF PollAnswers, PollFails, PollInterval, NewListener
<1>2. /\ start[k] = "answered" /\ irma[k] \in Statuses /\ listener[k] \in Listener
      /\ Sound(listener[k])
  BY <1>1, ListenedTo DEF DesktopInv
<1>3. CASE PollAnswers(k)
  <2>1. /\ Sound(PollAnswered(listener[k], irma[k]))
        /\ PollAnswered(listener[k], irma[k]) \in Listener
        /\ PollAnswered(listener[k], irma[k]).isRunning = listener[k].isRunning
    BY <1>2, <1>3, PollType, PollSound DEF PollAnswers
  <2> QED BY <1>2, <1>3, <2>1, ListensDesktop, ReportDesktop DEF PollAnswers
<1>4. CASE PollFails(k)
  <2> DEFINE failed == PollFailed(listener[k])
  <2>1. /\ failed \in Listener /\ failed.isRunning = listener[k].isRunning
        /\ OneSource(failed)
        /\ listener[k].poll = "asked" => Sound(failed)
    BY <1>2, PollType, PollSound
  <2> HIDE DEF failed
  <2>2. CASE listener[k].poll = "asked" /\ Listens(k, failed)
    BY <2>1, <2>2, ListensDesktop
  <2>3. CASE Fail(Becomes(k, failed)) /\ UnchangedByListening
    <3>1. Fit(Becomes(k, failed), watched, state, start)
      BY <1>2, <2>1, BecomesFits DEF DesktopInv
    <3>2. \A j \in Tokens : /\ OneSource(Becomes(k, failed)[j])
                            /\ Becomes(k, failed)[j].isRunning = listener[j].isRunning
      BY <2>1 DEF Becomes, DesktopInv, YiviInv, YiviTypeOK, Sound
    <3> QED BY <2>3, <3>1, <3>2, FailDesktop DEF UnchangedByListening, serverVars
  <2> QED BY <1>4, <2>2, <2>3 DEF PollFails, failed
<1>5. CASE PollInterval(k)
  BY <1>2, <1>5, PollType, PollSound, ListensDesktop DEF PollInterval
<1> QED BY <1>3, <1>4, <1>5

LEMMA LoadingDesktop ==
  ASSUME DesktopInv, YiviInv', Initialize \/ Restart
  PROVE  DesktopInv'
<1> USE DEF DesktopInv, YiviInv, YiviTypeOK
<1>1. state \in Elsewhere /\ state' \in Elsewhere
  BY UserTable, ShownStates DEF Initialize, Restart, EnterLoading, Elsewhere
<1>2. PICK k \in Tokens : start' = [start EXCEPT ![k] = "asked"]
  BY DEF Initialize, Restart, EnterLoading
<1>3. UNCHANGED <<watched, pairing, listener, irma, cancel>>
  BY DEF Initialize, Restart
<1>4. \A j \in Tokens : /\ (Over(j) => Over(j)') /\ irma'[j] # "PAIRING"
                        /\ start'[j] = "answered" => start[j] = "answered"
  BY <1>2, <1>3, OverStays
<1> HIDE DEF DesktopInv, YiviInv, YiviTypeOK
<1> QED BY <1>1, <1>3, <1>4, QuietDesktop

\* A desktop shows the QR code at once: there is nothing to tell the server.
LEMMA ShowSound ==
  ASSUME OnDesktop, YiviAssumption, NEW ls \in [Tokens -> Listener], AllSound(ls),
         NEW k \in Tokens, ~ls[k].isRunning, ls[k].poll # "failed",
         pairing = Unpaired, DetermineFlow(ls, k, FALSE)
  PROVE  /\ AllSound(listener') /\ state' = "ShowingQRCode"
         /\ listener'[k].isRunning /\ pairing' = Unpaired
<1>1. Prepare(ls, k, TRUE, FALSE)
  BY DEF DetermineFlow, OnDesktop
<1>2. Show(ls, k, TRUE) /\ pairing' = [pairing EXCEPT !.enabled = FALSE]
  BY <1>1 DEF Prepare, OnDesktop
<1>3. state' = "ShowingQRCode" /\ pairing' = Unpaired
  BY <1>2 DEF Show, Unpaired
<1>4. PICK i \in Slots : listener' = [ls EXCEPT ![k] = Observe(ls[k], i)]
  BY <1>2 DEF Show, YiviAssumption
<1>5. Sound(Observe(ls[k], i)) /\ Observe(ls[k], i).isRunning
  BY ObserveSound DEF AllSound, Sound, YiviAssumption
<1>6. AllSound(listener') /\ listener'[k].isRunning
  BY <1>4, <1>5 DEF AllSound
<1> QED BY <1>3, <1>6

LEMMA StartDesktop ==
  ASSUME OnDesktop, YiviAssumption, DesktopInv, YiviInv', NEW k \in Tokens, StartSettles(k)
  PROVE  DesktopInv'
<1> USE DEF YiviTypeOK
<1>1. CASE StartFails(k)
  <2>1. /\ \A j \in Tokens : start'[j] = "answered" => start[j] = "answered"
        /\ UNCHANGED <<watched, pairing, irma>> /\ Fail(listener)
    BY <1>1 DEF StartFails, DesktopInv, YiviInv
  <2> QED BY <2>1, FailDesktop DEF DesktopInv, YiviInv, Sound
<1>2. CASE StartAnswered(k) /\ state # "Loading"
  <2>1. /\ start' = [start EXCEPT ![k] = "answered"]
        /\ cancel' = [cancel EXCEPT ![k] = "asked"]
        /\ UNCHANGED <<state, watched, listener, pairing, irma>>
    BY <1>2 DEF StartAnswered
  <2>2. \A j \in Tokens : /\ Over(j) => Over(j)'
                          /\ start'[j] = "answered" => start[j] = "answered" \/ Over(j)'
    BY <2>1 DEF Over, DesktopInv, YiviInv
  <2>3. \A j \in Tokens : irma'[j] # "PAIRING"
    BY <2>1 DEF DesktopInv
  <2> HIDE DEF YiviTypeOK
  <2> QED BY <2>1, <2>2, <2>3, QuietDesktop
<1>3. CASE StartAnswered(k) /\ state = "Loading"
  <2> DEFINE ls == [listener EXCEPT ![k] = NewListener]
  <2>1. /\ start' = [start EXCEPT ![k] = "answered"] /\ watched' = k
        /\ UNCHANGED <<cancel, irma>> /\ DetermineFlow(ls, k, FALSE)
    BY <1>3 DEF StartAnswered
  <2>2. /\ ls \in [Tokens -> Listener] /\ AllSound(ls)
        /\ ~ls[k].isRunning /\ ls[k].poll # "failed"
    <3>1. /\ ls \in [Tokens -> Listener] /\ ls[k] = NewListener
          /\ \A j \in Tokens : j # k => ls[j] = listener[j]
      BY NewListenerType DEF DesktopInv, YiviInv
    <3>2. AllSound(ls)
      BY <3>1, NewListenerSound DEF AllSound, DesktopInv
    <3> QED BY <3>1, <3>2, NewListenerType DEF NewListener
  <2> HIDE DEF ls
  <2>3. /\ AllSound(listener') /\ state' = "ShowingQRCode"
        /\ listener'[k].isRunning /\ pairing' = Unpaired
    BY <2>1, <2>2, ShowSound DEF DesktopInv
  <2>4. ASSUME NEW j \in Tokens, j # k, start'[j] = "answered" PROVE Over(j)'
    <3>1. start[j] = "answered" /\ state \notin Shown
      BY <1>3, <2>1, <2>4 DEF Shown, DesktopInv, YiviInv
    <3>2. Over(j)
      BY <3>1 DEF DesktopInv
    <3> QED BY <2>1, <3>2 DEF Over
  <2>5. \A j \in Tokens : irma'[j] # "PAIRING"
    BY <2>1 DEF DesktopInv
  <2>6. state' \in Shown
    BY <2>3 DEF Shown
  <2> QED BY <2>1, <2>3, <2>4, <2>5, <2>6 DEF DesktopInv, AllSound, Unpaired
<1> QED BY <1>1, <1>2, <1>3 DEF StartSettles

\* A resize closes the listener and starts it again.
LEMMA CheckUserAgentDesktop ==
  ASSUME OnDesktop, YiviAssumption, DesktopInv, YiviInv', CheckUserAgent
  PROVE  DesktopInv'
<1> DEFINE ls == [listener EXCEPT ![watched] = Close(@)]
<1>1. state \in Shown /\ watched \in Tokens /\ listener[watched] \in Listener
  BY UserTable, ShownStates, WatchedInWaiting
  DEF CheckUserAgent, DesktopInv, YiviInv, YiviTypeOK
<1>2. /\ Sound(Close(listener[watched])) /\ ~Close(listener[watched]).isRunning
      /\ Close(listener[watched]) \in Listener
      /\ Close(listener[watched]).poll # "failed"
  BY <1>1, CloseSound DEF DesktopInv, Sound, Attends
<1>3. /\ ls \in [Tokens -> Listener] /\ ls[watched] = Close(listener[watched])
      /\ \A j \in Tokens : j # watched => ls[j] = listener[j]
  BY <1>1, <1>2 DEF DesktopInv, YiviInv, YiviTypeOK
<1>4. DetermineFlow(ls, watched, FALSE)
  BY DEF CheckUserAgent, DesktopInv, Unpaired
<1> HIDE DEF ls
<1>5. AllSound(ls)
  BY <1>2, <1>3 DEF AllSound, DesktopInv
<1>6. /\ AllSound(listener') /\ state' = "ShowingQRCode"
      /\ listener'[watched].isRunning /\ pairing' = Unpaired
  BY <1>1, <1>2, <1>3, <1>4, <1>5, ShowSound DEF DesktopInv
<1>7. UNCHANGED <<watched, irma, start, cancel, pairing>>
  BY <1>6 DEF CheckUserAgent, serverVars, DesktopInv
<1>8. \A j \in Tokens : (Over(j) => Over(j)') /\ irma'[j] # "PAIRING"
  BY <1>7, OverStays DEF DesktopInv
<1>9. state' \in Shown
  BY <1>6 DEF Shown
<1> QED BY <1>1, <1>6, <1>7, <1>8, <1>9, DesktopStep

\* What only a phone or pairing leads to.
LEMMA NotOnDesktop ==
  ASSUME DesktopInv
  PROVE  /\ ~ChooseQR /\ ~PairingRejected
         /\ \A right \in BOOLEAN : ~CodeEntered(right)
         /\ \A qr \in BOOLEAN : ~OptionsSettle(qr)
         /\ \A k \in Tokens : ~CompletingSettles(k)
<1>1. state \in States /\ state \notin {"ShowingYiviButton", "EnterPairingCode"}
  BY DEF DesktopInv, YiviInv, YiviTypeOK, Shown, Elsewhere, Stopped
<1>2. ~ChooseQR /\ \A right \in BOOLEAN : ~CodeEntered(right)
  BY <1>1, UserTable, PairingTable DEF ChooseQR, CodeEntered
<1>3. pairing.calls = {} /\ pairing.completing = {}
  BY DEF DesktopInv, Unpaired
<1> QED BY <1>2, <1>3 DEF PairingRejected, OptionsSettle, OptionsUpdated, OptionsFail, Calls,
          CompletingSettles, PairingCompleted, CompletingFails

LEMMA CancelDesktop ==
  ASSUME DesktopInv, YiviInv', Cancel
  PROVE  DesktopInv'
<1> USE DEF DesktopInv, YiviInv, YiviTypeOK
<1>1. state \in Shown /\ state \in Following /\ state' = "Cancelled"
  BY ShownStates, EndTable DEF Cancel
<1>2. watched \in Tokens /\ listener[watched].isRunning
  BY <1>1, ShownStates, WatchedInWaiting
<1>3. /\ listener' = WatchedClosed(listener)
      /\ cancel' = [cancel EXCEPT ![watched] = "asked"]
      /\ UNCHANGED <<watched, start, irma, pairing>>
  BY <1>2, YiviAssumption DEF Cancel, ServerCloseSession, serverVars
<1>4. AllSound(listener')
  BY <1>3, ClosedSound DEF Sound
<1>5. /\ Over(watched)' /\ \A j \in Tokens : Over(j) => Over(j)'
  BY <1>2, <1>3 DEF Over
<1>6. state' \in Elsewhere /\ state' \notin Shown
  BY <1>1 DEF Elsewhere, Shown, Stopped
<1>7. \A j \in Tokens : irma'[j] # "PAIRING"
  BY <1>3
<1> HIDE DEF DesktopInv, YiviInv, YiviTypeOK
<1> QED BY <1>3, <1>4, <1>5, <1>6, <1>7, DesktopStep

LEMMA ResultDesktop ==
  ASSUME DesktopInv, YiviInv', NEW k \in Tokens, ResultSettles(k)
  PROVE  DesktopInv'
<1>1. CASE ResultFails(k)
  BY <1>1, FailDesktop DEF ResultFails, serverVars, DesktopInv, YiviInv, Sound
<1>2. CASE ResultAnswered(k)
  <2>1. UNCHANGED <<watched, pairing, listener, irma, start, cancel>>
    BY <1>2 DEF ResultAnswered, serverVars
  <2>2. state' = state \/ (state \in Elsewhere /\ state' \in Elsewhere)
    BY <1>2, ResultTable DEF ResultAnswered, Select, Elsewhere, DesktopInv, YiviInv, YiviTypeOK
  <2>3. \A j \in Tokens : (Over(j) => Over(j)') /\ irma'[j] # "PAIRING"
    BY <2>1, OverStays DEF DesktopInv
  <2> QED BY <2>1, <2>2, <2>3, QuietDesktop
<1> QED BY <1>1, <1>2 DEF ResultSettles

\* A session that is over stays so.
LEMMA IrmaDesktop ==
  ASSUME OnDesktop, DesktopInv, YiviInv', NEW k \in Tokens,
         SessionCreated(k) \/ WalletConnects(k) \/ IrmaSettles(k) \/ CancelArrives(k)
  PROVE  DesktopInv'
<1> USE DEF YiviTypeOK
<1>1. UNCHANGED <<state, watched, pairing, listener>>
  BY DEF SessionCreated, WalletConnects, IrmaSettles, WalletDiscloses, EndsUnfinished,
         CancelArrives, Moves, pageVars
<1>2. \A j \in Tokens : start'[j] = "answered" => start[j] = "answered"
  BY DEF SessionCreated, WalletConnects, IrmaSettles, WalletDiscloses, EndsUnfinished,
         CancelArrives, Moves, serverVars, DesktopInv, YiviInv
<1>3. \A j \in Tokens : cancel[j] # "no" => cancel'[j] # "no"
  BY DEF SessionCreated, WalletConnects, IrmaSettles, WalletDiscloses, EndsUnfinished,
         CancelArrives, DesktopInv, YiviInv
<1>4. \/ irma' = irma
      \/ /\ irma[k] \notin Final
         /\ \E status \in Statuses \ {"PAIRING"} : irma' = [irma EXCEPT ![k] = status]
  <2>1. CASE SessionCreated(k)
    BY <2>1 DEF SessionCreated, DesktopInv, YiviInv, SessionKnown, Final, Statuses, Pending
  <2>2. CASE WalletConnects(k)
    BY <2>2 DEF WalletConnects, Moves, OnDesktop, Final, Statuses, Pending
  <2>3. CASE WalletDiscloses(k) \/ EndsUnfinished(k)
    BY <2>3 DEF WalletDiscloses, EndsUnfinished, Moves, Final, Statuses, Pending
  <2>4. CASE CancelArrives(k)
    BY <2>4 DEF CancelArrives, Moves, serverVars, Final, Statuses, Pending
  <2> QED BY <2>1, <2>2, <2>3, <2>4 DEF IrmaSettles
<1>5. \A j \in Tokens : Over(j) => Over(j)'
  BY <1>3, <1>4 DEF Over, DesktopInv, YiviInv
<1>6. \A j \in Tokens : irma'[j] # "PAIRING"
  BY <1>4 DEF DesktopInv, YiviInv
<1> HIDE DEF YiviTypeOK
<1> QED BY <1>1, <1>2, <1>5, <1>6, QuietDesktop

LEMMA DesktopInit ==
  ASSUME YiviAssumption, YiviInit
  PROVE  DesktopInv
<1>1. state \in Elsewhere /\ state \notin Shown
  BY DEF YiviInit, Elsewhere, Shown
<1>2. \A k \in Tokens : Sound(listener[k])
  BY NewListenerSound DEF YiviInit
<1> QED BY <1>1, <1>2, InvInit DEF YiviInit, DesktopInv, Unpaired

LEMMA DesktopNext ==
  ASSUME OnDesktop, YiviAssumption, DesktopInv, YiviInv', [YiviNext]_yiviVars
  PROVE  DesktopInv'
<1>1. CASE Initialize \/ Restart
  BY <1>1, LoadingDesktop
<1>2. CASE CheckUserAgent
  BY <1>2, CheckUserAgentDesktop
<1>3. CASE Cancel
  BY <1>3, CancelDesktop
<1>4. ASSUME NEW k \in Tokens, StartSettles(k) \/ ResultSettles(k)
      PROVE  DesktopInv'
  BY <1>4, StartDesktop, ResultDesktop
<1>5. ASSUME NEW k \in Tokens, PollSettles(k) \/ PollInterval(k)
      PROVE  DesktopInv'
  BY <1>5, PollDesktop DEF PollSettles
<1>6. ASSUME NEW k \in Tokens,
             SessionCreated(k) \/ WalletConnects(k) \/ IrmaSettles(k) \/ CancelArrives(k)
      PROVE  DesktopInv'
  BY <1>6, IrmaDesktop
<1>7. ASSUME NEW k \in Tokens, NEW i \in Slots,
             SourceOpens(k, i) \/ SourceTells(k, i) \/ SourceFails(k, i) \/ ConnectTimer(k, i)
      PROVE  DesktopInv'
  BY <1>7, SourceDesktop
<1>8. CASE UNCHANGED yiviVars
  <2>1. UNCHANGED <<state, watched, pairing, listener, irma, start, cancel>>
    BY <1>8 DEF yiviVars, pageVars, serverVars
  <2>2. \A j \in Tokens : (Over(j) => Over(j)') /\ irma'[j] # "PAIRING"
    BY <2>1, OverStays DEF DesktopInv
  <2> QED BY <2>1, <2>2, QuietDesktop
<1> QED BY <1>1, <1>2, <1>3, <1>4, <1>5, <1>6, <1>7, <1>8, NotOnDesktop DEF YiviNext

LEMMA DesktopInvHolds ==
  ASSUME OnDesktop
  PROVE  YiviSpec => []DesktopInv
<1>1. YiviAssumption /\ YiviInit => DesktopInv
  BY DesktopInit
<1>2. YiviAssumption /\ DesktopInv /\ YiviInv' /\ [YiviNext]_yiviVars => DesktopInv'
  BY DesktopNext
<1> QED BY <1>1, <1>2, InvHolds, YiviAssumption, PTL DEF YiviSpec

-----------------------------------------------------------------------------
(***************************************************************************)
(* On a desktop the page never shows a session, or waits for it, without   *)
(* an event source or a poll loop that will tell it of the session's end,  *)
(* whatever fails and however often the window is resized.                 *)
(***************************************************************************)
THEOREM DesktopWatches ==
  ASSUME OnDesktop
  PROVE  YiviSpec => []WatchesWhileWaiting
<1>1. DesktopInv => WatchesWhileWaiting
  <2> SUFFICES ASSUME DesktopInv, state \in Offering \cup Following
               PROVE  Hears(listener[watched])
    BY DEF WatchesWhileWaiting
  <2>1. state \in Shown
    BY ShownStates DEF DesktopInv
  <2>2. watched \in Tokens
    BY <2>1, ShownStates, WatchedInWaiting DEF DesktopInv
  <2> QED BY <2>1, <2>2 DEF DesktopInv, Sound, Attends
<1> QED BY <1>1, DesktopInvHolds, PTL

(***************************************************************************)
(* On a desktop no session whose start was answered is left open: the page *)
(* waits for it, or the IRMA server has ended it or been asked to.         *)
(***************************************************************************)
THEOREM DesktopLeavesNoneOpen ==
  ASSUME OnDesktop
  PROVE  YiviSpec => []NoSessionLeftOpen
<1>1. DesktopInv => NoSessionLeftOpen
  BY ShownStates DEF DesktopInv, NoSessionLeftOpen, WaitedFor, Over
<1> QED BY <1>1, DesktopInvHolds, PTL

-----------------------------------------------------------------------------
(***************************************************************************)
(* The session that is posted for.  Every answered start replaces          *)
(* sessionToken, also one that the page no longer waits for; such a        *)
(* session is never shown, and has been asked to be cancelled.             *)
(***************************************************************************)
TooLate(k) == start[k] = "answered" /\ k \notin offered /\ cancel[k] # "no"

PostInv ==
  /\ \A k \in offered : start[k] = "answered"
  /\ watched # NULL => watched \in offered
  /\ sessionToken # NULL => sessionToken = watched \/ TooLate(sessionToken)
  /\ \A k \in results : irma[k] = "DONE" \/ TooLate(k)

\* A step that shows no other session keeps it, if what it posts for is
\* sessionToken once the session it listens to is done.
LEMMA PostStep ==
  ASSUME YiviAssumption, YiviInv, YiviInv', PostInv,
         UNCHANGED <<offered, watched, sessionToken>>,
         \A k \in Tokens : start[k] = "answered" => start'[k] = "answered",
         \A k \in Tokens : cancel[k] # "no" => cancel'[k] # "no",
         \A k \in Tokens : irma[k] = "DONE" => irma'[k] = "DONE",
         \A k \in results' : k \in results \/ (k = sessionToken /\ irma'[watched] = "DONE")
  PROVE  PostInv'
<1>1. /\ sessionToken # NULL => sessionToken \in Tokens
      /\ offered \subseteq Tokens /\ results' \subseteq Tokens
  BY DEF YiviInv, YiviTypeOK
<1>2. \A k \in Tokens : TooLate(k) => TooLate(k)'
  BY DEF TooLate
<1>3. \A k \in offered' : start'[k] = "answered"
  BY <1>1 DEF PostInv
<1>4. sessionToken' # NULL => sessionToken' = watched' \/ TooLate(sessionToken)'
  BY <1>1, <1>2 DEF PostInv, TooLate
<1>5. ASSUME NEW k \in results' PROVE irma'[k] = "DONE" \/ TooLate(k)'
  <2>1. k \in Tokens
    BY <1>1
  <2>2. CASE k \in results
    BY <1>2, <2>1, <2>2 DEF PostInv
  <2>3. CASE k = sessionToken /\ irma'[watched] = "DONE"
    BY <1>2, <2>1, <2>3, YiviAssumption DEF PostInv
  <2> QED BY <1>5, <2>2, <2>3
<1> QED BY <1>3, <1>4, <1>5 DEF PostInv

\* What fails may cancel a session more, and posts for none.
LEMMA FailPosts ==
  ASSUME YiviAssumption, YiviInv, YiviInv', PostInv, NEW ls, Fail(ls),
         UNCHANGED <<offered, watched, sessionToken, irma>>,
         results' \subseteq results,
         \A k \in Tokens : start[k] = "answered" => start'[k] = "answered"
  PROVE  PostInv'
<1>1. \A k \in Tokens : cancel[k] # "no" => cancel'[k] # "no"
  BY DEF Fail, ServerCloseSession, YiviInv, YiviTypeOK
<1> QED BY <1>1, PostStep

\* A running listener is that of the watched session.
LEMMA ReportPosts ==
  ASSUME YiviAssumption, DesktopInv, YiviInv', PostInv, NEW k \in Tokens, NEW ls,
         listener[k].isRunning, ServerStateChange(ls, irma[k]),
         UNCHANGED cancel, UnchangedByListening
  PROVE  PostInv'
<1>1. k = watched
  BY DEF DesktopInv, YiviInv, Fit
<1>2. UNCHANGED <<offered, watched, sessionToken, irma, start>>
  BY DEF UnchangedByListening, serverVars
<1>3. \A j \in results' : j \in results \/ (j = sessionToken /\ irma[k] = "DONE")
  BY DEF ServerStateChange, Ends
<1> QED BY <1>1, <1>2, <1>3, PostStep DEF DesktopInv

LEMMA ListensPosts ==
  ASSUME YiviAssumption, DesktopInv, YiviInv', PostInv, NEW k \in Tokens, NEW l,
         Listens(k, l)
  PROVE  PostInv'
<1>1. UNCHANGED <<offered, watched, sessionToken, irma, start, cancel, results>>
  BY DEF Listens, UnchangedByListening, serverVars
<1> QED BY <1>1, PostStep DEF DesktopInv

LEMMA ListenersPost ==
  ASSUME YiviAssumption, DesktopInv, YiviInv', PostInv, NEW k \in Tokens,
         \/ PollSettles(k) \/ PollInterval(k)
         \/ \E i \in Slots :
              SourceOpens(k, i) \/ SourceTells(k, i) \/ SourceFails(k, i) \/ ConnectTimer(k, i)
  PROVE  PostInv'
<1>1. CASE \E l : Listens(k, l)
  BY <1>1, ListensPosts
<1>2. CASE PollAnswers(k)
  BY <1>1, <1>2, ReportPosts DEF PollAnswers
<1>3. CASE PollFails(k)
  <2>1. CASE Fail(Becomes(k, PollFailed(listener[k]))) /\ UNCHANGED results
             /\ UnchangedByListening
    <3>1. UNCHANGED <<offered, watched, sessionToken, irma, start>>
      BY <2>1 DEF UnchangedByListening, serverVars
    <3> QED BY <2>1, <3>1, FailPosts DEF DesktopInv
  <2> QED BY <1>1, <1>3, <2>1 DEF PollFails
<1>4. CASE \E i \in Slots : SourceTells(k, i)
  <2> PICK i \in Slots : SourceTells(k, i)
    BY <1>4
  <2>1. listener[k].isRunning
    BY DEF SourceTells, DesktopInv, Sound, OneSource
  <2> QED BY <2>1, ReportPosts DEF SourceTells
<1>5. CASE \E i \in Slots : SourceOpens(k, i) \/ SourceFails(k, i) \/ ConnectTimer(k, i)
  BY <1>1, <1>5 DEF SourceOpens, SourceFails, ConnectTimer
<1>6. CASE PollInterval(k)
  BY <1>1, <1>6 DEF PollInterval
<1> QED BY <1>2, <1>3, <1>4, <1>5, <1>6 DEF PollSettles

\* A desktop shows a session as soon as it is watched.
LEMMA StartPosts ==
  ASSUME OnDesktop, YiviAssumption, DesktopInv, YiviInv', PostInv, NEW k \in Tokens,
         StartSettles(k)
  PROVE  PostInv'
<1> USE DEF YiviTypeOK
<1>1. CASE StartFails(k)
  <2>1. /\ UNCHANGED <<offered, watched, sessionToken, irma, results>> /\ Fail(listener)
        /\ \A j \in Tokens : start[j] = "answered" => start'[j] = "answered"
    BY <1>1 DEF StartFails, DesktopInv, YiviInv
  <2> QED BY <2>1, FailPosts DEF DesktopInv
<1>2. CASE StartAnswered(k)
  <2>1. /\ start[k] = "created" /\ start' = [start EXCEPT ![k] = "answered"]
        /\ sessionToken' = k /\ UNCHANGED <<irma, results>>
    BY <1>2 DEF StartAnswered
  <2>2. CASE state # "Loading"
    <3>1. /\ cancel' = [cancel EXCEPT ![k] = "asked"] /\ UNCHANGED <<watched, offered>>
      BY <1>2, <2>2 DEF StartAnswered
    <3>2. k \notin offered /\ TooLate(k)'
      BY <2>1, <3>1 DEF PostInv, TooLate, DesktopInv, YiviInv
    <3>3. \A j \in Tokens : TooLate(j) => TooLate(j)'
      BY <2>1, <3>1 DEF TooLate, DesktopInv, YiviInv
    <3>4. \A j \in offered' : start'[j] = "answered"
      BY <2>1, <3>1 DEF PostInv, DesktopInv, YiviInv
    <3>5. \A j \in results' : irma'[j] = "DONE" \/ TooLate(j)'
      BY <2>1, <3>3 DEF PostInv, DesktopInv, YiviInv
    <3>6. sessionToken' # NULL => sessionToken' = watched' \/ TooLate(sessionToken)'
      BY <2>1, <3>2 DEF TooLate
    <3> QED BY <3>1, <3>4, <3>5, <3>6 DEF PostInv
  <2>3. CASE state = "Loading"
    <3>1. /\ watched' = k /\ UNCHANGED cancel
          /\ DetermineFlow([listener EXCEPT ![k] = NewListener], k, FALSE)
      BY <1>2, <2>3 DEF StartAnswered
    <3>2. offered' = offered \cup {k}
      BY <3>1 DEF DetermineFlow, Prepare, Show, OnDesktop
    <3>3. \A j \in Tokens : TooLate(j) => TooLate(j)'
      BY <2>1, <3>1, <3>2 DEF TooLate, DesktopInv, YiviInv
    <3>4. \A j \in offered' : start'[j] = "answered"
      BY <2>1, <3>2 DEF PostInv, DesktopInv, YiviInv
    <3>5. \A j \in results' : irma'[j] = "DONE" \/ TooLate(j)'
      BY <2>1, <3>3 DEF PostInv, DesktopInv, YiviInv
    <3> QED BY <2>1, <3>1, <3>2, <3>4, <3>5 DEF PostInv
  <2> QED BY <2>2, <2>3
<1> QED BY <1>1, <1>2 DEF StartSettles

LEMMA UserPosts ==
  ASSUME OnDesktop, YiviAssumption, DesktopInv, YiviInv', PostInv,
         Initialize \/ Restart \/ CheckUserAgent \/ Cancel
  PROVE  PostInv'
<1>1. CASE Initialize \/ Restart
  <2>1. \A k \in Tokens : start[k] = "answered" => start'[k] = "answered"
    BY <1>1 DEF Initialize, Restart, EnterLoading, DesktopInv, YiviInv, YiviTypeOK
  <2>2. UNCHANGED <<offered, watched, sessionToken, irma, cancel, results>>
    BY <1>1 DEF Initialize, Restart
  <2> QED BY <2>1, <2>2, PostStep DEF DesktopInv
<1>2. CASE CheckUserAgent
  <2>1. state \in Shown /\ watched \in Tokens
    BY <1>2, UserTable, ShownStates, WatchedInWaiting
    DEF CheckUserAgent, DesktopInv, YiviInv, YiviTypeOK
  <2>2. offered' = offered \cup {watched}
    BY <1>2 DEF CheckUserAgent, DetermineFlow, Prepare, Show, OnDesktop, DesktopInv, Unpaired
  <2>3. offered' = offered
    BY <2>1, <2>2, YiviAssumption DEF PostInv
  <2>4. UNCHANGED <<watched, sessionToken, irma, start, cancel, results>>
    BY <1>2 DEF CheckUserAgent, serverVars
  <2> QED BY <2>3, <2>4, PostStep DEF DesktopInv
<1>3. CASE Cancel
  <2>1. \A k \in Tokens : cancel[k] # "no" => cancel'[k] # "no"
    BY <1>3 DEF Cancel, ServerCloseSession, DesktopInv, YiviInv, YiviTypeOK
  <2>2. UNCHANGED <<offered, watched, sessionToken, irma, start, results>>
    BY <1>3 DEF Cancel, serverVars
  <2> QED BY <2>1, <2>2, PostStep DEF DesktopInv
<1> QED BY <1>1, <1>2, <1>3

LEMMA ResultPosts ==
  ASSUME YiviAssumption, DesktopInv, YiviInv', PostInv, NEW k \in Tokens, ResultSettles(k)
  PROVE  PostInv'
<1>1. UNCHANGED <<offered, watched, sessionToken, irma, start>> /\ results' \subseteq results
  BY DEF ResultSettles, ResultAnswered, ResultFails, serverVars
<1>2. CASE ResultFails(k)
  BY <1>1, <1>2, FailPosts DEF ResultFails, DesktopInv
<1>3. CASE ResultAnswered(k)
  BY <1>1, <1>3, PostStep DEF ResultAnswered, DesktopInv
<1> QED BY <1>2, <1>3 DEF ResultSettles

\* A session that is done stays so.
LEMMA IrmaPosts ==
  ASSUME YiviAssumption, DesktopInv, YiviInv', PostInv, NEW k \in Tokens,
         SessionCreated(k) \/ WalletConnects(k) \/ IrmaSettles(k) \/ CancelArrives(k)
  PROVE  PostInv'
<1> USE DEF DesktopInv, YiviInv, YiviTypeOK
<1>1. UNCHANGED <<offered, watched, sessionToken, results>>
  BY DEF SessionCreated, WalletConnects, IrmaSettles, WalletDiscloses, EndsUnfinished,
         CancelArrives, Moves, pageVars
<1>2. \A j \in Tokens : /\ start[j] = "answered" => start'[j] = "answered"
                        /\ cancel[j] # "no" => cancel'[j] # "no"
  BY DEF SessionCreated, WalletConnects, IrmaSettles, WalletDiscloses, EndsUnfinished,
         CancelArrives, Moves, serverVars
<1>3. \A j \in Tokens : irma[j] = "DONE" => irma'[j] = "DONE"
  <2>1. CASE SessionCreated(k)
    BY <2>1 DEF SessionCreated, SessionKnown
  <2>2. CASE WalletConnects(k) \/ IrmaSettles(k)
    BY <2>2 DEF WalletConnects, IrmaSettles, WalletDiscloses, EndsUnfinished, Moves, Pending
  <2>3. CASE CancelArrives(k)
    BY <2>3 DEF CancelArrives, Moves, serverVars, Pending
  <2> QED BY <2>1, <2>2, <2>3
<1> HIDE DEF DesktopInv, YiviInv, YiviTypeOK
<1> QED BY <1>1, <1>2, <1>3, PostStep DEF DesktopInv

LEMMA PostNext ==
  ASSUME OnDesktop, YiviAssumption, DesktopInv, YiviInv', PostInv, [YiviNext]_yiviVars
  PROVE  PostInv'
<1>1. CASE Initialize \/ Restart \/ CheckUserAgent \/ Cancel
  BY <1>1, UserPosts
<1>2. ASSUME NEW k \in Tokens, StartSettles(k) \/ ResultSettles(k)
      PROVE  PostInv'
  BY <1>2, StartPosts, ResultPosts
<1>3. ASSUME NEW k \in Tokens,
             \/ PollSettles(k) \/ PollInterval(k)
             \/ \E i \in Slots : SourceOpens(k, i) \/ SourceTells(k, i)
                                 \/ SourceFails(k, i) \/ ConnectTimer(k, i)
      PROVE  PostInv'
  BY <1>3, ListenersPost
<1>4. ASSUME NEW k \in Tokens,
             SessionCreated(k) \/ WalletConnects(k) \/ IrmaSettles(k) \/ CancelArrives(k)
      PROVE  PostInv'
  BY <1>4, IrmaPosts
<1>5. CASE UNCHANGED yiviVars
  <2>1. UNCHANGED <<offered, watched, sessionToken, irma, start, cancel, results>>
    BY <1>5 DEF yiviVars, pageVars, serverVars
  <2> QED BY <2>1, PostStep DEF DesktopInv
<1> QED BY <1>1, <1>2, <1>3, <1>4, <1>5, NotOnDesktop DEF YiviNext

(***************************************************************************)
(* On a desktop the page posts for a session that a wallet has completed,  *)
(* or for one that was answered too late, never shown and asked to be      *)
(* cancelled; for no other, however late its requests are answered and     *)
(* however often it is restarted.                                          *)
(***************************************************************************)
THEOREM DesktopPosts ==
  ASSUME OnDesktop
  PROVE  YiviSpec => []PostsForCompleted
<1>1. YiviInit => PostInv
  BY DEF YiviInit, PostInv
<1>2. YiviAssumption /\ DesktopInv /\ YiviInv' /\ PostInv /\ [YiviNext]_yiviVars => PostInv'
  BY PostNext
<1>3. PostInv => PostsForCompleted
  BY DEF PostInv, TooLate, PostsForCompleted
<1> QED BY <1>1, <1>2, <1>3, InvHolds, DesktopInvHolds, YiviAssumption, PTL DEF YiviSpec
=============================================================================
