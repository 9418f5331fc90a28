--------------------------- MODULE StatusListener ---------------------------
(***************************************************************************)
(* The listener that yivi.js (StatusListener of yivi-client) keeps on the  *)
(* status of one IRMA session: server-sent events first, polling when they *)
(* fail.  A listener is a record, an operator here is what one of its      *)
(* methods or event handlers makes of it.                                  *)
(*                                                                         *)
(* Every observe() by events opens an EventSource with a connect timer of  *)
(* its own, but only the last source is remembered.  Neither close() nor a *)
(* new source clears the timer of the one before.                          *)
(***************************************************************************)
CONSTANTS
  Slots,   \* EventSources a listener can have at a time
  NULL

Pending  == {"INITIALIZED", "PAIRING", "CONNECTED"}
Final    == {"DONE", "CANCELLED", "TIMEOUT"}
Statuses == Pending \cup Final

\* told: the status of the session that an open source last knew of.
EventSource ==
  [at: {"connecting", "open", "closed"}, timer: BOOLEAN, told: Statuses]

\* poll is "off" when _isPolling is false, otherwise where the loop is:
\* a first or a second attempt under way, the interval, or ended by an error.
Listener ==
  [isRunning: BOOLEAN, polling: BOOLEAN,
   poll: {"off", "asked", "again", "interval", "failed"}, currentStatus: Statuses,
   source: Slots \cup {NULL}, sources: [Slots -> EventSource]]

Unused == [at |-> "closed", timer |-> FALSE, told |-> "INITIALIZED"]
IsFree(source) == source.at = "closed" /\ ~source.timer

NewListener ==
  [isRunning |-> FALSE, polling |-> FALSE, poll |-> "off",
   currentStatus |-> "INITIALIZED", source |-> NULL,
   sources |-> [i \in Slots |-> Unused]]

\* this._source.close()
CloseSource(l) ==
  [l EXCEPT !.sources = [i \in Slots |->
     IF i = l.source
     THEN [l.sources[i] EXCEPT !.at = "closed", !.told = "INITIALIZED"]
     ELSE l.sources[i]]]

\* Mutant: the event source is left open.
CloseWithoutSource(l) == [l EXCEPT !.isRunning = FALSE]

\* close() tells its caller whether the listener was running (l.isRunning).
Close(l) ==
  IF l.isRunning THEN [CloseSource(l) EXCEPT !.isRunning = FALSE] ELSE l

\* A loop that has not noticed a close() yet simply goes on.
StartPolling(l) ==
  IF l.poll # "off" THEN [l EXCEPT !.polling = TRUE]
  ELSE [l EXCEPT !.polling = TRUE, !.currentStatus = "INITIALIZED",
                 !.poll = IF l.isRunning THEN "asked" ELSE "off"]

\* observe(), with slot i for a new source.
Observe(l, i) ==
  IF l.polling THEN StartPolling([l EXCEPT !.isRunning = TRUE])
  ELSE [l EXCEPT !.isRunning = TRUE, !.source = i,
                 !.sources[i] = [at |-> "connecting", timer |-> TRUE,
                                 told |-> "INITIALIZED"]]

\* The "open" event.  Only what changes after it will be told (external).
SourceOpened(l, i, status) ==
  [l EXCEPT !.sources[i] = [at |-> "open", timer |-> FALSE, told |-> status]]

SourceTold(l, i, status) == [l EXCEPT !.sources[i].told = status]

\* Mutant: no polling after an error.
SourceFailedOnly(l, i, at) ==
  CloseSource([l EXCEPT !.sources[i] = [at |-> at, timer |-> FALSE, told |-> "INITIALIZED"]])

\* The "error" event of source i closes the last source, which may be another;
\* an EventSource that is not closed reconnects, unless it was refused (at).
SourceFailed(l, i, at) ==
  StartPolling(CloseSource(
    [l EXCEPT !.sources[i] = [at |-> at, timer |-> FALSE, told |-> "INITIALIZED"]]))

\* Mutant: the connect timer only closes the source.
TimerFiredOnly(l, i) == CloseSource([l EXCEPT !.sources[i].timer = FALSE])

TimerFired(l, i) == StartPolling(CloseSource([l EXCEPT !.sources[i].timer = FALSE]))

\* The loop ends.  (Only a loop reads currentStatus: what is left of it is
\* not kept apart.)
LoopEnds(l, poll) == [l EXCEPT !.poll = poll, !.currentStatus = "INITIALIZED"]

PollAnswered(l, status) ==
  IF l.isRunning THEN [l EXCEPT !.poll = "interval", !.currentStatus = status]
  ELSE LoopEnds(l, "off")

\* A first failure is tried again, a second one ends the loop.
PollFailed(l) ==
  IF l.poll = "asked" THEN [l EXCEPT !.poll = "again"] ELSE LoopEnds(l, "failed")

IntervalOver(l) ==
  IF l.isRunning THEN [l EXCEPT !.poll = "asked"] ELSE LoopEnds(l, "off")
=============================================================================
