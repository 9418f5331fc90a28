-------------------------- MODULE YiviStateMachine --------------------------
(***************************************************************************)
(* The states of the Yivi page and the transitions between them, as the    *)
(* bundled library (public/js/yivi.js, yivi-core) tables them.  A plugin   *)
(* asks for a transition by selectTransition, whose callback looks whether *)
(* the transition is valid in the state of that moment and does nothing    *)
(* when it is not.                                                         *)
(*                                                                         *)
(* Left out: "abort" and "browserError", for which this page has no caller *)
(* (yivi.html never calls abort() and uses no plugin that detects old      *)
(* browsers).  yivi.html configures a start request, so "restart" is never *)
(* disabled and Cancelled, TimedOut and Error are not final.               *)
(***************************************************************************)
Transitions ==
  [Uninitialized       |-> [initialize |-> "Loading"],
   Loading             |-> [loaded |-> "CheckingUserAgent", fail |-> "Error"],
   CheckingUserAgent   |-> [prepareQRCode |-> "PreparingQRCode",
                            prepareButton |-> "PreparingYiviButton", fail |-> "Error"],
   PreparingQRCode     |-> [showQRCode |-> "ShowingQRCode", fail |-> "Error"],
   PreparingYiviButton |-> [showYiviButton |-> "ShowingYiviButton", fail |-> "Error"],
   ShowingQRCode       |-> [appConnected |-> "ContinueOn2ndDevice",
                            appPairing |-> "EnterPairingCode",
                            checkUserAgent |-> "CheckingUserAgent",
                            cancel |-> "Cancelled", timeout |-> "TimedOut", fail |-> "Error"],
   ShowingYiviButton   |-> [chooseQR |-> "PreparingQRCode",
                            appConnected |-> "ContinueInYiviApp",
                            checkUserAgent |-> "CheckingUserAgent",
                            cancel |-> "Cancelled", timeout |-> "TimedOut", fail |-> "Error"],
   EnterPairingCode    |-> [codeEntered |-> "Pairing",
                            cancel |-> "Cancelled", timeout |-> "TimedOut", fail |-> "Error"],
   Pairing             |-> [pairingRejected |-> "EnterPairingCode",
                            appConnected |-> "ContinueOn2ndDevice",
                            cancel |-> "Cancelled", timeout |-> "TimedOut", fail |-> "Error"],
   ContinueOn2ndDevice |-> [prepareResult |-> "PreparingResult",
                            cancel |-> "Cancelled", timeout |-> "TimedOut", fail |-> "Error"],
   ContinueInYiviApp   |-> [prepareResult |-> "PreparingResult",
                            cancel |-> "Cancelled", timeout |-> "TimedOut", fail |-> "Error"],
   PreparingResult     |-> [succeed |-> "Success", fail |-> "Error"],
   Cancelled           |-> [restart |-> "Loading"],
   TimedOut            |-> [restart |-> "Loading"],
   Error               |-> [restart |-> "Loading"],
   Success             |-> [none \in {} |-> "Success"]]

States == DOMAIN Transitions

\* validTransitions, and the state that one of them leads to.
Valid(transition, from) == transition \in DOMAIN Transitions[from]
After(transition, from) == Transitions[from][transition]

\* What selectTransition makes of a transition that is asked for where valid.
Select(transition, from) ==
  IF Valid(transition, from) THEN After(transition, from) ELSE from

Stopped   == {"Cancelled", "TimedOut", "Error"}
Preparing == {"PreparingQRCode", "PreparingYiviButton"}
Offering  == {"ShowingQRCode", "ShowingYiviButton"}
Following == {"EnterPairingCode", "Pairing", "ContinueOn2ndDevice", "ContinueInYiviApp"}
=============================================================================
