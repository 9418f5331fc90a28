--------------------------- MODULE YiviProperties ---------------------------
(***************************************************************************)
(* What the login page must guarantee (YiviPage, public/js/yivi.js).       *)
(***************************************************************************)
EXTENDS YiviPage

\* Every variable of the page holds what its fields and requests can hold.
YiviTypeOK ==
  /\ state \in States
  /\ start \in [Tokens -> {"no", "asked", "created", "answered", "lost"}]
  /\ sessionToken \in Tokens \cup {NULL}
  /\ watched \in Tokens \cup {NULL}
  /\ listener \in [Tokens -> Listener]
  /\ pairing \in PairingState
  /\ results \in SUBSET Tokens
  /\ cancel \in [Tokens -> {"no", "asked", "over"}]
  /\ resolved \in Tokens \cup {NULL}
  /\ irma \in [Tokens -> Statuses \cup {"none"}]
  /\ offered \in SUBSET Tokens

(***************************************************************************)
(* Only the session that the page shows is listened to: a restart leaves   *)
(* no running listener of an earlier session behind, so a DELETE or a      *)
(* close() by the page is always that of the right one.                    *)
(***************************************************************************)
OneListenerRuns == \A k \in Tokens : listener[k].isRunning => k = watched

(***************************************************************************)
(* The page never shows a session, or waits for it, without listening: an  *)
(* open or connecting event source, or a poll loop that has not ended.     *)
(* (Not so on a phone: see ChooseQR.)                                      *)
(***************************************************************************)
Hears(l) ==
  /\ l.isRunning
  /\ \/ l.poll \in {"asked", "again", "interval"}
     \/ l.source # NULL /\ l.sources[l.source].at # "closed"

WatchesWhileWaiting ==
  state \in Offering \cup Following => Hears(listener[watched])

(***************************************************************************)
(* No IRMA session is left open behind the user's back: one whose start    *)
(* was answered is waited for, is over at the IRMA server, or has been     *)
(* asked to be cancelled -- also one that was answered too late.           *)
(***************************************************************************)
WaitedFor(k) ==
  k = watched /\ state \in Preparing \cup Offering \cup Following \cup {"CheckingUserAgent"}

NoSessionLeftOpen ==
  \A k \in Tokens :
    start[k] = "answered" =>
      WaitedFor(k) \/ irma[k] \in Final \/ cancel[k] # "no"

(***************************************************************************)
(* On a desktop the page asks for the result of the session that a wallet  *)
(* has completed, although it posts for whichever session was answered     *)
(* last -- or for one that was answered too late and never shown, which it *)
(* has asked to be cancelled and of which there is no result to get.       *)
(***************************************************************************)
PostsForCompleted ==
  \A k \in results : irma[k] = "DONE" \/ (k \notin offered /\ cancel[k] # "no")

(***************************************************************************)
(* Wherever it is, and whatever fails, the page ends up where its user can *)
(* try again, or is left with a result.                                    *)
(***************************************************************************)
Settled == state \in Stopped \cup {"Success"}

YiviSettles == ~Settled ~> Settled

-----------------------------------------------------------------------------
(***************************************************************************)
(* YiviPage implements PageContract: however late, twice or out of order   *)
(* its requests are answered, it posts only once a session it has shown is *)
(* completed, and resolves with the result of such a session, which it has *)
(* posted for.                                                             *)
(***************************************************************************)
Phase ==
  CASE state \in Offering \cup Following -> "offering"
    [] state = "PreparingResult" -> "posting"
    [] state \in Stopped -> "stopped"
    [] state = "Success" -> "left"
    [] OTHER -> "starting"

Done == {k \in Tokens : irma[k] = "DONE"}

Promise == INSTANCE PageContract WITH
  phase     <- Phase,
  shown     <- offered,
  completed <- Done,
  posted    <- results,
  result    <- resolved

KeepsPageContract == Promise!Contract
=============================================================================
