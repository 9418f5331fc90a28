---------------------------- MODULE PageContract ----------------------------
(***************************************************************************)
(* What the login page promises the rest of the login flow, whatever its   *)
(* listeners, timers and late answers do: it offers an IRMA session before *)
(* anybody can complete it, it posts for a result only once a session that *)
(* it has offered is completed, and it is left once, with the result of    *)
(* such a session that it has posted for.  These are the steps of          *)
(* LoginFlow's tabs.                                                       *)
(*                                                                         *)
(* The session that is posted for is the last one whose start was answered *)
(* (yivi.html takes _mappings.sessionToken), which need not be one that is *)
(* completed: PostsForCompleted says what it is on a desktop.              *)
(***************************************************************************)
CONSTANTS Tokens, NULL

VARIABLES
  phase,      \* "starting", "offering", "posting", "stopped" or "left"
  shown,      \* the sessions offered so far
  completed,  \* the sessions that wallets have completed
  posted,     \* the sessions whose results are waited for
  result      \* the session whose result the page is left with

pageContractVars == <<phase, shown, completed, posted, result>>

ContractInit ==
  /\ phase = "starting" /\ shown = {} /\ completed = {}
  /\ posted = {} /\ result = NULL

\* A session comes to be offered, also one that was offered before.
Offer(k) ==
  /\ phase \in {"starting", "offering"} /\ phase' = "offering"
  /\ shown' = shown \cup {k}
  /\ UNCHANGED <<completed, posted, result>>

\* The page prepares to offer its session in another way.
Withdraw ==
  /\ phase = "offering" /\ phase' = "starting"
  /\ UNCHANGED <<shown, completed, posted, result>>

Complete(k) ==
  /\ k \in shown /\ completed' = completed \cup {k}
  /\ UNCHANGED <<phase, shown, posted, result>>

Post(k) ==
  /\ phase = "offering" /\ phase' = "posting"
  /\ completed # {} /\ posted' = posted \cup {k}
  /\ UNCHANGED <<shown, completed, result>>

Finish(k) ==
  /\ phase = "posting" /\ phase' = "left"
  /\ k \in posted \cap completed /\ posted' = posted \ {k} /\ result' = k
  /\ UNCHANGED <<shown, completed>>

Stops ==
  phase \in {"starting", "offering", "posting"} /\ phase' = "stopped"

Stop == Stops /\ UNCHANGED <<shown, completed, posted, result>>

\* A result is refused, or answered when the page has moved on.
Drop(k) ==
  /\ k \in posted /\ posted' = posted \ {k}
  /\ Stops \/ UNCHANGED phase
  /\ UNCHANGED <<shown, completed, result>>

Retry ==
  /\ phase = "stopped" /\ phase' = "starting"
  /\ UNCHANGED <<shown, completed, posted, result>>

ContractNext ==
  \/ Withdraw \/ Stop \/ Retry
  \/ \E k \in Tokens : Offer(k) \/ Complete(k) \/ Post(k) \/ Finish(k) \/ Drop(k)

Contract == ContractInit /\ [][ContractNext]_pageContractVars
=============================================================================
