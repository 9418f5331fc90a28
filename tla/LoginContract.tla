--------------------------- MODULE LoginContract ---------------------------
(***************************************************************************)
(* What the service promises about identities, whatever its sessions,      *)
(* tabs, maps and failures do: a browser's relying parties are told only   *)
(* what the wallet of that browser's user has disclosed before, in that    *)
(* browser -- or nothing at all (the empty string, SessionController /     *)
(* IrmaService.endSession when the result has no matching attribute).      *)
(***************************************************************************)
CONSTANTS Browsers, Values, Holds, Empty

VARIABLES
  disclosed,  \* disclosed[b]: what b's user has disclosed so far
  asserted    \* the <<browser, subject>> pairs relying parties were told

contractVars == <<disclosed, asserted>>

ContractInit ==
  /\ disclosed = [b \in Browsers |-> {}]
  /\ asserted = {}

DiscloseTo(b) ==
  /\ \E v \in Holds[b] : disclosed' = [disclosed EXCEPT ![b] = @ \cup {v}]
  /\ UNCHANGED asserted

Assert(b) ==
  /\ \E v \in disclosed[b] \cup {Empty} : asserted' = asserted \cup {<<b, v>>}
  /\ UNCHANGED disclosed

ContractNext == \E b \in Browsers : DiscloseTo(b) \/ Assert(b)

Contract == ContractInit /\ [][ContractNext]_contractVars
=============================================================================
