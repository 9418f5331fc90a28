------------------------------- MODULE MCYivi -------------------------------
(***************************************************************************)
(* Small instances of the login page for TLC.                              *)
(***************************************************************************)
EXTENDS YiviProperties

CONSTANTS k1, k2, k3, i1

\* A third session is never shown: its start is answered too late, or fails.
MCSlotsOf == [k \in Tokens |-> IF k = k3 THEN {} ELSE Slots]
=============================================================================
