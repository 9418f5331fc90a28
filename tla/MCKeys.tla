------------------------------- MODULE MCKeys -------------------------------
(***************************************************************************)
(* Small instances of the key configuration for TLC.                       *)
(***************************************************************************)
EXTENDS KeyProperties, TLC

CONSTANTS p1, p2, p3

MCAnySetting == {p1, p2, FileName, Absent}

\* No setting names p3, which only keygen.sh can make.
KeyPairs == Permutations({p1, p2})
=============================================================================
