----------------------------- MODULE MCHashTable -----------------------------
(***************************************************************************)
(* HashTable for TLC: sizes 5, 11, 23 stand for 13, 31, 61; three of the   *)
(* keys share a bucket at first, and none later.                           *)
(***************************************************************************)
EXTENDS HashTable

SmallPrimes == <<5, 11, 23>>
=============================================================================
