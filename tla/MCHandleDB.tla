------------------------------ MODULE MCHandleDB ------------------------------
(* Instances of HandleDB for TLC.                                          *)
EXTENDS HandleDB, TLC

HandleSymmetry ==
  Permutations(Players) \cup Permutations(Sessions) \cup Permutations(Words)
    \cup Permutations(Spellings)
===============================================================================
