------------------------------ MODULE MCPlayerDB ------------------------------
(* PlayerDB for TLC: the sessions of a player are interchangeable.         *)
EXTENDS PlayerDB, TLC

SessionSymmetry == Permutations(Sessions)
===============================================================================
