------------------------------- MODULE MCTeamDB -------------------------------
(* Instances of TeamDB for TLC.                                            *)
EXTENDS TeamDB, TLC

AccountSymmetry == Permutations(Accounts)
===============================================================================
