----------------------------- MODULE MCAccountsDB -----------------------------
(* Instances of AccountsDB for TLC.                                        *)
EXTENDS AccountsDB, TLC

AccountsSymmetry ==
  Permutations(Admins) \cup Permutations(Passwords) \cup Permutations(Keys)
===============================================================================
