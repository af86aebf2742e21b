------------------------------ MODULE AccountText ------------------------------
(* What the user names and the handles of account_data have in common: text  *)
(* that is compared without regard to case, and statements that may fail.    *)

CONSTANTS
  Words, Spellings,  \* a username or a handle is a word in one of its spellings
  None,              \* NULL; no name, no handle
  Faults             \* what may fail: "open", "query", "update", "file"

\* Whether a statement succeeds.
Outcomes(kind) == IF kind \in Faults THEN BOOLEAN ELSE {TRUE}
===============================================================================
