----------------------------- MODULE AliasNames -----------------------------
(***************************************************************************)
(* The accounts of one company user and the aliases they may have.         *)
(***************************************************************************)
CONSTANTS
  Aliases,  \* spellings of aliases
  Keys,     \* aliases in lower case, which account_key digests
  KeyOf,    \* the key of each spelling
  Accounts, \* workspace identities
  None

ASSUME KeyOfAssumption == KeyOf \in [Aliases -> Keys]
ASSUME NoneAssumption == None \notin Aliases
=============================================================================
