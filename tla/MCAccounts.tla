----------------------------- MODULE MCAccounts -----------------------------
(* Small instances of Accounts for TLC. *)
EXTENDS Accounts, TLC

\* Ids of accounts are drawn at random, so they are alike.
Symmetry == Permutations(Ids)
=============================================================================
