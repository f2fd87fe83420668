------------------------------ MODULE MCAccounts -------------------------------
(***************************************************************************)
(* An instance of Accounts: one address and two browsers.  Accounts do not *)
(* meet, but for the address that must be free.                            *)
(***************************************************************************)
EXTENDS Accounts, TLC

CONSTANTS e1, b1, b2, p1, p2

AccountsSymmetry == Permutations(Browser) \cup Permutations(Password)
================================================================================
