---------------------------- MODULE MCAccounts -----------------------------
(* Small instances of Accounts for TLC. *)
EXTENDS Accounts

CONSTANTS ann, ben, a1, a2, b1

\* Everybody has a name in mind, and ann has another one.
OwnNames == {<<ann, a1>>, <<ann, a2>>, <<ben, b1>>}
AnnsNames == {<<ann, a1>>, <<ann, a2>>}
SameName == {<<ann, a1>>, <<ben, a1>>}
=============================================================================
