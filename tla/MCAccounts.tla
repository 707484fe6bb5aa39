----------------------------- MODULE MCAccounts -----------------------------
(* Instances of Accounts for TLC. *)
EXTENDS Accounts, TLC

CONSTANTS ann, Ann, bob, sub, red, blue, req1, req2

\* Ann spells her address in two ways, and Google in the second.
MCLower == [a \in {ann, Ann, bob} |-> IF a = Ann THEN ann ELSE a]
MCGoogleMail == [g \in {sub} |-> {Ann}]
Symmetry == Permutations({red, blue}) \cup Permutations({req1, req2})
=============================================================================
