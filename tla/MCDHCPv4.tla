------------------------------ MODULE MCDHCPv4 ------------------------------
(* Model-checking instances of DHCPv4.                                     *)
EXTENDS DHCPv4

CONSTANTS c1, c2, c3, w1, w2

\* Clients send any message, and the goroutines are alike.
Symmetry == Permutations(Clients) \cup Permutations(Workers)
=============================================================================
