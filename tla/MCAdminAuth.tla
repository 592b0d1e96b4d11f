------------------------------ MODULE MCAdminAuth ------------------------------
(* Small instances of AdminAuth: the browsers share a source network, and the  *)
(* first failure and the second delay the next login.                          *)
EXTENDS AdminAuth, TLC

MCSource == [b \in Browsers |-> "network"]
MCThresholds == <<1, 2>>
MCDelays == <<1, 2>>

Symmetry ==
  Permutations(Browsers) \cup Permutations(Tokens) \cup Permutations(Users)
    \cup Permutations(Passwords)
=============================================================================
