----------------------------- MODULE MCCeremony -----------------------------
(* Ceremony on a small instance; clients and users are interchangeable. *)
EXTENDS Ceremony

Symmetry == Permutations(Clients) \cup Permutations(Users)
=============================================================================
