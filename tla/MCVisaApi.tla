----------------------------- MODULE MCVisaApi ------------------------------
(* A small instance of VisaApi: two threads, two servers.                  *)
EXTENDS VisaApi, TLC

Symmetry == Permutations(Threads) \cup Permutations(Urls)
=============================================================================
