--------------------------- MODULE MCNip46Signer ---------------------------
(***************************************************************************)
(* Nip46Signer for TLC.  Clients and requests are interchangeable.         *)
(***************************************************************************)
EXTENDS Nip46Signer, TLC

Symmetry == Permutations(Clients) \cup Permutations(Requests)
============================================================================
