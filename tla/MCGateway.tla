------------------------------ MODULE MCGateway ------------------------------
(* Small instances of Gateway for TLC. *)
EXTENDS Gateway, TLC

ClientSymmetry    == Permutations(Clients)
PublisherSymmetry == Permutations(Publishers)
Symmetry          == ClientSymmetry \cup PublisherSymmetry
==============================================================================
