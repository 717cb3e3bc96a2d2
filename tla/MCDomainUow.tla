---------------------------- MODULE MCDomainUow ----------------------------
(* DomainUow for TLC: domains, and files, are interchangeable.              *)
EXTENDS DomainUow, TLC

Symmetry == Permutations(Domain) \cup Permutations(File)
=============================================================================
