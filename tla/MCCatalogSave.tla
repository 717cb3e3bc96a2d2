--------------------------- MODULE MCCatalogSave ---------------------------
(* CatalogSave for TLC: node names, and field values, are interchangeable.  *)
EXTENDS CatalogSave, SequencesExt

CONSTANT Eagers     \* the system shards, whose order does not matter

EagerOrder == SetToSeq(Eagers)

Symmetry == Permutations(Name) \cup Permutations(Tag)
=============================================================================
