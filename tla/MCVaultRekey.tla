---------------------------- MODULE MCVaultRekey ----------------------------
(* VaultRekey for TLC: keys, and blobs, are interchangeable.                *)
EXTENDS VaultRekey, TLC

Symmetry == Permutations(Key) \cup Permutations(Blob)
=============================================================================
