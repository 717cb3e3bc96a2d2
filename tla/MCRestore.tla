----------------------------- MODULE MCRestore -----------------------------
(* Restore for TLC: two chunks in the backup, one chunk the user writes.     *)
EXTENDS Restore

CONSTANTS c1, c2, u1

TwoChunks == <<c1, c2>>
OwnChunk == {u1}
=============================================================================
