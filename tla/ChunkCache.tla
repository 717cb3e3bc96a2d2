----------------------------- MODULE ChunkCache -----------------------------
(***************************************************************************)
(* The cache of decrypted chunks of a session                              *)
(* (vault/decrypted_chunk_cache.rs).  An entry is filed under the file,    *)
(* its source revision and the chunk's index, and remembers when it was    *)
(* last used.  Every invalidation advances the generation, and an          *)
(* insertion carries the generation its reader saw when it was opened.     *)
(* A chunk counts as one unit, so that one bound stands for both limits.   *)
(***************************************************************************)
EXTENDS Naturals, FiniteSets

CONSTANT MaxEntries

ASSUME CacheAssumption == MaxEntries \in Nat \ {0}

VARIABLES
    cache,           \* the entries
    generation,
    access_counter   \* lookups and insertions so far

cacheVars == <<cache, generation, access_counter>>

CacheInit == cache = {} /\ generation = 0 /\ access_counter = 0

Key(f, rev, i) == <<f, rev, i>>

EntriesOf(key) == {e \in cache : e.key = key}
Hit(key) == EntriesOf(key) # {}

\* get: an entry that is found becomes the most recently used one.
Touch(key) ==
    /\ access_counter' = access_counter + 1
    /\ cache' = (cache \ EntriesOf(key))
                \cup {[e EXCEPT !.last_access = access_counter'] : e \in EntriesOf(key)}
    /\ UNCHANGED generation

LeastRecent(c) == CHOOSE e \in c : \A d \in c : e.last_access <= d.last_access

\* evict_over_capacity: an insertion adds one entry, so that one goes.
Evicted(c) == IF Cardinality(c) > MaxEntries THEN c \ {LeastRecent(c)} ELSE c

WithEntry(key, data) ==
    Evicted((cache \ EntriesOf(key))
            \cup {[key |-> key, data |-> data, last_access |-> access_counter + 1]})

\* Mutant: the generation of the reader is not compared.
InsertAlways(g, key, data) ==
    /\ cache' = WithEntry(key, data) /\ access_counter' = access_counter + 1
    /\ UNCHANGED generation

\* insert_shared: an insertion of an older generation is dropped.
Insert(g, key, data) ==
    /\ IF g # generation THEN UNCHANGED <<cache, access_counter>>
       ELSE cache' = WithEntry(key, data) /\ access_counter' = access_counter + 1
    /\ UNCHANGED generation

InvalidateNode(f) ==
    /\ cache' = {e \in cache : e.key[1] # f}
    /\ generation' = generation + 1
    /\ UNCHANGED access_counter

\* A session starts with a cache of its own.
FreshCache == cache' = {} /\ generation' = 0 /\ access_counter' = 0
=============================================================================
