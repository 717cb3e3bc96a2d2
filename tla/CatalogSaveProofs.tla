------------------------- MODULE CatalogSaveProofs -------------------------
(***************************************************************************)
(* What saves, compactions, unlocks and garbage collection keep of the     *)
(* sharded catalog, for any shards, names, commands and limits.            *)
(*                                                                         *)
(* Three invariants build on each other.  Shape: types, logs that agree    *)
(* with their metas, and the control; it holds whatever fails.  Safe: what *)
(* the root index or a complete commit record refers to loads, and a plan  *)
(* delivers what its command changed; it holds where Covered says so.      *)
(* Synced: between commands the durable catalog is that of the session,    *)
(* with ids that meet no other; it holds when no storage call fails.       *)
(***************************************************************************)
EXTENDS CatalogSave, FiniteSetTheorems, SequenceTheorems, WellFoundedInduction, TLAPS

(***************************************************************************)
(* Replaying a log, one delta after the other.                              *)
(***************************************************************************)
IsRun(f, sh, ds) ==
    f = [i \in 0..Len(ds) |-> IF i = 0 THEN sh ELSE apply_delta(f[i - 1], ds[i])]

\* A non-empty set of naturals has a least element.
LEMMA Least ==
    ASSUME NEW T \in SUBSET Nat, T # {}
    PROVE  \E n \in T : \A k \in T : n <= k
<1>1. PICK n \in T : \A k \in T : ~(<<k, n>> \in OpToRel(<, Nat))
    BY WFMin, NatLessThanWellFounded, Zenon
<1>2. \A k \in T : ~(k < n)
    <2> SUFFICES ASSUME NEW k \in T, k < n PROVE FALSE
        OBVIOUS
    <2>1. <<k, n>> \in Nat \X Nat /\ <<k, n>>[1] = k /\ <<k, n>>[2] = n
        OBVIOUS
    <2> QED BY <1>1, <2>1, Zenon DEF OpToRel
<1> QED BY <1>2

\* A log can be replayed: delta.rs apply_deltas ends after its last delta.
LEMMA RunExists ==
    ASSUME NEW sh, NEW ds, Len(ds) \in Nat
    PROVE  \E f : IsRun(f, sh, ds)
<1> DEFINE Upto(f, n) ==
        f = [i \in 0..n |-> IF i = 0 THEN sh ELSE apply_delta(f[i - 1], ds[i])]
<1> DEFINE T == {n \in Nat : ~\E f : Upto(f, n)}
<1>1. SUFFICES T = {}
    BY <1>1 DEF IsRun
<1>2. SUFFICES ASSUME T # {} PROVE FALSE
    OBVIOUS
<1>3. PICK n \in T : \A k \in T : n <= k
    BY <1>2, Least
<1>4. CASE n = 0
    <2>1. Upto([i \in 0..0 |-> sh], 0)
        OBVIOUS
    <2> QED BY <2>1, <1>3, <1>4
<1>5. CASE n # 0
    <2>0. T \subseteq Nat
        OBVIOUS
    <2>1. n - 1 \in Nat /\ n - 1 \notin T
        <3> HIDE DEF T
        <3> QED BY <2>0, <1>3, <1>5
    <2>2. PICK f : Upto(f, n - 1)
        BY <2>1
    <2> DEFINE g == [i \in 0..n |-> IF i = n THEN apply_delta(f[n - 1], ds[n]) ELSE f[i]]
    <2>3. \A i \in 0..n : g[i] = IF i = 0 THEN sh ELSE apply_delta(g[i - 1], ds[i])
        <3> SUFFICES ASSUME NEW i \in 0..n
                     PROVE  g[i] = IF i = 0 THEN sh ELSE apply_delta(g[i - 1], ds[i])
            OBVIOUS
        <3>1. CASE i = n
            <4>1. g[i - 1] = f[n - 1]
                BY <1>5, <3>1
            <4>2. g[i] = apply_delta(f[n - 1], ds[n])
                BY <3>1
            <4> HIDE DEF g
            <4> QED BY <4>1, <4>2, <1>5, <3>1
        <3>2. CASE i # n
            <4>1. i \in 0..(n - 1) /\ g[i] = f[i]
                BY <3>2
            <4>2. f[i] = IF i = 0 THEN sh ELSE apply_delta(f[i - 1], ds[i])
                BY <2>2, <4>1
            <4>3. i # 0 => g[i - 1] = f[i - 1]
                BY <4>1, <2>1
            <4> HIDE DEF g
            <4> QED BY <4>1, <4>2, <4>3
        <3> QED BY <3>1, <3>2
    <2>4. g = [i \in 0..n |-> g[i]]
        OBVIOUS
    <2> HIDE DEF g
    <2>5. Upto(g, n)
        BY <2>3, <2>4
    <2> QED BY <2>5, <1>3
<1> QED BY <1>4, <1>5

LEMMA ReplayRun ==
    ASSUME NEW sh, NEW ds, Len(ds) \in Nat
    PROVE  \E f : IsRun(f, sh, ds) /\ apply_deltas(sh, ds) = f[Len(ds)]
<1> DEFINE f == CHOOSE g : IsRun(g, sh, ds)
<1>1. IsRun(f, sh, ds)
    BY RunExists
<1>2. apply_deltas(sh, ds) = f[Len(ds)]
    BY DEF apply_deltas, IsRun
<1> QED BY <1>1, <1>2

LEMMA RunAt ==
    ASSUME NEW sh, NEW ds, Len(ds) \in Nat, NEW f, IsRun(f, sh, ds)
    PROVE  /\ f[0] = sh
           /\ \A i \in 1..Len(ds) : f[i] = apply_delta(f[i - 1], ds[i])
<1>1. \A i \in 0..Len(ds) : f[i] = IF i = 0 THEN sh ELSE apply_delta(f[i - 1], ds[i])
    BY DEF IsRun
<1> QED BY <1>1

Prefix(ds, es) ==
    /\ Len(ds) \in Nat /\ Len(es) \in Nat /\ Len(ds) <= Len(es)
    /\ \A i \in 1..Len(ds) : es[i] = ds[i]

\* The first part of a longer log is replayed as the shorter log is.
LEMMA RunPrefix ==
    ASSUME NEW sh, NEW ds, NEW es, Prefix(ds, es),
           NEW f, IsRun(f, sh, ds), NEW g, IsRun(g, sh, es)
    PROVE  \A n \in 0..Len(ds) : f[n] = g[n]
<1>0. /\ Len(ds) \in Nat /\ Len(es) \in Nat /\ Len(ds) <= Len(es)
      /\ \A i \in 1..Len(ds) : es[i] = ds[i]
    BY DEF Prefix
<1> DEFINE T == {k \in 0..Len(ds) : f[k] # g[k]}
<1>1. SUFFICES ASSUME T # {} PROVE FALSE
    BY <1>0
<1>2. T \in SUBSET Nat
    BY <1>0
<1>3. PICK k \in T : \A j \in T : k <= j
    BY <1>1, <1>2, Least
<1>4. k \in 0..Len(ds) /\ f[k] # g[k]
    BY <1>0
<1>5. k # 0
    BY <1>4, <1>0, RunAt
<1>6. k - 1 \in 0..Len(ds) /\ k - 1 \notin T
    <2> HIDE DEF T
    <2> QED BY <1>0, <1>3, <1>4, <1>5
<1>7. f[k - 1] = g[k - 1]
    BY <1>0, <1>6
<1>8. f[k] = apply_delta(f[k - 1], ds[k])
    BY <1>4, <1>5, <1>0, RunAt
<1>9. g[k] = apply_delta(g[k - 1], es[k])
    <2>1. k \in 1..Len(es)
        BY <1>0, <1>4, <1>5
    <2> QED BY <2>1, <1>0, RunAt
<1> QED BY <1>0, <1>4, <1>5, <1>7, <1>8, <1>9

LEMMA ReplayNone ==
    ASSUME NEW sh, NEW ds, Len(ds) = 0
    PROVE  apply_deltas(sh, ds) = sh
<1>1. Len(ds) \in Nat
    OBVIOUS
<1>2. PICK f : IsRun(f, sh, ds) /\ apply_deltas(sh, ds) = f[Len(ds)]
    BY <1>1, ReplayRun
<1>3. f[0] = sh
    BY <1>1, <1>2, RunAt
<1> QED BY <1>2, <1>3

\* One more delta is applied to what the log replayed to.
LEMMA ReplayAppend ==
    ASSUME NEW sh, NEW ds, NEW es, Len(ds) \in Nat, Len(es) = Len(ds) + 1,
           \A i \in 1..Len(ds) : es[i] = ds[i]
    PROVE  apply_deltas(sh, es) = apply_delta(apply_deltas(sh, ds), es[Len(es)])
<1>1. PICK f : IsRun(f, sh, ds) /\ apply_deltas(sh, ds) = f[Len(ds)]
    BY ReplayRun
<1>2. Len(es) \in Nat
    OBVIOUS
<1>3. PICK g : IsRun(g, sh, es) /\ apply_deltas(sh, es) = g[Len(es)]
    BY <1>2, ReplayRun
<1>4. f[Len(ds)] = g[Len(ds)]
    <2>1. Len(ds) \in 0..Len(ds) /\ Len(ds) <= Len(es)
        OBVIOUS
    <2>2. Prefix(ds, es)
        BY <2>1 DEF Prefix
    <2>3. \A n \in 0..Len(ds) : f[n] = g[n]
        BY <1>1, <1>3, <2>2, RunPrefix
    <2> QED BY <2>1, <2>3
<1>5. g[Len(es)] = apply_delta(g[Len(es) - 1], es[Len(es)])
    BY <1>2, <1>3, RunAt
<1> QED BY <1>1, <1>3, <1>4, <1>5

LEMMA ReplayOne ==
    ASSUME NEW sh, NEW d
    PROVE  apply_deltas(sh, <<d>>) = apply_delta(sh, d)
<1> DEFINE ds == << >>
<1> DEFINE es == <<d>>
<1>1. Len(ds) = 0 /\ Len(es) = 1 /\ es[1] = d
    OBVIOUS
<1> HIDE DEF ds, es
<1>2. apply_deltas(sh, es) = apply_delta(apply_deltas(sh, ds), es[Len(es)])
    <2>1. Len(ds) \in Nat /\ Len(es) = Len(ds) + 1 /\ \A i \in 1..Len(ds) : es[i] = ds[i]
        BY <1>1
    <2> QED BY <2>1, ReplayAppend
<1>3. apply_deltas(sh, ds) = sh
    BY <1>1, ReplayNone
<1> QED BY <1>1, <1>2, <1>3 DEF es

\* A delta turns a shard into a shard, or is refused.
LEMMA ApplyType ==
    ASSUME NEW sh \in Shard \cup {Failure}, NEW d \in DeltaEntry
    PROVE  apply_delta(sh, d) \in Shard \cup {Failure}
<1>1. CASE sh = Failure
    BY <1>1 DEF apply_delta
<1>2. CASE sh # Failure
    <2>1. sh \in Shard /\ d.node \in Node /\ d.name \in Name /\ d.to \in Name
        BY <1>2 DEF DeltaEntry
    <2>2. \A n \in Name, v \in Node \cup {NoNode} : [sh EXCEPT !.kids[n] = v] \in Shard
        BY <2>1 DEF Shard
    <2>3. sh.kids[d.name] \in Node \cup {NoNode}
        BY <2>1 DEF Shard
    <2>4. d.kind \in {"create", "update", "delete", "move"}
        BY DEF DeltaEntry
    <2>5. CASE d.kind = "create"
        BY <1>2, <2>1, <2>2, <2>5 DEF apply_delta
    <2>6. CASE d.kind = "update"
        BY <1>2, <2>1, <2>2, <2>6 DEF apply_delta
    <2>7. CASE d.kind = "delete"
        BY <1>2, <2>1, <2>2, <2>7 DEF apply_delta
    <2>8. CASE d.kind = "move"
        <3>1. [[sh EXCEPT !.kids[d.name] = NoNode] EXCEPT !.kids[d.to] = sh.kids[d.name]] \in Shard
            BY <2>1, <2>2, <2>3 DEF Shard
        <3> QED BY <1>2, <2>1, <2>8, <3>1 DEF apply_delta
    <2> QED BY <2>4, <2>5, <2>6, <2>7, <2>8
<1> QED BY <1>1, <1>2

LEMMA ReplayType ==
    ASSUME NEW sh \in Shard \cup {Failure}, NEW ds, Len(ds) \in Nat,
           \A i \in 1..Len(ds) : ds[i] \in DeltaEntry
    PROVE  apply_deltas(sh, ds) \in Shard \cup {Failure}
<1>1. PICK f : IsRun(f, sh, ds) /\ apply_deltas(sh, ds) = f[Len(ds)]
    BY ReplayRun
<1> DEFINE T == {k \in 0..Len(ds) : f[k] \notin Shard \cup {Failure}}
<1>2. SUFFICES ASSUME T # {} PROVE FALSE
    BY <1>1
<1>3. T \in SUBSET Nat
    OBVIOUS
<1>4. PICK k \in T : \A j \in T : k <= j
    BY <1>2, <1>3, Least
<1>5. k \in 0..Len(ds) /\ f[k] \notin Shard \cup {Failure}
    OBVIOUS
<1>6. k # 0
    BY <1>1, <1>5, RunAt
<1>7. k - 1 \in 0..Len(ds) /\ k - 1 \notin T
    <2> HIDE DEF T
    <2> QED BY <1>4, <1>5, <1>6
<1>8. f[k - 1] \in Shard \cup {Failure}
    BY <1>7
<1>9. f[k] = apply_delta(f[k - 1], ds[k]) /\ ds[k] \in DeltaEntry
    BY <1>1, <1>5, <1>6, RunAt
<1> QED BY <1>5, <1>8, <1>9, ApplyType

(***************************************************************************)
(* Loading a shard.                                                         *)
(***************************************************************************)
MetaOK(m) ==
    /\ m \in ShardMeta
    /\ m.count = m.last - m.base /\ m.version = m.last
    /\ IF m.has THEN m.last - m.base \in 1..(MAX_DELTAS - 1) ELSE m.last = m.base

LogOf(d, s, m) ==
    IF m.has THEN [i \in 1..(m.last - m.base) |-> d[Delta(s, m.base + i)]] ELSE << >>

LEMMA FunLen ==
    ASSUME NEW k \in Nat, NEW f, f = [i \in 1..k |-> f[i]]
    PROVE  Len(f) = k
<1> DEFINE S == {f[i] : i \in 1..k}
<1>1. f \in [1..k -> S]
    OBVIOUS
<1>2. f \in Seq(S)
    BY <1>1, SeqDef
<1>3. Len(f) \in Nat /\ DOMAIN f = 1..Len(f)
    BY <1>2, LenProperties
<1>4. 1..k = 1..Len(f)
    BY <1>1, <1>3
<1> QED BY <1>3, <1>4

LEMMA MetaNumbers ==
    ASSUME NEW m, MetaOK(m)
    PROVE  /\ m.version \in 0..MaxSeq /\ m.base \in 0..MaxSeq /\ m.last \in 0..MaxSeq
           /\ m.seq \in 0..MaxSeq /\ m.has \in BOOLEAN /\ m.count \in 0..MaxSeq
           /\ m.last - m.base \in Nat /\ MaxSeq \in Nat /\ MAX_DELTAS \in Nat
           /\ m.last = m.base + m.count /\ m.version = m.last
           /\ m.has => m.count >= 1 /\ m.count < MAX_DELTAS
           /\ ~m.has => m.count = 0
<1>1. m \in ShardMeta
    BY DEF MetaOK
<1>2. /\ m.version \in 0..MaxSeq /\ m.base \in 0..MaxSeq /\ m.last \in 0..MaxSeq
      /\ m.seq \in 0..MaxSeq /\ m.has \in BOOLEAN /\ m.count \in 0..MaxSeq
    BY <1>1 DEF ShardMeta
<1> QED BY <1>2, BoundAssumption DEF MetaOK

LEMMA MetaIsMeta ==
    ASSUME NEW m, MetaOK(m)
    PROVE  m # NoMeta
<1>1. m \in [version : Nat, base : Nat, last : Nat, seq : Nat, has : BOOLEAN, count : Nat]
    BY DEF MetaOK, ShardMeta
<1> QED BY <1>1, NoneAssumption

LEMMA LogLen ==
    ASSUME NEW d, NEW s, NEW m, MetaOK(m)
    PROVE  /\ Len(LogOf(d, s, m)) = m.count
           /\ \A i \in 1..m.count : LogOf(d, s, m)[i] = d[Delta(s, m.base + i)]
<1> USE MetaNumbers
<1>1. m.last - m.base = m.count /\ m.count \in Nat
    OBVIOUS
<1>2. CASE m.has
    <2> DEFINE f == LogOf(d, s, m)
    <2>1. f = [i \in 1..m.count |-> d[Delta(s, m.base + i)]]
        BY <1>1, <1>2 DEF LogOf
    <2>2. f = [i \in 1..m.count |-> f[i]]
        BY <2>1
    <2> HIDE DEF f
    <2>3. Len(f) = m.count
        BY <1>1, <2>2, FunLen
    <2>4. \A i \in 1..m.count : f[i] = d[Delta(s, m.base + i)]
        BY <2>1
    <2> QED BY <2>3, <2>4 DEF f
<1>3. CASE ~m.has
    <2>1. LogOf(d, s, m) = << >> /\ m.count = 0
        BY <1>3 DEF LogOf
    <2> QED BY <2>1
<1> QED BY <1>2, <1>3

LEMMA LoadIs ==
    ASSUME NEW d, NEW s, NEW m, \A c \in chunks_for_meta(s, m) : d[c] # Absent
    PROVE  load_full_shard_from_meta(d, s, m) = apply_deltas(d[Snapshot(s, m.seq)], LogOf(d, s, m))
BY DEF load_full_shard_from_meta, LogOf

LEMMA LoadPresent ==
    ASSUME NEW d, NEW s, NEW m, load_full_shard_from_meta(d, s, m) # Failure
    PROVE  \A c \in chunks_for_meta(s, m) : d[c] # Absent
BY DEF load_full_shard_from_meta

LEMMA MetaChunks ==
    ASSUME NEW s, NEW m, MetaOK(m)
    PROVE  /\ Snapshot(s, m.seq) \in chunks_for_meta(s, m)
           /\ \A i \in 1..m.count : Delta(s, m.base + i) \in chunks_for_meta(s, m)
           /\ \A c \in chunks_for_meta(s, m) :
                 c = Snapshot(s, m.seq) \/ \E i \in 1..m.count : c = Delta(s, m.base + i)
<1> USE MetaNumbers
<1>1. Snapshot(s, m.seq) \in chunks_for_meta(s, m)
    BY DEF chunks_for_meta
<1>2. ASSUME NEW i \in 1..m.count
      PROVE  Delta(s, m.base + i) \in chunks_for_meta(s, m)
    <2>1. m.has
        BY <1>2
    <2>2. m.base + i \in (m.base + 1)..m.last
        BY <1>2
    <2> QED BY <2>1, <2>2 DEF chunks_for_meta
<1>3. ASSUME NEW c \in chunks_for_meta(s, m), c # Snapshot(s, m.seq)
      PROVE  \E i \in 1..m.count : c = Delta(s, m.base + i)
    <2>1. PICK n \in (m.base + 1)..m.last : c = Delta(s, n)
        BY <1>3 DEF chunks_for_meta
    <2>2. n - m.base \in 1..m.count /\ n = m.base + (n - m.base)
        BY <2>1
    <2>3. c = Delta(s, m.base + (n - m.base))
        BY <2>1, <2>2
    <2> QED BY <2>2, <2>3
<1> QED BY <1>1, <1>2, <1>3

\* What a shard loads to depends on the chunks its meta names and on no others.
LEMMA LoadFrame ==
    ASSUME NEW d, NEW e, NEW s, NEW m, MetaOK(m),
           \A c \in chunks_for_meta(s, m) : e[c] = d[c]
    PROVE  load_full_shard_from_meta(e, s, m) = load_full_shard_from_meta(d, s, m)
<1> USE MetaNumbers
<1>1. CASE \E c \in chunks_for_meta(s, m) : d[c] = Absent
    <2>1. \E c \in chunks_for_meta(s, m) : e[c] = Absent
        BY <1>1
    <2> QED BY <1>1, <2>1 DEF load_full_shard_from_meta
<1>2. CASE \A c \in chunks_for_meta(s, m) : d[c] # Absent
    <2>1. \A c \in chunks_for_meta(s, m) : e[c] # Absent
        BY <1>2
    <2>2. e[Snapshot(s, m.seq)] = d[Snapshot(s, m.seq)]
        BY MetaChunks
    <2>3. LogOf(e, s, m) = LogOf(d, s, m)
        <3>1. \A i \in 1..m.count : e[Delta(s, m.base + i)] = d[Delta(s, m.base + i)]
            BY MetaChunks
        <3>2. m.last - m.base = m.count
            OBVIOUS
        <3> QED BY <3>1, <3>2 DEF LogOf
    <2> QED BY <1>2, <2>1, <2>2, <2>3, LoadIs
<1> QED BY <1>1, <1>2

LEMMA LoadPlain ==
    ASSUME NEW d, NEW s, NEW m, MetaOK(m), ~m.has, d[Snapshot(s, m.seq)] # Absent
    PROVE  load_full_shard_from_meta(d, s, m) = d[Snapshot(s, m.seq)]
<1>1. \A c \in chunks_for_meta(s, m) : d[c] # Absent
    BY DEF chunks_for_meta
<1>2. Len(LogOf(d, s, m)) = 0
    BY LogLen, MetaNumbers
<1> QED BY <1>1, <1>2, LoadIs, ReplayNone

\* What is loaded is a shard.
LEMMA LoadType ==
    ASSUME NEW d \in Contents, NEW s \in ShardId, NEW m, MetaOK(m)
    PROVE  load_full_shard_from_meta(d, s, m) \in Shard \cup {Failure}
<1> USE MetaNumbers
<1>1. CASE \E c \in chunks_for_meta(s, m) : d[c] = Absent
    BY <1>1 DEF load_full_shard_from_meta
<1>2. CASE \A c \in chunks_for_meta(s, m) : d[c] # Absent
    <2>1. d[Snapshot(s, m.seq)] \in Shard
        BY <1>2, MetaChunks DEF Contents
    <2>2. ASSUME NEW i \in 1..m.count PROVE d[Delta(s, m.base + i)] \in DeltaEntry
        <3>1. m.base + i \in 0..MaxSeq
            BY <2>2
        <3>2. d[Delta(s, m.base + i)] # Absent
            BY <1>2, MetaChunks
        <3> QED BY <3>1, <3>2 DEF Contents
    <2>3. Len(LogOf(d, s, m)) = m.count /\ m.count \in Nat
        BY LogLen
    <2>4. \A i \in 1..Len(LogOf(d, s, m)) : LogOf(d, s, m)[i] \in DeltaEntry
        <3>1. \A i \in 1..m.count : LogOf(d, s, m)[i] = d[Delta(s, m.base + i)]
            BY LogLen
        <3> QED BY <2>2, <2>3, <3>1
    <2>5. apply_deltas(d[Snapshot(s, m.seq)], LogOf(d, s, m)) \in Shard \cup {Failure}
        BY <2>1, <2>3, <2>4, ReplayType
    <2> QED BY <1>2, <2>5, LoadIs
<1> QED BY <1>1, <1>2

\* The meta of one delta more refers to the old log and to that delta.
LEMMA LoadAppend ==
    ASSUME NEW d, NEW e, NEW s, NEW m, MetaOK(m), NEW w, MetaOK(w),
           w.base = m.base, w.count = m.count + 1, w.seq = m.seq,
           \A c \in chunks_for_meta(s, m) : e[c] = d[c] /\ d[c] # Absent,
           e[Delta(s, w.last)] # Absent
    PROVE  load_full_shard_from_meta(e, s, w)
             = apply_delta(load_full_shard_from_meta(d, s, m), e[Delta(s, w.last)])
<1>1. /\ m.count \in Nat /\ m.base \in Nat /\ w.last = m.base + w.count
      /\ w.count = m.count + 1
    BY MetaNumbers
<1>2. \A i \in 1..w.count : i \in 1..m.count \/ i = w.count
    BY <1>1
<1>3. \A c \in chunks_for_meta(s, w) : e[c] # Absent
    <2> SUFFICES ASSUME NEW c \in chunks_for_meta(s, w) PROVE e[c] # Absent
        OBVIOUS
    <2>1. CASE c = Snapshot(s, w.seq)
        BY <2>1, MetaChunks
    <2>2. CASE c # Snapshot(s, w.seq)
        <3>1. PICK i \in 1..w.count : c = Delta(s, w.base + i)
            BY <2>2, MetaChunks
        <3>2. CASE i \in 1..m.count
            <4>1. Delta(s, m.base + i) \in chunks_for_meta(s, m)
                BY <3>2, MetaChunks
            <4> QED BY <3>1, <4>1
        <3>3. CASE i = w.count
            BY <1>1, <3>1, <3>3
        <3> QED BY <1>2, <3>2, <3>3
    <2> QED BY <2>1, <2>2
<1>4. e[Snapshot(s, w.seq)] = d[Snapshot(s, m.seq)]
    BY MetaChunks
<1> DEFINE ds == LogOf(d, s, m)
<1> DEFINE es == LogOf(e, s, w)
<1>5. Len(ds) = m.count /\ Len(es) = w.count
    <2>1. Len(LogOf(d, s, m)) = m.count
        BY LogLen
    <2>2. Len(LogOf(e, s, w)) = w.count
        <3>1. MetaOK(w)
            OBVIOUS
        <3> QED BY ONLY <3>1, LogLen
    <2> QED BY <2>1, <2>2
<1>6. \A i \in 1..m.count : es[i] = ds[i]
    <2> SUFFICES ASSUME NEW i \in 1..m.count PROVE es[i] = ds[i]
        OBVIOUS
    <2>1. ds[i] = d[Delta(s, m.base + i)]
        BY LogLen
    <2>2. i \in 1..w.count
        BY <1>1
    <2>3. es[i] = e[Delta(s, m.base + i)]
        BY <2>2, LogLen
    <2>4. Delta(s, m.base + i) \in chunks_for_meta(s, m)
        BY MetaChunks
    <2> QED BY <2>1, <2>3, <2>4
<1>7. es[w.count] = e[Delta(s, w.last)]
    <2>1. w.count \in 1..w.count
        BY <1>1
    <2>2. es[w.count] = e[Delta(s, w.base + w.count)]
        BY <2>1, LogLen
    <2> QED BY <1>1, <2>2
<1>8. load_full_shard_from_meta(d, s, m) = apply_deltas(d[Snapshot(s, m.seq)], ds)
    BY LoadIs
<1>9. load_full_shard_from_meta(e, s, w) = apply_deltas(e[Snapshot(s, w.seq)], es)
    BY <1>3, LoadIs
<1> HIDE DEF ds, es
<1>10. apply_deltas(d[Snapshot(s, m.seq)], es)
         = apply_delta(apply_deltas(d[Snapshot(s, m.seq)], ds), es[Len(es)])
    BY <1>1, <1>5, <1>6, ReplayAppend
<1> QED BY <1>4, <1>5, <1>7, <1>8, <1>9, <1>10

(***************************************************************************)
(* Node ids.                                                                *)
(***************************************************************************)
LEMMA MaxOfFinite ==
    ASSUME NEW S \in SUBSET Nat, IsFiniteSet(S), S # {}
    PROVE  Max(S) \in S /\ \A x \in S : x <= Max(S)
<1> DEFINE HasMax(X) == \E x \in X : \A y \in X : x >= y
<1> DEFINE T == {n \in Nat : \E X \in SUBSET Nat :
                    IsFiniteSet(X) /\ X # {} /\ Cardinality(X) = n /\ ~HasMax(X)}
<1>1. T = {}
    <2> SUFFICES ASSUME T # {} PROVE FALSE
        OBVIOUS
    <2>1. T \in SUBSET Nat
        OBVIOUS
    <2>2. PICK n \in T : \A k \in T : n <= k
        BY <2>1, Least
    <2>3. PICK X \in SUBSET Nat : IsFiniteSet(X) /\ X # {} /\ Cardinality(X) = n /\ ~HasMax(X)
        BY <2>2
    <2>4. PICK x \in X : TRUE
        BY <2>3
    <2> DEFINE Y == X \ {x}
    <2>5. IsFiniteSet(Y) /\ Cardinality(Y) = n - 1
        BY <2>3, <2>4, FS_RemoveElement
    <2>6. Y # {}
        <3> SUFFICES ASSUME Y = {} PROVE FALSE
            OBVIOUS
        <3>1. X = {x}
            BY <2>4
        <3>2. HasMax(X)
            BY <2>3, <3>1
        <3> QED BY <2>3, <3>2
    <2>7. HasMax(Y)
        <3>1. n - 1 \in Nat
            BY <2>5, FS_CardinalityType
        <3>2. n - 1 \notin T
            <4> HIDE DEF T
            <4> QED BY <2>1, <2>2, <3>1
        <3>3. Y \in SUBSET Nat
            BY <2>3
        <3> QED BY <2>5, <2>6, <3>1, <3>2, <3>3
    <2>8. PICK y \in Y : \A z \in Y : y >= z
        BY <2>7
    <2>9. CASE x >= y
        <3>1. \A z \in X : x >= z
            BY <2>3, <2>4, <2>8, <2>9
        <3> QED BY <2>3, <2>4, <3>1
    <2>10. CASE ~(x >= y)
        <3>1. \A z \in X : y >= z
            BY <2>3, <2>4, <2>8, <2>10
        <3> QED BY <2>3, <2>8, <3>1
    <2> QED BY <2>9, <2>10
<1>2. Cardinality(S) \in Nat
    BY FS_CardinalityType
<1>3. HasMax(S)
    BY <1>1, <1>2
<1> QED BY <1>3 DEF Max

Img(f, S) == {f[x] : x \in S}

LEMMA FiniteImage ==
    ASSUME NEW S, IsFiniteSet(S), NEW f
    PROVE  IsFiniteSet(Img(f, S))
<1> DEFINE T == Img(f, S)
<1> DEFINE g == [x \in S |-> f[x]]
<1>1. g \in Surjection(S, T)
    BY DEF Surjection, Img
<1> QED BY <1>1, FS_Surjection

LEMMA IdsFinite ==
    ASSUME NEW sh \in Shard
    PROVE  IsFiniteSet(Ids(sh)) /\ Ids(sh) \in SUBSET Nat
<1> DEFINE K == {k \in Name : sh.kids[k] # NoNode}
<1> DEFINE f == [k \in K |-> sh.kids[k].id]
<1>1. IsFiniteSet(K)
    BY FS_Subset, FiniteAssumption
<1>2. Img(f, K) = {sh.kids[k].id : k \in K}
    BY DEF Img
<1>3. IsFiniteSet(Img(f, K))
    BY <1>1, FiniteImage
<1>4. IsFiniteSet({sh.id})
    BY FS_Singleton
<1>5. Ids(sh) = {sh.id} \cup Img(f, K)
    BY <1>2 DEF Ids
<1>6. sh.id \in Nat /\ \A k \in K : sh.kids[k].id \in Nat
    BY DEF Shard, Node
<1>7. IsFiniteSet(Ids(sh))
    <2> HIDE DEF f, K
    <2> QED BY <1>3, <1>4, <1>5, FS_Union
<1>8. Ids(sh) \in SUBSET Nat
    BY <1>6 DEF Ids
<1> QED BY <1>7, <1>8

Catalogs == [ShardId -> Shard \cup {NoShard}]

LEMMA NodeIdNat ==
    ASSUME NEW m \in Catalogs
    PROVE  /\ max_catalog_node_id(m) \in Nat
           /\ \A s \in ShardId : m[s] # NoShard => \A i \in Ids(m[s]) : i <= max_catalog_node_id(m)
<1> DEFINE P == {s \in ShardId : m[s] # NoShard}
<1> DEFINE f == [s \in P |-> Ids(m[s])]
<1>1. IsFiniteSet(P)
    BY FS_Subset, FiniteAssumption
<1>2. Img(f, P) = {Ids(m[s]) : s \in P}
    BY DEF Img
<1>3. IsFiniteSet(Img(f, P))
    BY <1>1, FiniteImage
<1>4. \A s \in P : IsFiniteSet(Ids(m[s])) /\ Ids(m[s]) \in SUBSET Nat
    BY IdsFinite DEF Catalogs
<1>5. IsFiniteSet({Ids(m[s]) : s \in P})
    BY <1>2, <1>3
<1>6. \A T \in {Ids(m[s]) : s \in P} : IsFiniteSet(T)
    BY <1>4
<1>7. IsFiniteSet(AllIds(m)) /\ AllIds(m) \in SUBSET Nat
    BY <1>4, <1>5, <1>6, FS_UNION DEF AllIds
<1>8. IsFiniteSet(AllIds(m) \cup {0}) /\ AllIds(m) \cup {0} \in SUBSET Nat
    BY <1>7, FS_AddElement
<1>9. \A s \in ShardId : m[s] # NoShard => \A i \in Ids(m[s]) : i \in AllIds(m) \cup {0}
    BY DEF AllIds
<1>10. AllIds(m) \cup {0} # {}
    OBVIOUS
<1> QED BY <1>8, <1>9, <1>10, MaxOfFinite DEF max_catalog_node_id

LEMMA MissingFinite ==
    ASSUME NEW m, NEW s
    PROVE  IsFiniteSet(MissingUpTo(m, s)) /\ Cardinality(MissingUpTo(m, s)) \in Nat
<1>1. DOMAIN SystemShards = 1..Len(SystemShards) /\ Len(SystemShards) \in Nat
    BY SystemAssumption
<1>2. IsFiniteSet(1..Len(SystemShards))
    BY <1>1, FS_Interval
<1>3. MissingUpTo(m, s) \subseteq 1..Len(SystemShards)
    BY <1>1 DEF MissingUpTo
<1>4. IsFiniteSet(MissingUpTo(m, s))
    BY <1>2, <1>3, FS_Subset
<1> QED BY <1>4, FS_CardinalityType

\* What a save writes is a catalog in which every system shard is present.
LEMMA PersistenceType ==
    ASSUME NEW m \in Catalogs
    PROVE  /\ persistence_shards(m) \in Catalogs
           /\ \A s \in ShardId : s \in Present(persistence_shards(m)) <=> m[s] # NoShard \/ s \in Eager
           /\ \A s \in ShardId : m[s] # NoShard => persistence_shards(m)[s] = m[s]
<1> DEFINE Fresh(s) == [id |-> max_catalog_node_id(m) + Cardinality(MissingUpTo(m, s)), kids |-> NoKids]
<1>1. \A s : Fresh(s) \in Shard
    BY NodeIdNat, MissingFinite DEF Shard, NoKids
<1>2. \A s \in ShardId : persistence_shards(m)[s] = IF m[s] = NoShard /\ s \in Eager THEN Fresh(s) ELSE m[s]
    BY DEF persistence_shards
<1>4. persistence_shards(m) = [s \in ShardId |-> persistence_shards(m)[s]]
    BY DEF persistence_shards
<1> HIDE DEF Fresh
<1>3. persistence_shards(m) \in Catalogs
    BY <1>1, <1>2, <1>4 DEF Catalogs
<1> QED BY <1>1, <1>2, <1>3, ContentAssumption DEF Present

(***************************************************************************)
(* What a save plans.                                                       *)
(***************************************************************************)
LogOK(r) == \A s \in ShardId : r[s] # NoMeta => MetaOK(r[s])

Pending == {q \in Seq(DeltaEntry) : Len(q) <= 1}

LEMMA PendingCases ==
    ASSUME NEW q \in Pending
    PROVE  \/ q = << >> /\ Len(q) = 0
           \/ q # << >> /\ Len(q) = 1 /\ q = <<q[1]>> /\ q[1] \in DeltaEntry
<1>1. q \in Seq(DeltaEntry) /\ Len(q) \in Nat /\ Len(q) <= 1
    BY DEF Pending
<1>2. CASE Len(q) = 0
    BY <1>1, <1>2
<1>3. CASE Len(q) = 1
    <2>1. q \in [1..1 -> DeltaEntry]
        BY <1>1, <1>3
    <2>2. q = <<q[1]>>
        BY <1>1, <1>3
    <2>3. q # << >> /\ q[1] \in DeltaEntry
        BY <1>3, <2>1
    <2> QED BY <1>3, <2>2, <2>3
<1>4. Len(q) = 0 \/ Len(q) = 1
    BY <1>1
<1> QED BY <1>2, <1>3, <1>4, Zenon

LEMMA ChunkKinds ==
    ASSUME NEW c \in Chunk
    PROVE  \E s \in ShardId, n \in 0..MaxSeq : c = Snapshot(s, n) \/ c = Delta(s, n)
BY DEF Chunk

LEMMA ChunkOf ==
    ASSUME NEW s \in ShardId, NEW n \in 0..MaxSeq
    PROVE  Snapshot(s, n) \in Chunk /\ Delta(s, n) \in Chunk
BY DEF Chunk

LEMMA NewMetaOK == MetaOK(NewMeta) /\ ~NewMeta.has
<1>1. 0 \in 0..MaxSeq
    BY BoundAssumption
<1>2. NewMeta \in ShardMeta
    BY <1>1 DEF NewMeta, ShardMeta
<1> QED BY <1>2 DEF NewMeta, MetaOK

LEMMA MetaOfOK ==
    ASSUME LogOK(root), NEW s \in ShardId
    PROVE  MetaOK(MetaOf(s))
BY NewMetaOK DEF LogOK, MetaOf

\* The chunks of a meta are chunks of its shard.
LEMMA ChunksOfMeta ==
    ASSUME NEW s \in ShardId, NEW m, MetaOK(m)
    PROVE  \A c \in chunks_for_meta(s, m) : c \in Chunk /\ c[2] = s
<1> SUFFICES ASSUME NEW c \in chunks_for_meta(s, m) PROVE c \in Chunk /\ c[2] = s
    OBVIOUS
<1>1. CASE c = Snapshot(s, m.seq)
    BY <1>1, MetaNumbers, ChunkOf DEF Snapshot
<1>2. CASE c # Snapshot(s, m.seq)
    <2>1. PICK i \in 1..m.count : c = Delta(s, m.base + i)
        BY <1>2, MetaChunks
    <2>2. m.base + i \in 0..MaxSeq
        BY MetaNumbers
    <2> QED BY <2>1, <2>2, ChunkOf DEF Delta
<1> QED BY <1>1, <1>2

LEMMA RefsByShard ==
    ASSUME NEW r, LogOK(r)
    PROVE  /\ Refs(r) \subseteq Chunk
           /\ \A c \in Refs(r) : r[c[2]] # NoMeta /\ c \in chunks_for_meta(c[2], r[c[2]])
           /\ \A s \in ShardId : r[s] # NoMeta => chunks_for_meta(s, r[s]) \subseteq Refs(r)
<1>1. ASSUME NEW c \in Refs(r)
      PROVE  c \in Chunk /\ r[c[2]] # NoMeta /\ c \in chunks_for_meta(c[2], r[c[2]])
    <2>1. PICK s \in {t \in ShardId : r[t] # NoMeta} : c \in chunks_for_meta(s, r[s])
        BY <1>1 DEF Refs
    <2>2. MetaOK(r[s])
        BY <2>1 DEF LogOK
    <2>3. c \in Chunk /\ c[2] = s
        BY <2>1, <2>2, ChunksOfMeta
    <2> QED BY <2>1, <2>3
<1>2. ASSUME NEW s \in ShardId, r[s] # NoMeta
      PROVE  chunks_for_meta(s, r[s]) \subseteq Refs(r)
    BY <1>2 DEF Refs
<1> QED BY <1>1, <1>2

Here(m) == Present(persistence_shards(m))
Does(m, pend, s) == Decision(s, persistence_shards(m)[s], pend[s])
IsRefused(m, pend) == \E s \in Here(m) : Does(m, pend, s) = "refuse"
Writes(m, pend, s) ==
    \/ Does(m, pend, s) = "rewrite"
    \/ Does(m, pend, s) = "fallback" /\ ~IsRefused(m, pend)
MetaIn(m, pend, s) == MetaFor(s, persistence_shards(m)[s], pend[s], Does(m, pend, s))

LEMMA SaveRefused ==
    ASSUME NEW m, NEW pend, NEW q, q = SavePlan(m, pend)
    PROVE  q.refused = IsRefused(m, pend)
<1>1. Here(m) \subseteq ShardId
    BY DEF Here, Present
<1> QED BY <1>1 DEF SavePlan, IsRefused, Does, Here

LEMMA SaveShape ==
    ASSUME NEW m, NEW pend, NEW q, q = SavePlan(m, pend)
    PROVE  q.plan = [val |-> q.plan.val, old |-> q.plan.old, root |-> q.plan.root, staged |-> TRUE]
BY DEF SavePlan

LEMMA SaveValIs ==
    ASSUME NEW m, NEW pend, NEW q, q = SavePlan(m, pend)
    PROVE  q.plan.val = [c \in Chunk |-> q.plan.val[c]]
BY DEF SavePlan

LEMMA SaveFirst ==
    ASSUME NEW m, NEW pend, NEW q, q = SavePlan(m, pend), NEW c \in q.first
    PROVE  \E s \in Here(m) : c = Snapshot(s, q.plan.root[s].seq)
<1>1. Here(m) \subseteq ShardId
    BY DEF Here, Present
<1> QED BY <1>1 DEF SavePlan, Does, Here

LEMMA SaveRootIs ==
    ASSUME NEW m, NEW pend, NEW q, q = SavePlan(m, pend)
    PROVE  q.plan.root = [s \in ShardId |-> IF s \in Here(m) THEN MetaIn(m, pend, s) ELSE NoMeta]
BY DEF SavePlan, Does, Here, MetaIn

LEMMA SaveValSnapshot ==
    ASSUME NEW m, NEW pend, NEW q, q = SavePlan(m, pend),
           NEW s \in ShardId, NEW n \in 0..MaxSeq
    PROVE  q.plan.val[Snapshot(s, n)] =
             IF s \in Here(m) /\ Writes(m, pend, s) /\ n = q.plan.root[s].seq
             THEN persistence_shards(m)[s] ELSE Absent
<1>1. Snapshot(s, n) \in Chunk
    BY ChunkOf
<1>2. Snapshot(s, n)[1] = "snapshot" /\ Snapshot(s, n)[2] = s /\ Snapshot(s, n)[3] = n
    BY DEF Snapshot
<1>3. Writes(m, pend, s) <=> \/ Does(m, pend, s) = "rewrite"
                             \/ Does(m, pend, s) = "fallback" /\ ~IsRefused(m, pend)
    BY DEF Writes
<1> QED BY <1>1, <1>2, <1>3 DEF SavePlan, Does, Here, IsRefused

LEMMA SaveValDelta ==
    ASSUME NEW m, NEW pend, NEW q, q = SavePlan(m, pend),
           NEW s \in ShardId, NEW n \in 0..MaxSeq
    PROVE  q.plan.val[Delta(s, n)] =
             IF /\ s \in Here(m) /\ Does(m, pend, s) = "deltas" /\ ~IsRefused(m, pend)
                /\ n \in (MetaOf(s).version + 1)..q.plan.root[s].version
             THEN pend[s][n - MetaOf(s).version] ELSE Absent
<1>1. Delta(s, n) \in Chunk
    BY ChunkOf
<1>2. Delta(s, n)[1] = "delta" /\ Delta(s, n)[2] = s /\ Delta(s, n)[3] = n
    BY DEF Delta
<1> QED BY <1>1, <1>2 DEF SavePlan, Does, Here, IsRefused

LEMMA SaveOld ==
    ASSUME NEW m, NEW pend, NEW q, q = SavePlan(m, pend)
    PROVE  q.plan.old = UNION {OldChunks(s) : s \in {t \in ShardId :
                                t \notin Here(m) \/ Does(m, pend, t) \in {"rewrite", "fallback"}}}
<1>1. \A t \in Here(m) : Does(m, pend, t) = Decision(t, persistence_shards(m)[t], pend[t])
    BY DEF Does
<1> QED BY <1>1 DEF SavePlan, Here

LEMMA DecisionCases ==
    ASSUME NEW s, NEW sh, NEW ds
    PROVE  /\ Decision(s, sh, ds) \in {"rewrite", "keep", "fallback", "refuse", "deltas"}
           /\ Decision(s, sh, ds) \in {"keep", "deltas"} => ~NeedsWrite(s, sh)
           /\ Decision(s, sh, ds) = "keep" => ds = << >>
           /\ Decision(s, sh, ds) = "deltas" =>
                /\ ds # << >>
                /\ ~pending_delta_chain_reaches_limit(MetaOf(s), Len(ds))
                /\ Replayed(s) # Failure
                /\ apply_deltas(Replayed(s), ds) = sh
BY DEF Decision

PlanBase(m, pend) ==
    /\ disk \in Contents /\ root \in RootIndex /\ LogOK(root)
    /\ m \in Catalogs /\ pend \in [ShardId -> Pending]

LEMMA HereFacts ==
    ASSUME NEW m \in Catalogs, NEW s \in Here(m)
    PROVE  s \in ShardId /\ persistence_shards(m)[s] \in Shard
<1>1. s \in ShardId /\ persistence_shards(m)[s] # NoShard
    BY DEF Here, Present
<1>2. persistence_shards(m) \in [ShardId -> Shard \cup {NoShard}]
    BY PersistenceType DEF Catalogs
<1> QED BY <1>1, <1>2

\* The next snapshot of a shard has a number its root index does not refer to.
LEMMA NextSnapshotIs ==
    ASSUME LogOK(root), NEW s \in ShardId
    PROVE  /\ NextSnapshot(s) \in Nat
           /\ root[s] # NoMeta => NextSnapshot(s) = root[s].seq + 1
<1>1. CASE root[s] = NoMeta
    BY <1>1 DEF NextSnapshot
<1>2. CASE root[s] # NoMeta
    <2>1. root[s].seq \in 0..MaxSeq
        BY <1>2, MetaNumbers DEF LogOK
    <2> QED BY <1>2, <2>1 DEF NextSnapshot
<1> QED BY <1>1, <1>2

\* A new snapshot clears the log.
LEMMA MetaOfSnapshot ==
    ASSUME NEW m, NEW pend, PlanBase(m, pend), NEW s \in Here(m),
           Does(m, pend, s) \in {"rewrite", "fallback"}
    PROVE  LET w == MetaIn(m, pend, s)
           IN  /\ w.seq = NextSnapshot(s) /\ w.has = FALSE /\ w # NoMeta
               /\ w.version <= MaxSeq /\ w.seq <= MaxSeq => MetaOK(w)
<1> DEFINE w == MetaIn(m, pend, s)
<1>0. s \in ShardId /\ m \in Catalogs /\ LogOK(root)
    BY HereFacts DEF PlanBase
<1>1. MetaOK(MetaOf(s)) /\ MetaOf(s).version \in Nat
    BY <1>0, MetaOfOK, MetaNumbers
<1>2. Len(pend[s]) \in Nat
    <2>1. pend[s] \in Pending
        BY <1>0 DEF PlanBase
    <2> QED BY <2>1, PendingCases
<1>3. \E v \in Nat : w = SnapshotMeta(s, v)
    <2>1. CASE Does(m, pend, s) = "fallback"
        <3>1. w = SnapshotMeta(s, MetaOf(s).version + Len(pend[s]))
            BY <2>1 DEF MetaIn, MetaFor
        <3> QED BY <1>1, <1>2, <3>1
    <2>2. CASE Does(m, pend, s) = "rewrite"
        <3>1. w = SnapshotMeta(s, MetaOf(s).version
                     + IF shard_snapshot_needs_rewrite(s, persistence_shards(m)[s]) THEN 1 ELSE 0)
            BY <2>2 DEF MetaIn, MetaFor
        <3> QED BY <1>1, <3>1
    <2> QED BY <2>1, <2>2
<1>4. PICK v \in Nat : w = SnapshotMeta(s, v)
    BY <1>3
<1>5. NextSnapshot(s) \in Nat
    BY <1>0, NextSnapshotIs
<1>6. ASSUME w.version <= MaxSeq, w.seq <= MaxSeq PROVE MetaOK(w)
    <2>1. v \in 0..MaxSeq /\ NextSnapshot(s) \in 0..MaxSeq /\ 0 \in 0..MaxSeq
        BY <1>4, <1>5, <1>6, BoundAssumption DEF SnapshotMeta
    <2>2. w \in ShardMeta
        BY <1>4, <2>1 DEF SnapshotMeta, ShardMeta
    <2> QED BY <1>4, <2>1, <2>2 DEF SnapshotMeta, MetaOK
<1>7. w # NoMeta
    <2> HIDE DEF w
    <2>1. w \in [version : Nat, base : Nat, last : Nat, seq : Nat, has : BOOLEAN, count : Nat]
        BY <1>4, <1>5 DEF SnapshotMeta
    <2> QED BY <2>1, NoneAssumption
<1> QED BY <1>4, <1>6, <1>7 DEF SnapshotMeta

LEMMA MaxPair ==
    ASSUME NEW a \in Int, NEW b \in Int
    PROVE  Max({a, b}) \in Int /\ Max({a, b}) >= a
<1>1. \E x \in {a, b} : \A y \in {a, b} : x >= y
    OBVIOUS
<1> QED BY <1>1 DEF Max

\* A recorded delta lengthens the log by one, below the limit.
LEMMA MetaOfDeltas ==
    ASSUME NEW m, NEW pend, PlanBase(m, pend), NEW s \in Here(m),
           Does(m, pend, s) = "deltas"
    PROVE  LET w == MetaIn(m, pend, s)
               o == MetaOf(s)
           IN  /\ w.seq = o.seq /\ w.base = o.base /\ w.count = o.count + 1
               /\ w.last = o.last + 1 /\ w.version = o.version + 1 /\ w.has = TRUE
               /\ w # NoMeta
               /\ w.version <= MaxSeq => MetaOK(w)
<1> DEFINE w == MetaIn(m, pend, s)
<1> DEFINE o == MetaOf(s)
<1>0. s \in ShardId /\ m \in Catalogs /\ LogOK(root)
    BY HereFacts DEF PlanBase
<1>1. MetaOK(o)
    BY <1>0, MetaOfOK
<1>2. Len(pend[s]) = 1 /\ ~pending_delta_chain_reaches_limit(o, 1)
    <2>1. pend[s] \in Pending
        BY <1>0 DEF PlanBase
    <2>2. pend[s] # << >> /\ ~pending_delta_chain_reaches_limit(o, Len(pend[s]))
        BY DecisionCases DEF Does
    <2>3. Len(pend[s]) = 1
        BY <2>1, <2>2, PendingCases
    <2> QED BY <2>2, <2>3
<1>3. w = [o EXCEPT !.version = @ + 1, !.last = o.version + 1, !.has = TRUE, !.count = @ + 1]
    BY <1>2 DEF MetaIn, MetaFor
<1> HIDE DEF o
<1>4. /\ o.version \in 0..MaxSeq /\ o.base \in 0..MaxSeq /\ o.last \in 0..MaxSeq
      /\ o.seq \in 0..MaxSeq /\ o.has \in BOOLEAN /\ o.count \in 0..MaxSeq
      /\ o.last = o.base + o.count /\ o.version = o.last /\ MaxSeq \in Nat /\ MAX_DELTAS \in Nat
    BY <1>1, MetaNumbers
<1>5. o \in ShardMeta
    BY <1>1 DEF MetaOK
<1>6. /\ w.seq = o.seq /\ w.base = o.base /\ w.count = o.count + 1
      /\ w.last = o.last + 1 /\ w.version = o.version + 1 /\ w.has = TRUE
    BY <1>3, <1>4, <1>5 DEF ShardMeta
<1>7. o.count + 1 < MAX_DELTAS
    <2> DEFINE b == IF o.has THEN o.last - o.base ELSE 0
    <2>1. b \in Int
        BY <1>4
    <2>2. ~(Max({o.count, b}) + 1 >= MAX_DELTAS)
        BY <1>2 DEF pending_delta_chain_reaches_limit
    <2> HIDE DEF b
    <2>3. Max({o.count, b}) \in Int /\ Max({o.count, b}) >= o.count
        BY <1>4, <2>1, MaxPair
    <2> QED BY <1>4, <2>2, <2>3
<1>8. ASSUME w.version <= MaxSeq PROVE MetaOK(w)
    <2>1. /\ o.version + 1 \in 0..MaxSeq /\ o.last + 1 \in 0..MaxSeq
          /\ o.count + 1 \in 0..MaxSeq
        BY <1>4, <1>6, <1>8
    <2>2. w \in ShardMeta
        BY <1>3, <1>4, <1>5, <2>1 DEF ShardMeta
    <2>3. w.count = w.last - w.base /\ w.version = w.last /\ w.last - w.base \in 1..(MAX_DELTAS - 1)
        BY <1>4, <1>6, <1>7
    <2> QED BY <1>6, <2>2, <2>3 DEF MetaOK
<1>9. w # NoMeta
    <2> HIDE DEF w
    <2>1. o \in [version : Nat, base : Nat, last : Nat, seq : Nat, has : BOOLEAN, count : Nat]
        BY <1>5 DEF ShardMeta
    <2>2. o.version + 1 \in Nat /\ o.count + 1 \in Nat
        BY <1>4
    <2>3. w \in [version : Nat, base : Nat, last : Nat, seq : Nat, has : BOOLEAN, count : Nat]
        BY <1>3, <2>1, <2>2
    <2> QED BY <2>3, NoneAssumption
<1> QED BY <1>6, <1>8, <1>9 DEF o

LEMMA MetaKept ==
    ASSUME NEW m, NEW pend, NEW s, Does(m, pend, s) \in {"keep", "refuse"}
    PROVE  MetaIn(m, pend, s) = MetaOf(s)
BY DEF MetaIn, MetaFor

LEMMA DoesCases ==
    ASSUME NEW m, NEW pend, NEW s
    PROVE  Does(m, pend, s) \in {"rewrite", "keep", "fallback", "refuse", "deltas"}
BY DecisionCases DEF Does

\* The metas of a plan describe their logs.
LEMMA SaveRootOK ==
    ASSUME NEW m, NEW pend, PlanBase(m, pend), NEW q, q = SavePlan(m, pend), WithinBounds(q.plan)
    PROVE  /\ q.plan.root \in RootIndex /\ LogOK(q.plan.root)
           /\ \A s \in ShardId : q.plan.root[s] # NoMeta <=> s \in Here(m)
           /\ \A s \in Here(m) : q.plan.root[s] = MetaIn(m, pend, s)
<1>0. m \in Catalogs /\ LogOK(root)
    BY DEF PlanBase
<1>1. q.plan.root = [s \in ShardId |-> IF s \in Here(m) THEN MetaIn(m, pend, s) ELSE NoMeta]
    BY SaveRootIs
<1>2. \A s \in Here(m) : q.plan.root[s] = MetaIn(m, pend, s) /\ s \in ShardId
    BY <1>0, <1>1, HereFacts
<1>3. ASSUME NEW s \in Here(m) PROVE MetaOK(MetaIn(m, pend, s)) /\ MetaIn(m, pend, s) # NoMeta
    <2> DEFINE w == MetaIn(m, pend, s)
    <2>0. s \in ShardId /\ (w # NoMeta => w.version <= MaxSeq /\ w.seq <= MaxSeq)
        BY <1>2 DEF WithinBounds
    <2>10. \A x : MetaOK(x) => x # NoMeta
        BY MetaIsMeta
    <2>1. CASE Does(m, pend, s) \in {"keep", "refuse"}
        <3>1. w = MetaOf(s)
            BY <2>1, MetaKept
        <3>2. MetaOK(w)
            BY <1>0, <2>0, <3>1, MetaOfOK
        <3> QED BY <2>10, <3>2
    <2>2. CASE Does(m, pend, s) \in {"rewrite", "fallback"}
        <3>0. w # NoMeta
            BY <2>2, MetaOfSnapshot
        <3>1. MetaOK(w)
            BY <2>0, <2>2, <3>0, MetaOfSnapshot
        <3> QED BY <2>10, <3>1
    <2>3. CASE Does(m, pend, s) = "deltas"
        <3>0. w # NoMeta
            BY <2>3, MetaOfDeltas
        <3>1. MetaOK(w)
            BY <2>0, <2>3, <3>0, MetaOfDeltas
        <3> QED BY <2>10, <3>1
    <2> QED BY <2>1, <2>2, <2>3, DoesCases
<1>4. LogOK(q.plan.root)
    BY <1>1, <1>3 DEF LogOK
<1>5. q.plan.root \in RootIndex
    BY <1>1, <1>3 DEF RootIndex, MetaOK
<1> QED BY <1>1, <1>2, <1>3, <1>4, <1>5

LEMMA MetaSpan ==
    ASSUME NEW s, NEW m, MetaOK(m)
    PROVE  /\ \A n : Snapshot(s, n) \in chunks_for_meta(s, m) => n = m.seq
           /\ \A n \in Nat : Delta(s, n) \in chunks_for_meta(s, m) => m.has /\ n <= m.last
<1> USE MetaNumbers
<1>1. ASSUME NEW n, Snapshot(s, n) \in chunks_for_meta(s, m) PROVE n = m.seq
    BY <1>1 DEF chunks_for_meta, Snapshot, Delta
<1>2. ASSUME NEW n \in Nat, Delta(s, n) \in chunks_for_meta(s, m) PROVE m.has /\ n <= m.last
    <2>1. m.has /\ \E k \in (m.base + 1)..m.last : Delta(s, n) = Delta(s, k)
        BY <1>2 DEF chunks_for_meta, Snapshot, Delta
    <2> QED BY <2>1 DEF Delta
<1> QED BY <1>1, <1>2

SaveHyp(m, pend, q) == PlanBase(m, pend) /\ q = SavePlan(m, pend) /\ WithinBounds(q.plan)

\* The chunks a save writes: the next snapshot of a shard, or the next delta of its log.
LEMMA SaveNew ==
    ASSUME NEW m, NEW pend, NEW q, SaveHyp(m, pend, q), NEW c \in C!New(q.plan)
    PROVE  \E s \in Here(m) :
             \/ /\ Writes(m, pend, s) /\ Does(m, pend, s) \in {"rewrite", "fallback"}
                /\ c = Snapshot(s, q.plan.root[s].seq) /\ q.plan.root[s].seq = NextSnapshot(s)
                /\ q.plan.val[c] = persistence_shards(m)[s]
             \/ /\ Does(m, pend, s) = "deltas" /\ ~IsRefused(m, pend)
                /\ c = Delta(s, q.plan.root[s].last) /\ q.plan.root[s].last = MetaOf(s).last + 1
                /\ q.plan.val[c] = pend[s][1] /\ pend[s][1] \in DeltaEntry
<1>0. PlanBase(m, pend) /\ q = SavePlan(m, pend) /\ WithinBounds(q.plan) /\ m \in Catalogs
    BY DEF SaveHyp, PlanBase
<1>1. c \in Chunk /\ q.plan.val[c] # Absent
    BY DEF C!New
<1>2. PICK s \in ShardId, n \in 0..MaxSeq : c = Snapshot(s, n) \/ c = Delta(s, n)
    BY <1>1, ChunkKinds
<1>3. \A t \in Here(m) : q.plan.root[t] = MetaIn(m, pend, t)
    BY <1>0, SaveRootOK
<1>4. CASE c = Snapshot(s, n)
    <2>1. /\ s \in Here(m) /\ Writes(m, pend, s) /\ n = q.plan.root[s].seq
          /\ q.plan.val[c] = persistence_shards(m)[s]
        BY <1>0, <1>1, <1>4, SaveValSnapshot
    <2>2. Does(m, pend, s) \in {"rewrite", "fallback"}
        BY <2>1 DEF Writes
    <2>3. q.plan.root[s].seq = NextSnapshot(s)
        BY <1>0, <1>3, <2>1, <2>2, MetaOfSnapshot
    <2> QED BY <1>4, <2>1, <2>2, <2>3
<1>5. CASE c = Delta(s, n)
    <2>1. /\ s \in Here(m) /\ Does(m, pend, s) = "deltas" /\ ~IsRefused(m, pend)
          /\ n \in (MetaOf(s).version + 1)..q.plan.root[s].version
          /\ q.plan.val[c] = pend[s][n - MetaOf(s).version]
        BY <1>0, <1>1, <1>5, SaveValDelta
    <2>2. /\ q.plan.root[s].version = MetaOf(s).version + 1
          /\ q.plan.root[s].last = MetaOf(s).last + 1
        <3>1. /\ MetaIn(m, pend, s).version = MetaOf(s).version + 1
              /\ MetaIn(m, pend, s).last = MetaOf(s).last + 1
            BY <1>0, <2>1, MetaOfDeltas
        <3> QED BY <1>3, <2>1, <3>1
    <2>3. MetaOf(s).version = MetaOf(s).last /\ MetaOf(s).last \in Nat
        BY <1>0, MetaOfOK, MetaNumbers DEF PlanBase
    <2>4. n = q.plan.root[s].last /\ n - MetaOf(s).version = 1
        BY <2>1, <2>2, <2>3
    <2>5. pend[s] \in Pending /\ pend[s] # << >>
        BY <1>0, <2>1, DecisionCases DEF PlanBase, Does
    <2>6. pend[s][1] \in DeltaEntry
        BY <2>5, PendingCases
    <2> QED BY <1>5, <2>1, <2>2, <2>4, <2>6
<1> QED BY <1>2, <1>4, <1>5

LEMMA SaveType ==
    ASSUME NEW m, NEW pend, NEW q, SaveHyp(m, pend, q)
    PROVE  /\ q.plan \in C!Plan /\ q.plan.val \in Contents /\ q.plan.staged
           /\ q.first \subseteq Chunk /\ q.refused \in BOOLEAN /\ q.refused = IsRefused(m, pend)
<1>0. PlanBase(m, pend) /\ q = SavePlan(m, pend) /\ WithinBounds(q.plan) /\ m \in Catalogs /\ LogOK(root)
    BY DEF SaveHyp, PlanBase
<1>1. q.plan.root \in RootIndex /\ LogOK(q.plan.root)
    BY <1>0, SaveRootOK
<1>2. q.plan.val = [c \in Chunk |-> q.plan.val[c]]
    BY <1>0, SaveValIs
<1>3. ASSUME NEW s \in ShardId, NEW n \in 0..MaxSeq
      PROVE  q.plan.val[Snapshot(s, n)] \in Shard \cup {Absent}
    <2>1. \A t \in Here(m) : persistence_shards(m)[t] \in Shard
        BY <1>0, HereFacts
    <2>2. CASE q.plan.val[Snapshot(s, n)] = Absent
        BY <2>2
    <2>3. CASE q.plan.val[Snapshot(s, n)] # Absent
        <3>1. Snapshot(s, n) \in C!New(q.plan)
            BY <2>3, ChunkOf DEF C!New
        <3>2. \A t, k : Snapshot(s, n) # Delta(t, k)
            BY DEF Snapshot, Delta
        <3> QED BY <2>1, <3>1, <3>2, SaveNew
    <2> QED BY <2>2, <2>3
<1>4. ASSUME NEW s \in ShardId, NEW n \in 0..MaxSeq
      PROVE  q.plan.val[Delta(s, n)] \in DeltaEntry \cup {Absent}
    <2>1. CASE q.plan.val[Delta(s, n)] = Absent
        BY <2>1
    <2>2. CASE q.plan.val[Delta(s, n)] # Absent
        <3>1. Delta(s, n) \in C!New(q.plan)
            BY <2>2, ChunkOf DEF C!New
        <3>2. \A t, k : Delta(s, n) # Snapshot(t, k)
            BY DEF Snapshot, Delta
        <3> QED BY <3>1, <3>2, SaveNew
    <2> QED BY <2>1, <2>2
<1>5. \A c \in Chunk : q.plan.val[c] \in Shard \cup DeltaEntry \cup {Absent}
    BY <1>3, <1>4, ChunkKinds
<1>6. q.plan.val \in [Chunk -> Shard \cup DeltaEntry \cup {Absent}]
    BY <1>2, <1>5
<1>7. q.plan.val \in Contents
    BY <1>3, <1>4, <1>6 DEF Contents
<1>8. q.plan.old \subseteq Chunk
    <2> SUFFICES ASSUME NEW c \in q.plan.old PROVE c \in Chunk
        OBVIOUS
    <2>1. PICK s \in ShardId : c \in OldChunks(s)
        BY <1>0, SaveOld
    <2>2. root[s] # NoMeta /\ c \in chunks_for_meta(s, root[s])
        BY <2>1 DEF OldChunks
    <2> QED BY <1>0, <2>2, ChunksOfMeta DEF LogOK
<1>9. q.plan = [val |-> q.plan.val, old |-> q.plan.old, root |-> q.plan.root, staged |-> TRUE]
    BY <1>0, SaveShape
<1>10. q.plan \in C!Plan /\ q.plan.staged
    <2>1. q.plan.staged = TRUE
        BY <1>9
    <2> QED BY <1>1, <1>6, <1>8, <1>9, <2>1 DEF C!Plan
<1>11. q.first \subseteq Chunk
    <2>1. \A c \in q.first : \E s \in Here(m) : c = Snapshot(s, q.plan.root[s].seq)
        BY <1>0, SaveFirst
    <2>2. \A s \in Here(m) : Snapshot(s, q.plan.root[s].seq) \in Chunk
        <3> SUFFICES ASSUME NEW s \in Here(m) PROVE Snapshot(s, q.plan.root[s].seq) \in Chunk
            OBVIOUS
        <3>1. s \in ShardId /\ q.plan.root[s] # NoMeta
            BY <1>0, HereFacts, SaveRootOK
        <3>2. q.plan.root[s].seq \in 0..MaxSeq
            BY <1>1, <3>1, MetaNumbers DEF LogOK
        <3> QED BY <3>1, <3>2, ChunkOf
    <2> QED BY <2>1, <2>2
<1>12. q.refused = IsRefused(m, pend) /\ q.refused \in BOOLEAN
    <2>1. q.refused = IsRefused(m, pend)
        BY <1>0, SaveRefused
    <2>2. IsRefused(m, pend) \in BOOLEAN
        BY DEF IsRefused
    <2> QED BY <2>1, <2>2
<1> QED BY <1>7, <1>10, <1>11, <1>12

\* A save writes over nothing in use and nothing it will not refer to, and gives up
\* nothing it still refers to.
LEMMA SaveApart ==
    ASSUME NEW m, NEW pend, NEW q, SaveHyp(m, pend, q)
    PROVE  /\ C!New(q.plan) \cap Refs(root) = {}
           /\ C!New(q.plan) \subseteq Refs(q.plan.root)
           /\ q.plan.old \cap Refs(q.plan.root) = {}
<1>0. PlanBase(m, pend) /\ q = SavePlan(m, pend) /\ WithinBounds(q.plan) /\ m \in Catalogs /\ LogOK(root)
    BY DEF SaveHyp, PlanBase
<1>1. /\ LogOK(q.plan.root)
      /\ \A s \in ShardId : q.plan.root[s] # NoMeta <=> s \in Here(m)
      /\ \A s \in Here(m) : s \in ShardId /\ q.plan.root[s] = MetaIn(m, pend, s)
    BY <1>0, SaveRootOK, HereFacts
<1>2. ASSUME NEW c \in C!New(q.plan) PROVE c \notin Refs(root) /\ c \in Refs(q.plan.root)
    <2>1. PICK s \in Here(m) :
             \/ /\ c = Snapshot(s, q.plan.root[s].seq) /\ q.plan.root[s].seq = NextSnapshot(s)
             \/ /\ c = Delta(s, q.plan.root[s].last) /\ q.plan.root[s].last = MetaOf(s).last + 1
                /\ Does(m, pend, s) = "deltas"
        BY <1>2, SaveNew
    <2>2. s \in ShardId /\ MetaOK(q.plan.root[s]) /\ c[2] = s
        BY <1>1, <2>1 DEF LogOK, Snapshot, Delta
    <2>3. c \in chunks_for_meta(s, q.plan.root[s])
        <3>1. CASE c = Snapshot(s, q.plan.root[s].seq)
            BY <2>2, <3>1, MetaChunks
        <3>2. CASE c = Delta(s, q.plan.root[s].last) /\ Does(m, pend, s) = "deltas"
            <4> DEFINE w == q.plan.root[s]
            <4>1. w.last = w.base + w.count /\ w.count \in Nat
                BY <2>2, MetaNumbers
            <4>2. w.has = TRUE
                <5>1. MetaIn(m, pend, s).has = TRUE
                    BY <1>0, <3>2, MetaOfDeltas
                <5> QED BY <1>1, <5>1
            <4>3. w.count \in 1..w.count
                BY <2>2, <4>1, <4>2, MetaNumbers
            <4> QED BY <2>2, <3>2, <4>1, <4>3, MetaChunks
        <3> QED BY <2>1, <3>1, <3>2
    <2>4. c \in Refs(q.plan.root)
        BY <1>1, <2>1, <2>2, <2>3, RefsByShard
    <2>5. ASSUME c \in Refs(root) PROVE FALSE
        <3>1. root[s] # NoMeta /\ c \in chunks_for_meta(s, root[s]) /\ MetaOK(root[s])
            BY <1>0, <2>2, <2>5, RefsByShard DEF LogOK
        <3>2. CASE c = Snapshot(s, q.plan.root[s].seq) /\ q.plan.root[s].seq = NextSnapshot(s)
            <4>1. NextSnapshot(s) = root[s].seq + 1
                BY <1>0, <2>2, <3>1, NextSnapshotIs
            <4>2. NextSnapshot(s) = root[s].seq
                BY <3>1, <3>2, MetaSpan
            <4>3. root[s].seq \in Nat
                BY <3>1, MetaNumbers
            <4> QED BY <4>1, <4>2, <4>3
        <3>3. CASE c = Delta(s, q.plan.root[s].last) /\ q.plan.root[s].last = MetaOf(s).last + 1
            <4>1. MetaOf(s) = root[s] /\ root[s].last \in Nat
                BY <3>1, MetaNumbers DEF MetaOf
            <4>2. root[s].last + 1 <= root[s].last
                BY <3>1, <3>3, <4>1, MetaSpan
            <4> QED BY <4>1, <4>2
        <3> QED BY <2>1, <3>2, <3>3
    <2> QED BY <2>4, <2>5
<1>3. ASSUME NEW c \in q.plan.old, c \in Refs(q.plan.root) PROVE FALSE
    <2>1. PICK s \in ShardId : /\ c \in OldChunks(s)
                               /\ s \notin Here(m) \/ Does(m, pend, s) \in {"rewrite", "fallback"}
        BY <1>0, <1>3, SaveOld
    <2>2. root[s] # NoMeta /\ c \in chunks_for_meta(s, root[s]) /\ MetaOK(root[s])
        BY <1>0, <2>1 DEF OldChunks, LogOK
    <2>3. c[2] = s
        BY <2>2, ChunksOfMeta
    <2>4. q.plan.root[s] # NoMeta /\ c \in chunks_for_meta(s, q.plan.root[s]) /\ MetaOK(q.plan.root[s])
        BY <1>1, <1>3, <2>3, RefsByShard DEF LogOK
    <2>5. s \in Here(m) /\ Does(m, pend, s) \in {"rewrite", "fallback"}
        BY <1>1, <2>1, <2>4
    <2>6. q.plan.root[s].seq = NextSnapshot(s) /\ q.plan.root[s].has = FALSE
        BY <1>0, <1>1, <2>5, MetaOfSnapshot
    <2>7. c = Snapshot(s, NextSnapshot(s))
        BY <2>4, <2>6 DEF chunks_for_meta
    <2>8. NextSnapshot(s) = root[s].seq + 1 /\ root[s].seq \in Nat
        BY <1>0, <2>2, NextSnapshotIs, MetaNumbers
    <2>9. NextSnapshot(s) = root[s].seq
        BY <2>2, <2>7, MetaSpan
    <2> QED BY <2>8, <2>9
<1> QED BY <1>2, <1>3

\* The chunks once everything a plan writes is written.
Over(d, p) == [c \in Chunk |-> IF p.val[c] # Absent THEN p.val[c] ELSE d[c]]

GoodAt(d, r) ==
    \A s \in ShardId : r[s] # NoMeta => load_full_shard_from_meta(d, s, r[s]) # Failure

LoadedBy(m, pend, q, s) ==
    /\ load_full_shard_from_meta(Over(disk, q.plan), s, q.plan.root[s]) # Failure
    /\ pend[s] # << >> \/ Does(m, pend, s) # "keep" =>
         load_full_shard_from_meta(Over(disk, q.plan), s, q.plan.root[s]) = persistence_shards(m)[s]
    /\ root[s] # NoMeta =>
         chunks_for_meta(s, q.plan.root[s]) \subseteq chunks_for_meta(s, root[s]) \cup C!New(q.plan)

LEMMA SaveLoadsSnapshot ==
    ASSUME NEW m, NEW pend, NEW q, SaveHyp(m, pend, q), ~IsRefused(m, pend), NEW s \in Here(m),
           Does(m, pend, s) \in {"rewrite", "fallback"}
    PROVE  LoadedBy(m, pend, q, s)
<1> DEFINE w == q.plan.root[s]
<1> DEFINE c == Snapshot(s, w.seq)
<1>0. PlanBase(m, pend) /\ q = SavePlan(m, pend) /\ WithinBounds(q.plan) /\ m \in Catalogs /\ LogOK(root)
    BY DEF SaveHyp, PlanBase
<1>1. s \in ShardId /\ persistence_shards(m)[s] \in Shard
    BY <1>0, HereFacts
<1>2. MetaOK(w) /\ w = MetaIn(m, pend, s)
    BY <1>0, <1>1, SaveRootOK DEF LogOK
<1>3. ~w.has
    BY <1>0, <1>2, MetaOfSnapshot
<1>4. w.seq \in 0..MaxSeq /\ c \in Chunk
    BY <1>1, <1>2, MetaNumbers, ChunkOf
<1>5. q.plan.val[c] = persistence_shards(m)[s]
    BY <1>0, <1>1, <1>4, SaveValSnapshot DEF Writes
<1>6. q.plan.val[c] # Absent /\ persistence_shards(m)[s] # Failure
    BY <1>1, <1>5, ContentAssumption
<1>7. Over(disk, q.plan)[c] = persistence_shards(m)[s] /\ c \in C!New(q.plan)
    BY <1>4, <1>5, <1>6 DEF Over, C!New
<1>8. load_full_shard_from_meta(Over(disk, q.plan), s, w) = persistence_shards(m)[s]
    BY <1>2, <1>3, <1>5, <1>6, <1>7, LoadPlain
<1>9. chunks_for_meta(s, w) \subseteq C!New(q.plan)
    BY <1>3, <1>7 DEF chunks_for_meta
<1> QED BY <1>6, <1>8, <1>9 DEF LoadedBy

\* A shard that gets no snapshot keeps the chunks it has.
LEMMA SaveLeaves ==
    ASSUME NEW m, NEW pend, NEW q, SaveHyp(m, pend, q), NEW s \in Here(m),
           Does(m, pend, s) \in {"keep", "deltas"}, NEW c \in chunks_for_meta(s, MetaOf(s))
    PROVE  c \in Chunk /\ c \notin C!New(q.plan) /\ Over(disk, q.plan)[c] = disk[c]
<1>0. PlanBase(m, pend) /\ m \in Catalogs /\ LogOK(root) /\ s \in ShardId
    BY HereFacts DEF SaveHyp, PlanBase
<1>1. MetaOK(MetaOf(s))
    BY <1>0, MetaOfOK
<1>2. c \in Chunk /\ c[2] = s
    BY <1>0, <1>1, ChunksOfMeta
<1>3. ASSUME c \in C!New(q.plan) PROVE FALSE
    <2>1. PICK t \in Here(m) :
             \/ Does(m, pend, t) \in {"rewrite", "fallback"} /\ c = Snapshot(t, q.plan.root[t].seq)
             \/ c = Delta(t, q.plan.root[t].last) /\ q.plan.root[t].last = MetaOf(t).last + 1
        BY <1>3, SaveNew
    <2>2. t = s
        BY <1>2, <2>1 DEF Snapshot, Delta
    <2>3. c = Delta(s, MetaOf(s).last + 1)
        BY <2>1, <2>2
    <2>4. MetaOf(s).last \in Nat
        BY <1>1, MetaNumbers
    <2>5. MetaOf(s).last + 1 <= MetaOf(s).last
        BY <1>1, <2>3, <2>4, MetaSpan
    <2> QED BY <2>4, <2>5
<1> QED BY <1>2, <1>3 DEF Over, C!New

LEMMA SaveLoadsKept ==
    ASSUME NEW m, NEW pend, NEW q, SaveHyp(m, pend, q), GoodAt(disk, root), NEW s \in Here(m),
           Does(m, pend, s) = "keep"
    PROVE  LoadedBy(m, pend, q, s)
<1> DEFINE o == MetaOf(s)
<1>0. PlanBase(m, pend) /\ q = SavePlan(m, pend) /\ WithinBounds(q.plan) /\ m \in Catalogs
      /\ LogOK(root) /\ s \in ShardId /\ disk \in Contents
    BY HereFacts DEF SaveHyp, PlanBase
<1>1. MetaOK(o) /\ q.plan.root[s] = o
    BY <1>0, MetaOfOK, SaveRootOK, MetaKept
<1>2. pend[s] = << >> /\ disk[Snapshot(s, o.seq)] # Absent
    BY DecisionCases DEF Does, NeedsWrite, SnapshotOnDisk
<1>3. load_full_shard_from_meta(disk, s, o) # Failure
    <2>1. CASE root[s] # NoMeta
        BY <1>0, <2>1 DEF GoodAt, MetaOf
    <2>2. CASE root[s] = NoMeta
        <3>1. o = NewMeta /\ ~o.has
            BY <2>2, NewMetaOK DEF MetaOf
        <3>2. load_full_shard_from_meta(disk, s, o) = disk[Snapshot(s, o.seq)]
            BY <1>1, <1>2, <3>1, LoadPlain
        <3>3. o.seq \in 0..MaxSeq
            BY <1>1, MetaNumbers
        <3>4. disk[Snapshot(s, o.seq)] \in Shard
            BY <1>0, <1>2, <3>3 DEF Contents
        <3> QED BY <3>2, <3>4, ContentAssumption
    <2> QED BY <2>1, <2>2
<1>4. load_full_shard_from_meta(Over(disk, q.plan), s, o) = load_full_shard_from_meta(disk, s, o)
    BY <1>1, SaveLeaves, LoadFrame
<1>5. root[s] # NoMeta => o = root[s]
    BY DEF MetaOf
<1>6. Does(m, pend, s) = "keep"
    OBVIOUS
<1> QED BY <1>1, <1>2, <1>3, <1>4, <1>5, <1>6 DEF LoadedBy

LEMMA SaveLoadsDeltas ==
    ASSUME NEW m, NEW pend, NEW q, SaveHyp(m, pend, q), ~IsRefused(m, pend), NEW s \in Here(m),
           Does(m, pend, s) = "deltas"
    PROVE  LoadedBy(m, pend, q, s)
<1> DEFINE o == MetaOf(s)
<1> DEFINE w == q.plan.root[s]
<1> DEFINE e == Over(disk, q.plan)
<1> DEFINE c == Delta(s, w.last)
<1> DEFINE sh == persistence_shards(m)[s]
<1>0. PlanBase(m, pend) /\ q = SavePlan(m, pend) /\ WithinBounds(q.plan) /\ m \in Catalogs
      /\ LogOK(root) /\ s \in ShardId /\ sh \in Shard
    BY HereFacts DEF SaveHyp, PlanBase
<1>1. MetaOK(o) /\ MetaOK(w) /\ w = MetaIn(m, pend, s)
    BY <1>0, MetaOfOK, SaveRootOK DEF LogOK
<1>2. /\ w.seq = o.seq /\ w.base = o.base /\ w.count = o.count + 1
      /\ w.last = o.last + 1 /\ w.version = o.version + 1
    <2>1. LET x == MetaIn(m, pend, s) IN
          /\ x.seq = MetaOf(s).seq /\ x.base = MetaOf(s).base /\ x.count = MetaOf(s).count + 1
          /\ x.last = MetaOf(s).last + 1 /\ x.version = MetaOf(s).version + 1
        BY <1>0, MetaOfDeltas
    <2> QED BY <1>1, <2>1
<1>3. /\ pend[s] # << >> /\ load_full_shard_from_meta(disk, s, o) # Failure
      /\ apply_deltas(load_full_shard_from_meta(disk, s, o), pend[s]) = sh
    BY DecisionCases DEF Does, Replayed
<1>4. pend[s] = <<pend[s][1]>> /\ pend[s][1] \in DeltaEntry
    <2>1. pend[s] \in Pending
        BY <1>0 DEF PlanBase
    <2> QED BY <1>3, <2>1, PendingCases
<1>5. \A x \in chunks_for_meta(s, o) : e[x] = disk[x] /\ disk[x] # Absent
    BY <1>3, SaveLeaves, LoadPresent
<1>6. /\ w.last \in 0..MaxSeq /\ w.version = w.last /\ o.version = o.last /\ o.last \in Nat
    BY <1>1, MetaNumbers
<1>7. c \in Chunk /\ q.plan.val[c] = pend[s][1]
    <2>1. w.last \in (o.version + 1)..w.version /\ w.last - o.version = 1
        BY <1>2, <1>6
    <2>2. q.plan.val[c] = pend[s][w.last - o.version]
        BY <1>0, <1>6, <2>1, SaveValDelta
    <2> QED BY <1>0, <1>6, <2>1, <2>2, ChunkOf
<1>8. e[c] = pend[s][1] /\ e[c] # Absent /\ c \in C!New(q.plan)
    BY <1>4, <1>7, ContentAssumption DEF Over, C!New
<1>9. load_full_shard_from_meta(e, s, w) = apply_delta(load_full_shard_from_meta(disk, s, o), e[c])
    <2> HIDE DEF o, w, e
    <2> QED BY <1>1, <1>2, <1>5, <1>8, LoadAppend
<1>10. load_full_shard_from_meta(e, s, w) = sh
    <2>1. apply_deltas(load_full_shard_from_meta(disk, s, o), pend[s])
            = apply_delta(load_full_shard_from_meta(disk, s, o), pend[s][1])
        <3> DEFINE x == pend[s][1]
        <3> HIDE DEF x
        <3>1. pend[s] = <<x>>
            BY <1>4 DEF x
        <3>2. apply_deltas(load_full_shard_from_meta(disk, s, o), <<x>>)
                = apply_delta(load_full_shard_from_meta(disk, s, o), x)
            BY ReplayOne
        <3> QED BY <3>1, <3>2 DEF x
    <2> QED BY <1>3, <1>8, <1>9, <2>1
<1>11. ASSUME root[s] # NoMeta, NEW x \in chunks_for_meta(s, w)
       PROVE  x \in chunks_for_meta(s, root[s]) \cup C!New(q.plan)
    <2>0. o = root[s]
        BY <1>11 DEF MetaOf
    <2>1. CASE x = Snapshot(s, w.seq)
        BY <1>1, <1>2, <2>0, <2>1, MetaChunks
    <2>2. CASE x # Snapshot(s, w.seq)
        <3>1. PICK i \in 1..w.count : x = Delta(s, w.base + i)
            BY <1>1, <1>11, <2>2, MetaChunks
        <3>2. o.count \in Nat /\ w.last = w.base + w.count
            BY <1>1, MetaNumbers
        <3>3. i \in 1..o.count \/ i = w.count
            BY <1>2, <3>1, <3>2
        <3>4. CASE i \in 1..o.count
            BY <1>1, <1>2, <2>0, <3>1, <3>4, MetaChunks
        <3>5. CASE i = w.count
            BY <1>8, <3>1, <3>2, <3>5
        <3> QED BY <3>3, <3>4, <3>5
    <2> QED BY <2>1, <2>2
<1>12. sh # Failure
    BY <1>0, ContentAssumption
<1> QED BY <1>10, <1>11, <1>12 DEF LoadedBy

\* The catalog of a plan loads, and a shard with a delta loads as it is in memory.
LEMMA SaveLoads ==
    ASSUME NEW m, NEW pend, NEW q, SaveHyp(m, pend, q), GoodAt(disk, root), ~IsRefused(m, pend),
           NEW s \in Here(m)
    PROVE  LoadedBy(m, pend, q, s)
<1>1. Does(m, pend, s) # "refuse"
    BY DEF IsRefused
<1> QED BY <1>1, DoesCases, SaveLoadsSnapshot, SaveLoadsKept, SaveLoadsDeltas

\* What an unlock loads depends on the chunks the root index refers to.
LEMMA CatalogFrame ==
    ASSUME NEW d, NEW e, NEW r, LogOK(r), \A c \in Refs(r) : e[c] = d[c]
    PROVE  /\ \A s \in ShardId : r[s] # NoMeta =>
                load_full_shard_from_meta(e, s, r[s]) = load_full_shard_from_meta(d, s, r[s])
           /\ try_load_sharded_catalog(e, r) = try_load_sharded_catalog(d, r)
           /\ GoodAt(d, r) => GoodAt(e, r)
<1>1. ASSUME NEW s \in ShardId, r[s] # NoMeta
      PROVE  load_full_shard_from_meta(e, s, r[s]) = load_full_shard_from_meta(d, s, r[s])
    <2>1. MetaOK(r[s])
        BY <1>1 DEF LogOK
    <2>2. \A c \in chunks_for_meta(s, r[s]) : e[c] = d[c]
        BY <1>1, RefsByShard
    <2> QED BY <2>1, <2>2, LoadFrame
<1>2. try_load_sharded_catalog(e, r) = try_load_sharded_catalog(d, r)
    BY <1>1 DEF try_load_sharded_catalog
<1>3. GoodAt(d, r) => GoodAt(e, r)
    BY <1>1 DEF GoodAt
<1> QED BY <1>1, <1>2, <1>3

LEMMA OverApart ==
    ASSUME NEW p, NEW r, LogOK(r), C!New(p) \cap Refs(r) = {}
    PROVE  \A c \in Refs(r) : Over(disk, p)[c] = disk[c]
BY RefsByShard DEF Over, C!New

LEMMA LoadIn ==
    ASSUME NEW d, NEW r, LogOK(r), NEW s \in ShardId
    PROVE  try_load_sharded_catalog(d, r)[s] =
             IF r[s] = NoMeta THEN NoShard ELSE load_full_shard_from_meta(d, s, r[s])
<1>1. CASE r[s] = NoMeta
    BY <1>1 DEF try_load_sharded_catalog
<1>2. CASE r[s] # NoMeta
    <2>1. MetaOK(r[s])
        BY <1>2 DEF LogOK
    <2>2. ~(r[s].has /\ r[s].last - r[s].base > MAX_DELTAS)
        BY <2>1, MetaNumbers
    <2> QED BY <1>2, <2>2 DEF try_load_sharded_catalog
<1> QED BY <1>1, <1>2

\* What an unlock loads is a catalog, but for the shards it cannot load.
LEMMA LoadedType ==
    ASSUME NEW d \in Contents, NEW r, LogOK(r), NEW s \in ShardId,
           try_load_sharded_catalog(d, r)[s] # Failure
    PROVE  /\ try_load_sharded_catalog(d, r)[s] \in Shard \cup {NoShard}
           /\ try_load_sharded_catalog(d, r)[s] # NoShard <=> r[s] # NoMeta
<1>1. CASE r[s] = NoMeta
    BY <1>1, LoadIn
<1>2. CASE r[s] # NoMeta
    <2>1. MetaOK(r[s])
        BY <1>2 DEF LogOK
    <2>2. load_full_shard_from_meta(d, s, r[s]) \in Shard \cup {Failure}
        BY <2>1, LoadType
    <2> QED BY <1>2, <2>2, LoadIn, ContentAssumption
<1> QED BY <1>1, <1>2

(***************************************************************************)
(* What a compaction plans.                                                 *)
(***************************************************************************)
CompactHyp(s, r, q) ==
    /\ disk \in Contents /\ r \in RootIndex /\ LogOK(r) /\ s \in ShardId /\ r[s] # NoMeta
    /\ q = CompactPlan(s, r) /\ WithinBounds(q.plan) /\ ~q.refused

CompactMeta(s, r) ==
    [version |-> r[s].version, base |-> r[s].version, last |-> r[s].version,
     seq |-> r[s].seq + 1, has |-> FALSE, count |-> 0]

LEMMA CompactIs ==
    ASSUME NEW s, NEW r, NEW q, CompactHyp(s, r, q)
    PROVE  LET shard == load_full_shard_from_meta(disk, s, r[s])
               c == Snapshot(s, r[s].seq + 1)
           IN /\ q.plan = [val |-> [x \in Chunk |-> IF x = c THEN shard ELSE Absent],
                           old |-> chunks_for_meta(s, r[s]),
                           root |-> [r EXCEPT ![s] = CompactMeta(s, r)], staged |-> TRUE]
              /\ shard \in Shard /\ c \in Chunk /\ q.first = {} /\ q.refused = FALSE
              /\ MetaOK(CompactMeta(s, r)) /\ MetaOK(r[s]) /\ C!New(q.plan) = {c}
<1> DEFINE shard == load_full_shard_from_meta(disk, s, r[s])
<1> DEFINE c == Snapshot(s, r[s].seq + 1)
<1> DEFINE w == CompactMeta(s, r)
<1>0. /\ disk \in Contents /\ r \in RootIndex /\ LogOK(r) /\ s \in ShardId /\ r[s] # NoMeta
      /\ q = CompactPlan(s, r) /\ WithinBounds(q.plan) /\ ~q.refused
    BY DEF CompactHyp
<1>1. q.plan = [val |-> [x \in Chunk |-> IF x = c THEN shard ELSE Absent],
                old |-> chunks_for_meta(s, r[s]),
                root |-> [r EXCEPT ![s] = w], staged |-> TRUE]
    BY <1>0 DEF CompactPlan, CompactMeta
<1>2. q.first = {} /\ q.refused = (shard = Failure)
    BY <1>0 DEF CompactPlan
<1>3. MetaOK(r[s])
    BY <1>0 DEF LogOK
<1>4. r[s].version \in 0..MaxSeq /\ r[s].seq \in 0..MaxSeq /\ MaxSeq \in Nat
    BY <1>3, MetaNumbers
<1>5. q.plan.root = [r EXCEPT ![s] = w]
    BY <1>1
<1>6. q.plan.root[s] = w
    BY <1>0, <1>5 DEF RootIndex
<1>7. w # NoMeta
    <2>1. w \in [version : Nat, base : Nat, last : Nat, seq : Nat, has : BOOLEAN, count : Nat]
        BY <1>4 DEF CompactMeta
    <2> QED BY <2>1, NoneAssumption
<1>8. w.seq <= MaxSeq
    BY <1>0, <1>6, <1>7 DEF WithinBounds
<1>9. r[s].seq + 1 \in 0..MaxSeq
    BY <1>4, <1>8 DEF CompactMeta
<1>10. c \in Chunk
    BY <1>0, <1>9, ChunkOf
<1>11. MetaOK(w)
    BY <1>4, <1>9 DEF CompactMeta, MetaOK, ShardMeta
<1>12. shard \in Shard
    <2>1. shard \in Shard \cup {Failure}
        BY <1>0, <1>3, LoadType
    <2> QED BY <1>0, <1>2, <2>1
<1>13. C!New(q.plan) = {c}
    <2>1. \A x \in Chunk : q.plan.val[x] = IF x = c THEN shard ELSE Absent
        BY <1>1
    <2> QED BY <1>10, <1>12, <2>1, ContentAssumption DEF C!New
<1>14. q.refused = FALSE
    BY <1>2, <1>12, ContentAssumption
<1> QED BY <1>1, <1>2, <1>3, <1>10, <1>11, <1>12, <1>13, <1>14

LEMMA CompactType ==
    ASSUME NEW s, NEW r, NEW q, CompactHyp(s, r, q)
    PROVE  /\ q.plan \in C!Plan /\ q.plan.val \in Contents /\ q.plan.staged
           /\ q.first \subseteq Chunk /\ q.refused \in BOOLEAN
           /\ q.plan.root \in RootIndex /\ LogOK(q.plan.root)
           /\ \A t \in ShardId : q.plan.root[t] # NoMeta <=> r[t] # NoMeta
<1> DEFINE shard == load_full_shard_from_meta(disk, s, r[s])
<1> DEFINE c == Snapshot(s, r[s].seq + 1)
<1> DEFINE w == CompactMeta(s, r)
<1>0. r \in RootIndex /\ LogOK(r) /\ s \in ShardId /\ r[s] # NoMeta
    BY DEF CompactHyp
<1>1. /\ q.plan = [val |-> [x \in Chunk |-> IF x = c THEN shard ELSE Absent],
                   old |-> chunks_for_meta(s, r[s]), root |-> [r EXCEPT ![s] = w], staged |-> TRUE]
      /\ shard \in Shard /\ q.first = {} /\ q.refused = FALSE /\ MetaOK(w) /\ MetaOK(r[s])
    BY CompactIs
<1>2. w \in ShardMeta /\ w # NoMeta
    BY <1>1, MetaIsMeta DEF MetaOK
<1>3. q.plan.root = [r EXCEPT ![s] = w]
    BY <1>1
<1>4. q.plan.root \in RootIndex
    BY <1>0, <1>2, <1>3 DEF RootIndex
<1>5. \A t \in ShardId : q.plan.root[t] = IF t = s THEN w ELSE r[t]
    BY <1>0, <1>3 DEF RootIndex
<1>6. LogOK(q.plan.root) /\ \A t \in ShardId : q.plan.root[t] # NoMeta <=> r[t] # NoMeta
    BY <1>0, <1>1, <1>2, <1>5 DEF LogOK
<1>7. q.plan.val = [x \in Chunk |-> IF x = c THEN shard ELSE Absent]
    BY <1>1
<1>8. q.plan.val \in [Chunk -> Shard \cup DeltaEntry \cup {Absent}]
    BY <1>1, <1>7
<1>9. q.plan.val \in Contents
    <2>1. ASSUME NEW t \in ShardId, NEW n \in 0..MaxSeq
          PROVE  /\ q.plan.val[Snapshot(t, n)] \in Shard \cup {Absent}
                 /\ q.plan.val[Delta(t, n)] \in DeltaEntry \cup {Absent}
        <3>1. Delta(t, n) # c
            BY DEF Delta, Snapshot
        <3>2. Snapshot(t, n) \in Chunk /\ Delta(t, n) \in Chunk
            BY ChunkOf
        <3> HIDE DEF c, shard
        <3> QED BY <1>1, <1>7, <3>1, <3>2
    <2> QED BY <1>8, <2>1 DEF Contents
<1>10. chunks_for_meta(s, r[s]) \subseteq Chunk
    BY <1>0, <1>1, ChunksOfMeta
<1>11. q.plan \in C!Plan /\ q.plan.staged
    <2>1. q.plan = [val |-> q.plan.val, old |-> q.plan.old, root |-> q.plan.root, staged |-> TRUE]
        BY <1>1
    <2>2. q.plan.old \subseteq Chunk /\ q.plan.staged = TRUE
        BY <1>1, <1>10
    <2> QED BY <1>4, <1>8, <2>1, <2>2 DEF C!Plan
<1> QED BY <1>1, <1>4, <1>6, <1>9, <1>11

\* A compaction of the root index on disk changes nothing that an unlock would load.
LEMMA CompactFits ==
    ASSUME NEW s, NEW q, CompactHyp(s, root, q), GoodAt(disk, root)
    PROVE  /\ C!New(q.plan) \cap Refs(root) = {} /\ C!New(q.plan) \subseteq Refs(q.plan.root)
           /\ q.plan.old \cap Refs(q.plan.root) = {}
           /\ GoodAt(Over(disk, q.plan), q.plan.root)
           /\ Refs(q.plan.root) \subseteq Refs(root) \cup C!New(q.plan)
           /\ try_load_sharded_catalog(Over(disk, q.plan), q.plan.root)
                = try_load_sharded_catalog(disk, root)
<1> DEFINE shard == load_full_shard_from_meta(disk, s, root[s])
<1> DEFINE c == Snapshot(s, root[s].seq + 1)
<1> DEFINE w == CompactMeta(s, root)
<1>0. root \in RootIndex /\ LogOK(root) /\ s \in ShardId /\ root[s] # NoMeta
    BY DEF CompactHyp
<1>1. /\ q.plan = [val |-> [x \in Chunk |-> IF x = c THEN shard ELSE Absent],
                   old |-> chunks_for_meta(s, root[s]), root |-> [root EXCEPT ![s] = w], staged |-> TRUE]
      /\ shard \in Shard /\ c \in Chunk /\ MetaOK(w) /\ MetaOK(root[s]) /\ C!New(q.plan) = {c}
    BY CompactIs
<1>2. LogOK(q.plan.root) /\ \A t \in ShardId : q.plan.root[t] # NoMeta <=> root[t] # NoMeta
    BY CompactType
<1>3. \A t \in ShardId : q.plan.root[t] = IF t = s THEN w ELSE root[t]
    BY <1>0, <1>1 DEF RootIndex
<1>4. chunks_for_meta(s, w) = {c} /\ ~w.has /\ w.seq = root[s].seq + 1
    BY DEF chunks_for_meta, CompactMeta
<1>5. c \notin Refs(root)
    <2> SUFFICES ASSUME c \in Refs(root) PROVE FALSE
        OBVIOUS
    <2>1. c \in chunks_for_meta(s, root[s])
        <3>1. c[2] = s
            BY DEF Snapshot
        <3> QED BY <1>0, <3>1, RefsByShard
    <2>2. root[s].seq + 1 = root[s].seq /\ root[s].seq \in Nat
        BY <1>1, <2>1, MetaSpan, MetaNumbers
    <2> QED BY <2>2
<1>6. C!New(q.plan) \cap Refs(root) = {}
    BY <1>1, <1>5
<1>7. c \in Refs(q.plan.root)
    BY <1>0, <1>2, <1>3, <1>4, RefsByShard
<1>8. \A x \in Refs(q.plan.root) : x = c \/ (x[2] # s /\ x \in Refs(root))
    <2> SUFFICES ASSUME NEW x \in Refs(q.plan.root), x # c PROVE x[2] # s /\ x \in Refs(root)
        OBVIOUS
    <2>1. x[2] \in ShardId /\ q.plan.root[x[2]] # NoMeta /\ x \in chunks_for_meta(x[2], q.plan.root[x[2]])
        <3>1. x \in Chunk
            BY <1>2, RefsByShard
        <3>2. x[2] \in ShardId
            BY <3>1 DEF Chunk, Snapshot, Delta
        <3> QED BY <1>2, <3>2, RefsByShard
    <2>2. x[2] # s
        BY <1>3, <1>4, <2>1
    <2> QED BY <1>0, <1>3, <2>1, <2>2, RefsByShard
<1>9. q.plan.old \cap Refs(q.plan.root) = {}
    <2>0. q.plan.old = chunks_for_meta(s, root[s])
        BY <1>1
    <2> SUFFICES ASSUME NEW x \in chunks_for_meta(s, root[s]), x \in Refs(q.plan.root) PROVE FALSE
        BY <2>0
    <2>1. x[2] = s
        BY <1>0, <1>1, ChunksOfMeta
    <2>2. x = c
        BY <1>8, <2>1
    <2> QED BY <1>0, <1>5, <2>2, RefsByShard
<1>10. \A x \in Refs(root) : Over(disk, q.plan)[x] = disk[x]
    BY <1>0, <1>6, OverApart
<1>11. Over(disk, q.plan)[c] = shard /\ shard # Absent /\ shard # Failure
    <2>1. q.plan.val[c] = shard
        BY <1>1
    <2> QED BY <1>1, <2>1, ContentAssumption DEF Over
<1>12. load_full_shard_from_meta(Over(disk, q.plan), s, w) = shard
    <2> HIDE DEF shard, w
    <2> QED BY <1>1, <1>4, <1>11, LoadPlain
<1>13. ASSUME NEW t \in ShardId, root[t] # NoMeta
       PROVE  load_full_shard_from_meta(Over(disk, q.plan), t, q.plan.root[t])
                = load_full_shard_from_meta(disk, t, root[t])
    <2>1. CASE t = s
        BY <1>3, <1>12, <2>1
    <2>2. CASE t # s
        BY <1>0, <1>3, <1>10, <1>13, <2>2, CatalogFrame
    <2> QED BY <2>1, <2>2
<1>14. GoodAt(Over(disk, q.plan), q.plan.root)
    BY <1>2, <1>13 DEF GoodAt
<1>15. try_load_sharded_catalog(Over(disk, q.plan), q.plan.root) = try_load_sharded_catalog(disk, root)
    <2>1. \A t \in ShardId : try_load_sharded_catalog(Over(disk, q.plan), q.plan.root)[t]
                               = try_load_sharded_catalog(disk, root)[t]
        BY <1>0, <1>2, <1>13, LoadIn
    <2>2. \A d, r : try_load_sharded_catalog(d, r)
                      = [t \in ShardId |-> try_load_sharded_catalog(d, r)[t]]
        BY DEF try_load_sharded_catalog
    <2> DEFINE F == try_load_sharded_catalog(Over(disk, q.plan), q.plan.root)
    <2> DEFINE G == try_load_sharded_catalog(disk, root)
    <2>3. F = [t \in ShardId |-> F[t]] /\ G = [t \in ShardId |-> G[t]]
        BY <2>2
    <2>4. \A t \in ShardId : F[t] = G[t]
        BY <2>1
    <2> HIDE DEF F, G
    <2>5. F = G
        BY <2>3, <2>4
    <2> QED BY <2>5 DEF F, G
<1> QED BY <1>1, <1>6, <1>7, <1>8, <1>9, <1>14, <1>15

(***************************************************************************)
(* The shape of every reachable state, with and without errors: types, logs *)
(* that agree with their metas, and what each step of the control implies.   *)
(***************************************************************************)
StoreOK ==
    /\ disk \in Contents
    /\ root \in RootIndex /\ LogOK(root)
    /\ rec \in C!Record \cup {NoRec} /\ (rec # NoRec => LogOK(rec.root))
    /\ plan \in C!Plan \cup {NoPlan}
    /\ plan # NoPlan => plan.val \in Contents /\ LogOK(plan.root)
    /\ todo \subseteq Chunk /\ back \in {"load", "plan"}
    /\ pc \in C!Busy \cup {"locked", "load", "idle"}

SessionOK ==
    /\ sess \in Session /\ saved \in Session
    /\ op \in Operation \cup {NoOp} /\ renamed \subseteq ShardId
    /\ op # NoOp =>
         /\ LogOK(op.root)
         /\ op.kind = "compact" => \E s \in ShardId : op.touched = {s} /\ op.root[s] # NoMeta

Control ==
    /\ pc = "plan" \/ pc \in C!Saving \/ (pc \in C!Recovering /\ back = "plan") => op # NoOp
    /\ pc \in C!Saving => plan # NoPlan
    /\ pc = "plan" \/ pc \in C!Saving => back = "plan"
    /\ pc \in {"undo", "redo", "redoOld"} => rec # NoRec

Shape == StoreOK /\ SessionOK /\ Control

LEMMA ContentsAt ==
    ASSUME NEW d \in Contents, NEW c \in Chunk, NEW p \in Contents, NEW v, v = p[c] \/ v = Absent
    PROVE  [d EXCEPT ![c] = v] \in Contents
<1> DEFINE e == [d EXCEPT ![c] = v]
<1>1. d \in [Chunk -> Shard \cup DeltaEntry \cup {Absent}] /\ p \in [Chunk -> Shard \cup DeltaEntry \cup {Absent}]
    BY DEF Contents
<1>2. e \in [Chunk -> Shard \cup DeltaEntry \cup {Absent}]
    BY <1>1
<1>3. \A x \in Chunk : e[x] = IF x = c THEN v ELSE d[x]
    BY <1>1
<1> HIDE DEF e
<1>4. ASSUME NEW s \in ShardId, NEW n \in 0..MaxSeq
      PROVE  e[Snapshot(s, n)] \in Shard \cup {Absent} /\ e[Delta(s, n)] \in DeltaEntry \cup {Absent}
    <2>1. Snapshot(s, n) \in Chunk /\ Delta(s, n) \in Chunk
        BY ChunkOf
    <2>2. /\ d[Snapshot(s, n)] \in Shard \cup {Absent} /\ d[Delta(s, n)] \in DeltaEntry \cup {Absent}
          /\ p[Snapshot(s, n)] \in Shard \cup {Absent} /\ p[Delta(s, n)] \in DeltaEntry \cup {Absent}
        BY DEF Contents
    <2> QED BY <1>3, <2>1, <2>2
<1>5. e \in Contents
    BY <1>2, <1>4 DEF Contents
<1> QED BY <1>5 DEF e

\* A step of a save or of a recovery goes on to its next step, or back to the caller.
LEMMA GotoFacts ==
    ASSUME Shape, NEW ok \in BOOLEAN, NEW next \in C!Busy \cup {"load", "idle"},
           NEW rest \in SUBSET Chunk, C!Goto(ok, next, rest)
    PROVE  /\ plan' \in C!Plan \cup {NoPlan}
           /\ plan' # NoPlan => plan' = plan
           /\ todo' \subseteq Chunk /\ back' = back
           /\ pc' \in C!Busy \cup {"locked", "load", "idle"}
           /\ ~ok => pc' \in {"locked", "idle"}
           /\ ok => pc' = next /\ (next # "idle" => plan' = plan)
BY DEF Shape, StoreOK, C!Goto, C!Abort

LEMMA RecordType ==
    ASSUME NEW p \in C!Plan, NEW phase \in {"Staging", "Committing"}
    PROVE  /\ C!RecordOf(p, phase) \in C!Record /\ C!RecordOf(p, phase) # NoRec
           /\ C!RecordOf(p, phase).phase = phase /\ C!RecordOf(p, phase).root = p.root
           /\ C!RecordOf(p, phase).new = C!New(p) /\ C!RecordOf(p, phase).old = p.old
<1>1. C!RecordOf(p, phase) \in C!Record
    BY DEF C!RecordOf, C!Record, C!Plan, C!Phases, C!New
<1> QED BY <1>1, NoneAssumption DEF C!RecordOf

LEMMA ProgressStore ==
    ASSUME Shape, NEW ok \in BOOLEAN, C!Progress(ok)
    PROVE  StoreOK'
<1> USE DEF C!Busy, C!Saving, C!Recovering
<1>1. ASSUME NEW c \in Chunk, C!Undo(c, ok) \/ C!RedoOld(c, ok) \/ C!DeleteOld(c, ok) PROVE StoreOK'
    <2>1. disk' \in Contents /\ UNCHANGED <<root, rec>>
        BY <1>1, ContentsAt DEF Shape, StoreOK, C!Undo, C!RedoOld, C!DeleteOld, C!delete_chunk
    <2>2. \E next \in {"undo", "redoOld", "dropOld"} : C!Goto(ok, next, todo \ {c})
        BY <1>1 DEF C!Undo, C!RedoOld, C!DeleteOld
    <2>3. PICK next \in {"undo", "redoOld", "dropOld"} : C!Goto(ok, next, todo \ {c})
        BY <2>2
    <2>4. todo \ {c} \in SUBSET Chunk
        BY DEF Shape, StoreOK
    <2> QED BY <2>1, <2>3, <2>4, GotoFacts DEF Shape, StoreOK
<1>2. ASSUME NEW c \in Chunk, C!WriteChunk(c, ok) PROVE StoreOK'
    <2>0. plan # NoPlan /\ plan.val \in Contents
        BY <1>2 DEF Shape, StoreOK, Control, C!WriteChunk
    <2>1. disk' \in Contents /\ UNCHANGED <<root, rec>>
        BY <1>2, <2>0, ContentsAt DEF Shape, StoreOK, C!WriteChunk, C!write_chunk
    <2>2. C!Goto(ok, "write", todo \ {c})
        BY <1>2 DEF C!WriteChunk
    <2>4. todo \ {c} \in SUBSET Chunk
        BY DEF Shape, StoreOK
    <2> QED BY <2>1, <2>2, <2>4, GotoFacts DEF Shape, StoreOK
<1>3. ASSUME C!Redo(ok) PROVE StoreOK'
    <2>1. rec # NoRec /\ rec \in C!Record
        BY <1>3 DEF Shape, StoreOK, Control, C!Redo
    <2>2. root' = rec.root /\ UNCHANGED <<disk, rec>> /\ C!Goto(ok, "redoOld", rec.old)
        BY <1>3 DEF C!Redo, C!write_root_index
    <2>3. rec.root \in RootIndex /\ rec.old \in SUBSET Chunk
        BY <2>1 DEF C!Record
    <2> QED BY <2>1, <2>2, <2>3, GotoFacts DEF Shape, StoreOK
<1>4. ASSUME C!Forget(ok) PROVE StoreOK'
    <2>1. rec' = NoRec /\ UNCHANGED <<disk, root>> /\ C!Goto(ok, back, {})
        BY <1>4 DEF C!Forget, C!delete_commit_record
    <2>2. back \in {"load", "plan"}
        BY DEF Shape, StoreOK
    <2> QED BY <2>1, <2>2, GotoFacts DEF Shape, StoreOK
<1>5. ASSUME C!WriteStaging(ok) \/ C!WriteCommitting(ok) PROVE StoreOK'
    <2>0. plan # NoPlan /\ plan \in C!Plan
        BY <1>5 DEF Shape, StoreOK, Control, C!WriteStaging, C!WriteCommitting
    <2>1. /\ UNCHANGED <<disk, root>>
          /\ \E phase \in {"Staging", "Committing"} : rec' = C!RecordOf(plan, phase)
          /\ C!Goto(ok, "mark", {}) \/ C!Goto(ok, "swap", {})
        BY <1>5 DEF C!WriteStaging, C!WriteCommitting, C!write_commit_record
    <2>2. rec' \in C!Record /\ rec'.root = plan.root
        BY <2>0, <2>1, RecordType
    <2> QED BY <2>0, <2>1, <2>2, GotoFacts DEF Shape, StoreOK
<1>6. ASSUME C!WriteRoot(ok) PROVE StoreOK'
    <2>0. plan # NoPlan /\ plan \in C!Plan
        BY <1>6 DEF Shape, StoreOK, Control, C!WriteRoot
    <2>1. root' = plan.root /\ UNCHANGED <<disk, rec>> /\ C!Goto(ok, "unmark", {})
        BY <1>6 DEF C!WriteRoot, C!write_root_index
    <2>2. plan.root \in RootIndex
        BY <2>0 DEF C!Plan
    <2> QED BY <2>0, <2>1, <2>2, GotoFacts DEF Shape, StoreOK
<1>7. ASSUME C!DeleteRecord(ok) PROVE StoreOK'
    <2>0. plan # NoPlan /\ plan \in C!Plan
        BY <1>7 DEF Shape, StoreOK, Control, C!DeleteRecord
    <2>1. rec' = NoRec /\ UNCHANGED <<disk, root>> /\ C!Goto(ok, "dropOld", plan.old)
        BY <1>7 DEF C!DeleteRecord, C!delete_commit_record
    <2>2. plan.old \in SUBSET Chunk
        BY <2>0 DEF C!Plan
    <2> QED BY <2>0, <2>1, <2>2, GotoFacts DEF Shape, StoreOK
<1>8. ASSUME C!Finish(ok) PROVE StoreOK'
    <2>1. UNCHANGED <<disk, root, rec>> /\ C!Goto(ok, "idle", {})
        BY <1>8 DEF C!Finish, C!store
    <2> QED BY <2>1, GotoFacts DEF Shape, StoreOK
<1> QED BY <1>1, <1>2, <1>3, <1>4, <1>5, <1>6, <1>7, <1>8 DEF C!Progress

LEMMA ControlStopped ==
    ASSUME pc' \in {"locked", "idle", "load"}
    PROVE  Control'
BY DEF Control, C!Saving, C!Recovering

\* A step that goes on keeps the command it runs for.
LEMMA ProgressControl ==
    ASSUME Shape, C!Progress(TRUE), op' = op
    PROVE  Control'
<1> USE DEF C!Busy, C!Saving, C!Recovering
<1>1. ASSUME NEW c \in Chunk, C!Undo(c, TRUE) \/ C!RedoOld(c, TRUE) PROVE Control'
    <2>1. pc' = pc /\ back' = back /\ rec' = rec /\ pc \in {"undo", "redoOld"}
        BY <1>1 DEF C!Undo, C!RedoOld, C!Goto, C!delete_chunk
    <2> QED BY <2>1 DEF Shape, Control
<1>2. ASSUME NEW c \in Chunk, C!WriteChunk(c, TRUE) \/ C!DeleteOld(c, TRUE) PROVE Control'
    <2>1. pc' = pc /\ back' = back /\ plan' = plan /\ pc \in {"write", "dropOld"}
        BY <1>2 DEF C!WriteChunk, C!DeleteOld, C!Goto
    <2> QED BY <2>1 DEF Shape, Control
<1>3. ASSUME C!Redo(TRUE) PROVE Control'
    <2>1. pc' = "redoOld" /\ back' = back /\ rec' = rec /\ pc = "redo"
        BY <1>3 DEF C!Redo, C!Goto, C!write_root_index
    <2> QED BY <2>1 DEF Shape, Control
<1>4. ASSUME C!Forget(TRUE) PROVE Control'
    <2>1. pc' = back /\ back' = back /\ pc \in {"undo", "redoOld"}
        BY <1>4 DEF C!Forget, C!Goto
    <2> QED BY <2>1, ControlStopped DEF Shape, StoreOK, Control
<1>5. ASSUME C!WriteStaging(TRUE) \/ C!WriteCommitting(TRUE) \/ C!WriteRoot(TRUE) \/ C!DeleteRecord(TRUE)
      PROVE  Control'
    <2>1. pc' \in C!Saving /\ pc \in C!Saving /\ back' = back /\ plan' = plan
        BY <1>5 DEF C!WriteStaging, C!WriteCommitting, C!WriteRoot, C!DeleteRecord, C!Goto
    <2> QED BY <2>1 DEF Shape, Control
<1>6. ASSUME C!Finish(TRUE) PROVE Control'
    BY <1>6, ControlStopped DEF C!Finish, C!Goto
<1> QED BY <1>1, <1>2, <1>3, <1>4, <1>5, <1>6 DEF C!Progress

LEMMA ProgressFails ==
    ASSUME C!Progress(FALSE) \/ C!Fail
    PROVE  Control'
<1>1. pc' = C!Abort
    BY DEF C!Progress, C!Undo, C!RedoOld, C!WriteChunk, C!DeleteOld, C!Redo, C!Forget, C!WriteStaging,
           C!WriteCommitting, C!WriteRoot, C!DeleteRecord, C!Finish, C!Goto, C!Fail
<1> QED BY <1>1, ControlStopped DEF C!Abort

LEMMA EmptySession == [mem |-> NoCatalog, nextId |-> 1] \in Session
BY DEF Session, NoCatalog

LEMMA ClosedSession ==
    ASSUME Shape, Closed
    PROVE  SessionOK'
BY EmptySession DEF Shape, SessionOK, Closed

LEMMA RollbackSession ==
    ASSUME Shape, Rollback
    PROVE  SessionOK'
BY ClosedSession DEF Rollback, Shape, SessionOK

LEMMA KeepSession ==
    ASSUME Shape, Keep
    PROVE  SessionOK'
BY DEF Keep, Shape, SessionOK

\* The steps of CatalogSave are steps of CatalogCommit.
LEMMA SaveProgress ==
    ASSUME Shape, NEW ok \in BOOLEAN, WriteChunk(ok) \/ CommitStep(ok) \/ RecoveryStep(ok) \/ C!Finish(ok)
    PROVE  C!Progress(ok)
<1>1. todo \subseteq Chunk
    BY DEF Shape, StoreOK
<1> QED BY <1>1 DEF WriteChunk, CommitStep, RecoveryStep, C!Progress

LEMMA StepShape ==
    ASSUME Shape, C!Progress(TRUE), Keep
    PROVE  Shape'
<1>1. op' = op
    BY DEF Keep
<1> QED BY <1>1, ProgressStore, ProgressControl, KeepSession DEF Shape

LEMMA DoneShape ==
    ASSUME Shape, Done
    PROVE  Shape'
<1>1. C!Progress(TRUE) /\ C!Finish(TRUE)
    BY SaveProgress DEF Done
<1>2. Control'
    BY <1>1, ControlStopped DEF C!Finish, C!Goto
<1>3. SessionOK'
    BY DEF Done, Shape, SessionOK
<1> QED BY <1>1, <1>2, <1>3, ProgressStore DEF Shape

LEMMA FailShape ==
    ASSUME Shape, C!Fail, Rollback
    PROVE  Shape'
<1>1. UNCHANGED <<disk, root, rec, back>> /\ plan' = NoPlan /\ todo' = {} /\ pc' \in {"locked", "idle"}
    BY DEF C!Fail, C!Goto, C!Abort, C!store
<1>2. StoreOK'
    BY <1>1 DEF Shape, StoreOK
<1> QED BY <1>2, ProgressFails, RollbackSession DEF Shape

LEMMA IoErrorShape ==
    ASSUME Shape, IoError
    PROVE  Shape'
<1>0. Rollback
    BY DEF IoError
<1>1. CASE C!Fail
    BY <1>0, <1>1, FailShape
<1>2. CASE WriteChunk(FALSE) \/ CommitStep(FALSE) \/ RecoveryStep(FALSE) \/ C!Finish(FALSE)
    <2>1. C!Progress(FALSE)
        BY <1>2, SaveProgress
    <2> QED BY <1>0, <2>1, ProgressStore, ProgressFails, RollbackSession DEF Shape
<1> QED BY <1>1, <1>2 DEF IoError

LEMMA CrashShape ==
    ASSUME Shape, Crash
    PROVE  Shape'
<1>1. UNCHANGED <<disk, root, rec>> /\ back' = "load" /\ plan' = NoPlan /\ todo' = {} /\ pc' = "locked"
    BY DEF Crash, C!Crash, C!store
<1>2. StoreOK'
    BY <1>1 DEF Shape, StoreOK
<1>3. SessionOK'
    BY ClosedSession DEF Crash
<1> QED BY <1>1, <1>2, <1>3, ControlStopped DEF Shape

LEMMA GcShape ==
    ASSUME Shape, Gc
    PROVE  Shape'
<1>1. PICK c \in Chunk : C!GcDelete(c)
    BY DEF Gc
<1>2. disk' = [disk EXCEPT ![c] = Absent] /\ UNCHANGED <<root, rec, plan, todo, back, pc>>
    BY <1>1 DEF C!GcDelete, C!delete_chunk
<1>3. disk' \in Contents
    BY <1>2, ContentsAt DEF Shape, StoreOK
<1>4. StoreOK'
    BY <1>2, <1>3 DEF Shape, StoreOK
<1>5. Control'
    BY <1>2 DEF Gc, Keep, Shape, Control
<1> QED BY <1>4, <1>5, KeepSession DEF Shape, Gc

LEMMA StartUnlockShape ==
    ASSUME Shape, StartUnlock
    PROVE  Shape'
<1> USE DEF C!Busy, C!Saving, C!Recovering
<1>1. UNCHANGED <<disk, root, rec, plan, todo>> /\ back' = "load" /\ pc' = "recover"
    BY DEF StartUnlock, C!StartUnlock, C!store
<1>2. StoreOK'
    BY <1>1 DEF Shape, StoreOK
<1>3. Control'
    BY <1>1 DEF Control
<1> QED BY <1>2, <1>3, KeepSession DEF Shape, StartUnlock

LEMMA ReadRecordShape ==
    ASSUME Shape, ReadRecord
    PROVE  Shape'
<1> USE DEF C!Busy, C!Saving, C!Recovering
<1>1. /\ UNCHANGED <<disk, root, rec, plan, back, op>> /\ pc = "recover"
      /\ pc' \in {"undo", "redo", "load", "plan"} /\ (pc' \in {"undo", "redo"} => rec # NoRec)
      /\ pc' \in {"load", "plan"} => pc' = back
      /\ todo' \subseteq Chunk
    BY DEF ReadRecord, C!ReadRecord, C!store, Keep, Shape, StoreOK, C!Record
<1>2. StoreOK'
    BY <1>1 DEF Shape, StoreOK
<1>3. Control'
    BY <1>1 DEF Shape, StoreOK, Control
<1> QED BY <1>2, <1>3, KeepSession DEF Shape, ReadRecord

LEMMA LoadShape ==
    ASSUME Shape, Load
    PROVE  Shape'
<1> DEFINE m == try_load_sharded_catalog(disk, root)
<1>1. /\ UNCHANGED <<disk, root, rec, plan, todo, back, op, renamed>> /\ pc' = "idle"
      /\ \A s \in ShardId : m[s] # Failure
      /\ sess' = [mem |-> m, nextId |-> max_catalog_node_id(m) + 1] /\ saved' = sess'
    BY DEF Load, C!Loaded, C!store
<1>2. StoreOK'
    BY <1>1 DEF Shape, StoreOK
<1>3. m \in Catalogs
    <2>1. \A s \in ShardId : m[s] \in Shard \cup {NoShard}
        BY <1>1, LoadedType DEF Shape, StoreOK
    <2>2. m = [s \in ShardId |-> m[s]]
        BY DEF try_load_sharded_catalog
    <2> HIDE DEF m
    <2> QED BY <2>1, <2>2 DEF Catalogs
<1>4. max_catalog_node_id(m) \in Nat
    <2> HIDE DEF m
    <2> QED BY <1>3, NodeIdNat
<1>5. sess' \in Session /\ saved' \in Session
    <2> HIDE DEF m
    <2> QED BY <1>1, <1>3, <1>4 DEF Session, Catalogs
<1>6. SessionOK'
    BY <1>1, <1>5 DEF Shape, SessionOK
<1> QED BY <1>1, <1>2, <1>6, ControlStopped DEF Shape

LEMMA NoRootOK == NoRoot \in RootIndex /\ LogOK(NoRoot)
BY DEF NoRoot, RootIndex, LogOK

LEMMA StartSaveShape ==
    ASSUME Shape, C!StartSave, op' # NoOp
    PROVE  StoreOK' /\ Control'
<1> USE DEF C!Busy, C!Saving, C!Recovering
<1>1. UNCHANGED <<disk, root, rec, plan, todo>> /\ back' = "plan" /\ pc' = "recover"
    BY DEF C!StartSave, C!store
<1>2. StoreOK'
    BY <1>1 DEF Shape, StoreOK
<1> QED BY <1>1, <1>2 DEF Control

LEMMA MutateShape ==
    ASSUME Shape, NEW m \in Catalogs, NEW nextId \in Nat, NEW pend \in [ShardId -> Pending],
           NEW touched \in SUBSET ShardId, Mutate(m, nextId, pend, touched), renamed' \subseteq ShardId
    PROVE  Shape'
<1> DEFINE o == [kind |-> "save", pend |-> pend, touched |-> touched, root |-> NoRoot,
                 first |-> {}, refused |-> FALSE]
<1>1. op' = o /\ saved' = sess /\ sess' = [mem |-> m, nextId |-> nextId] /\ C!StartSave
    BY DEF Mutate
<1>2. o \in Operation
    BY NoRootOK DEF Operation, Pending
<1>3. op' # NoOp /\ op' \in Operation /\ LogOK(op'.root) /\ op'.kind = "save"
    BY <1>1, <1>2, NoneAssumption, NoRootOK
<1>4. sess' \in Session /\ saved' \in Session
    BY <1>1 DEF Session, Catalogs, Shape, SessionOK
<1>5. (LogOK(op.root))'
    BY <1>3 DEF LogOK
<1>6. SessionOK'
    BY <1>3, <1>4, <1>5 DEF SessionOK
<1> QED BY <1>1, <1>3, <1>6, StartSaveShape DEF Shape

LEMMA PendType ==
    ASSUME NEW s \in ShardId, NEW kind \in {"create", "update", "delete", "move"},
           NEW n \in Name, NEW to \in Name, NEW node \in Node
    PROVE  /\ DeltaOn(s, kind, n, to, node) \in [ShardId -> Pending]
           /\ DeltaOn(s, kind, n, to, node)[s] # << >>
<1> DEFINE d == [kind |-> kind, name |-> n, to |-> to, node |-> node]
<1>1. d \in DeltaEntry
    BY DEF DeltaEntry
<1> HIDE DEF d
<1>2. <<d>> \in Pending /\ << >> \in Pending /\ <<d>> # << >>
    BY <1>1 DEF Pending
<1>3. DeltaOn(s, kind, n, to, node) = [NoPend EXCEPT ![s] = <<d>>]
    BY DEF DeltaOn, d
<1> QED BY <1>2, <1>3 DEF NoPend

LEMMA NoPendType == NoPend \in [ShardId -> Pending]
<1>1. << >> \in Pending
    BY DEF Pending
<1> QED BY <1>1 DEF NoPend

LEMMA KidPut ==
    ASSUME NEW m \in Catalogs, NEW s \in ShardId, m[s] # NoShard, NEW n \in Name, NEW v \in Node \cup {NoNode}
    PROVE  /\ [m EXCEPT ![s].kids[n] = v] \in Catalogs
           /\ [m EXCEPT ![s].kids[n] = v][s] # NoShard
           /\ \A t \in ShardId : t # s => [m EXCEPT ![s].kids[n] = v][t] = m[t]
<1>1. m[s] \in Shard
    BY DEF Catalogs
<1> DEFINE w == [m[s] EXCEPT !.kids[n] = v]
<1>2. w \in Shard
    BY <1>1 DEF Shard
<1>3. [m EXCEPT ![s].kids[n] = v] = [m EXCEPT ![s] = w]
    OBVIOUS
<1> HIDE DEF w
<1> QED BY <1>2, <1>3, ContentAssumption DEF Catalogs

LEMMA KidIs ==
    ASSUME NEW m \in Catalogs, NEW s \in ShardId, m[s] # NoShard, NEW n \in Name
    PROVE  m[s].kids[n] \in Node \cup {NoNode}
BY DEF Catalogs, Shard

LEMMA ShardPut ==
    ASSUME NEW m \in Catalogs, NEW s \in ShardId, NEW x \in Shard
    PROVE  /\ [m EXCEPT ![s] = x] \in Catalogs /\ [m EXCEPT ![s] = x][s] # NoShard
           /\ \A t \in ShardId : t # s => [m EXCEPT ![s] = x][t] = m[t]
BY ContentAssumption DEF Catalogs

\* The set of shards is fixed: no command creates, deletes or renames a top-level
\* directory, and the system shards exist from the start.
Fixed ==
    Ops \cap {"createTop", "deleteTop", "renameTop"} = {} /\ Eager \subseteq Preset

\* What a mutating command does to the session: the shards it changes have a delta
\* or are gone, but for those it creates or renames.
Mutation(m, nextId, pend, touched) ==
    /\ m \in Catalogs /\ nextId \in Nat /\ pend \in [ShardId -> Pending] /\ touched \in SUBSET ShardId
    /\ Mutate(m, nextId, pend, touched)
    /\ renamed' \subseteq ShardId
    /\ Fixed => \A s \in ShardId : m[s] # NoShard <=> sess.mem[s] # NoShard
    /\ "createTop" \notin Ops =>
         \A s \in touched \ renamed' : IF m[s] = NoShard THEN s \notin Eager ELSE pend[s] # << >>

LEMMA KidMutation ==
    ASSUME Shape, NEW s \in ShardId, NEW n \in Name, sess.mem[s] # NoShard, UNCHANGED renamed,
           Create(s, n) \/ Update(s, n) \/ Delete(s, n)
    PROVE  \E m, nextId, pend, touched : Mutation(m, nextId, pend, touched)
<1>1. sess.mem \in Catalogs /\ sess.nextId \in Nat /\ renamed \subseteq ShardId
    BY DEF Shape, SessionOK, Session, Catalogs
<1>2. ASSUME NEW v \in Node \cup {NoNode}, NEW kind \in {"create", "update", "delete"}, NEW node \in Node,
             NEW nextId \in Nat,
             Mutate([sess.mem EXCEPT ![s].kids[n] = v], nextId, DeltaOn(s, kind, n, n, node), {s})
      PROVE  \E m, next, pend, touched : Mutation(m, next, pend, touched)
    <2> DEFINE m == [sess.mem EXCEPT ![s].kids[n] = v]
    <2> DEFINE p == DeltaOn(s, kind, n, n, node)
    <2>1. m \in Catalogs /\ m[s] # NoShard /\ \A t \in ShardId : t # s => m[t] = sess.mem[t]
        BY <1>1, KidPut
    <2>2. p \in [ShardId -> Pending] /\ p[s] # << >>
        BY PendType
    <2>3. Mutate(m, nextId, p, {s})
        BY <1>2
    <2> HIDE DEF m, p
    <2>4. Mutation(m, nextId, p, {s})
        BY <1>1, <2>1, <2>2, <2>3 DEF Mutation
    <2> QED BY <2>4
<1>3. CASE Create(s, n)
    <2>1. PICK t \in Tag : Mutate([sess.mem EXCEPT ![s].kids[n] = [id |-> sess.nextId, tag |-> t]],
                                  sess.nextId + 1,
                                  DeltaOn(s, "create", n, n, [id |-> sess.nextId, tag |-> t]), {s})
        BY <1>3 DEF Create
    <2>2. [id |-> sess.nextId, tag |-> t] \in Node /\ sess.nextId + 1 \in Nat
        BY <1>1 DEF Node
    <2> QED BY <1>2, <2>1, <2>2
<1>4. CASE Update(s, n)
    <2>0. sess.mem[s].kids[n] \in Node
        BY <1>1, <1>4, KidIs DEF Update
    <2>1. PICK t \in Tag : Mutate([sess.mem EXCEPT ![s].kids[n] = [sess.mem[s].kids[n] EXCEPT !.tag = t]],
                                  sess.nextId,
                                  DeltaOn(s, "update", n, n, [sess.mem[s].kids[n] EXCEPT !.tag = t]), {s})
        BY <1>4 DEF Update
    <2>2. [sess.mem[s].kids[n] EXCEPT !.tag = t] \in Node
        BY <2>0 DEF Node
    <2> QED BY <1>1, <1>2, <2>1, <2>2
<1>5. CASE Delete(s, n)
    <2>0. sess.mem[s].kids[n] \in Node
        BY <1>1, <1>5, KidIs DEF Delete
    <2>1. Mutate([sess.mem EXCEPT ![s].kids[n] = NoNode], sess.nextId,
                 DeltaOn(s, "delete", n, n, sess.mem[s].kids[n]), {s})
        BY <1>5 DEF Delete
    <2> QED BY <1>1, <1>2, <2>0, <2>1
<1> QED BY <1>3, <1>4, <1>5

LEMMA RenameMutation ==
    ASSUME Shape, NEW s \in ShardId, NEW n \in Name, NEW to \in Name, UNCHANGED renamed, Rename(s, n, to)
    PROVE  \E m, nextId, pend, touched : Mutation(m, nextId, pend, touched)
<1>1. sess.mem \in Catalogs /\ sess.nextId \in Nat /\ renamed \subseteq ShardId
    BY DEF Shape, SessionOK, Session, Catalogs
<1>2. sess.mem[s] # NoShard
    BY DEF Rename
<1>3. sess.mem[s].kids[n] \in Node
    BY <1>1, <1>2, KidIs DEF Rename
<1> DEFINE m == [sess.mem EXCEPT ![s].kids[n] = NoNode, ![s].kids[to] = sess.mem[s].kids[n]]
<1> DEFINE p == DeltaOn(s, "move", n, to, sess.mem[s].kids[n])
<1>4. m \in Catalogs /\ m[s] # NoShard /\ \A t \in ShardId : t # s => m[t] = sess.mem[t]
    <2> DEFINE x == [sess.mem[s] EXCEPT !.kids[n] = NoNode, !.kids[to] = sess.mem[s].kids[n]]
    <2>1. sess.mem[s] \in Shard
        BY <1>1, <1>2 DEF Catalogs
    <2>2. x \in Shard
        BY <1>3, <2>1 DEF Shard
    <2>3. m = [sess.mem EXCEPT ![s] = x]
        BY <1>1 DEF Catalogs
    <2> HIDE DEF x, m
    <2> QED BY <1>1, <2>2, <2>3, ShardPut
<1>5. p \in [ShardId -> Pending] /\ p[s] # << >>
    BY <1>3, PendType
<1>6. Mutate(m, sess.nextId, p, {s})
    BY DEF Rename
<1> HIDE DEF m, p
<1>7. Mutation(m, sess.nextId, p, {s})
    BY <1>1, <1>2, <1>4, <1>5, <1>6 DEF Mutation
<1> QED BY <1>7

LEMMA TopMutation ==
    ASSUME Shape, NEW s \in ShardId, UNCHANGED renamed, CreateTop(s) \/ DeleteTop(s)
    PROVE  \E m, nextId, pend, touched : Mutation(m, nextId, pend, touched)
<1>1. sess.mem \in Catalogs /\ sess.nextId \in Nat /\ renamed \subseteq ShardId
    BY DEF Shape, SessionOK, Session, Catalogs
<1>2. CASE CreateTop(s)
    <2> DEFINE v == [id |-> sess.nextId, kids |-> NoKids]
    <2>1. v \in Shard
        BY <1>1 DEF Shard, NoKids
    <2>2. "createTop" \in Ops /\ Mutate([sess.mem EXCEPT ![s] = v], sess.nextId + 1, NoPend, {s})
        BY <1>2 DEF CreateTop
    <2> HIDE DEF v
    <2>3. [sess.mem EXCEPT ![s] = v] \in Catalogs
        BY <1>1, <2>1 DEF Catalogs
    <2>4. Mutation([sess.mem EXCEPT ![s] = v], sess.nextId + 1, NoPend, {s})
        BY <1>1, <2>2, <2>3, NoPendType DEF Mutation, Fixed
    <2> QED BY <2>4
<1>3. CASE DeleteTop(s)
    <2> DEFINE m == [sess.mem EXCEPT ![s] = NoShard]
    <2>1. m \in Catalogs /\ m[s] = NoShard
        BY <1>1 DEF Catalogs
    <2>2. "deleteTop" \in Ops /\ s \notin Eager /\ Mutate(m, sess.nextId, NoPend, {s})
        BY <1>3 DEF DeleteTop
    <2> HIDE DEF m
    <2>3. Mutation(m, sess.nextId, NoPend, {s})
        BY <1>1, <2>1, <2>2, NoPendType DEF Mutation, Fixed
    <2> QED BY <2>3
<1> QED BY <1>2, <1>3

LEMMA RenameTopMutation ==
    ASSUME Shape, NEW s \in ShardId, NEW t \in ShardId, RenameTop(s, t)
    PROVE  \E m, nextId, pend, touched : Mutation(m, nextId, pend, touched)
<1>1. sess.mem \in Catalogs /\ sess.nextId \in Nat /\ renamed \subseteq ShardId
    BY DEF Shape, SessionOK, Session, Catalogs
<1> DEFINE m == [sess.mem EXCEPT ![s] = NoShard, ![t] = sess.mem[s]]
<1>2. /\ "renameTop" \in Ops /\ s \notin Eager /\ s # t /\ renamed' = renamed \cup {t}
      /\ Mutate(m, sess.nextId, NoPend, {s, t})
    BY DEF RenameTop
<1>3. m \in Catalogs /\ m[s] = NoShard
    BY <1>1, <1>2 DEF Catalogs
<1> HIDE DEF m
<1>4. Mutation(m, sess.nextId, NoPend, {s, t})
    BY <1>1, <1>2, <1>3, NoPendType DEF Mutation, Fixed
<1> QED BY <1>4

\* A command is a mutation or a compaction.
LEMMA CommandIs ==
    ASSUME Shape, Command
    PROVE  \/ \E m, nextId, pend, touched : Mutation(m, nextId, pend, touched)
           \/ \E s \in ShardId : Compact(s) /\ UNCHANGED renamed
<1>1. PICK s \in ShardId :
        \/ /\ \/ \E n \in Name : Create(s, n) \/ Update(s, n) \/ Delete(s, n)
              \/ \E n, to \in Name : Rename(s, n, to)
              \/ CreateTop(s) \/ DeleteTop(s) \/ Compact(s)
           /\ UNCHANGED renamed
        \/ \E t \in ShardId : RenameTop(s, t)
    BY DEF Command
<1>2. ASSUME NEW n \in Name, Create(s, n) \/ Update(s, n) \/ Delete(s, n) PROVE sess.mem[s] # NoShard
    BY <1>2 DEF Create, Update, Delete
<1> QED BY <1>1, <1>2, KidMutation, RenameMutation, TopMutation, RenameTopMutation

LEMMA MutationShape ==
    ASSUME Shape, NEW m, NEW nextId, NEW pend, NEW touched, Mutation(m, nextId, pend, touched)
    PROVE  Shape'
BY MutateShape DEF Mutation

LEMMA CompactShape ==
    ASSUME Shape, NEW s \in ShardId, Compact(s), UNCHANGED renamed
    PROVE  Shape'
<1> DEFINE o == [kind |-> "compact", pend |-> NoPend, touched |-> {s}, root |-> root,
                 first |-> {}, refused |-> FALSE]
<1>1. op' = o /\ saved' = sess /\ sess' = sess /\ C!StartSave /\ root[s] # NoMeta
    BY DEF Compact
<1>2. o \in Operation
    BY NoPendType DEF Operation, Pending, Shape, StoreOK
<1>3. op' # NoOp /\ op' \in Operation /\ op'.root = root /\ op'.touched = {s}
    BY <1>1, <1>2, NoneAssumption
<1>5. (LogOK(op.root))'
    BY <1>3 DEF LogOK, Shape, StoreOK
<1>6. SessionOK'
    BY <1>1, <1>3, <1>5 DEF SessionOK, Shape
<1> QED BY <1>1, <1>3, <1>6, StartSaveShape DEF Shape

LEMMA CommandShape ==
    ASSUME Shape, Command
    PROVE  Shape'
BY CommandIs, MutationShape, CompactShape

LEMMA TouchedOne ==
    ASSUME NEW s
    PROVE  (CHOOSE t \in {s} : TRUE) = s
OBVIOUS

\* The plan of a save or of a compaction.
LEMMA BeginPlan ==
    ASSUME Shape, BeginSave
    PROVE  \E q :
             /\ pc = "plan" /\ op # NoOp
             /\ \/ op.kind = "save" /\ SaveHyp(sess.mem, op.pend, q)
                \/ \E s \in ShardId : op.kind = "compact" /\ op.touched = {s} /\ CompactHyp(s, op.root, q)
             /\ C!Begin(q.plan)
             /\ op' = [op EXCEPT !.first = q.first, !.refused = q.refused]
             /\ UNCHANGED <<sess, saved, renamed>>
<1> DEFINE q == IF op.kind = "save" THEN SavePlan(sess.mem, op.pend)
                ELSE CompactPlan(CHOOSE s \in op.touched : TRUE, op.root)
<1>1. /\ pc = "plan" /\ WithinBounds(q.plan) /\ (op.kind = "compact" => ~q.refused) /\ C!Begin(q.plan)
      /\ op' = [op EXCEPT !.first = q.first, !.refused = q.refused]
      /\ UNCHANGED <<sess, saved, renamed>>
    BY DEF BeginSave
<1>2. op # NoOp /\ op \in Operation /\ op.kind \in {"save", "compact"} /\ op.root \in RootIndex /\ LogOK(op.root)
    BY <1>1 DEF Shape, Control, SessionOK, Operation
<1>3. CASE op.kind = "save"
    <2>1. q = SavePlan(sess.mem, op.pend)
        BY <1>3
    <2>2. PlanBase(sess.mem, op.pend)
        <3>1. op.pend \in [ShardId -> Pending]
            BY <1>2 DEF Operation, Pending
        <3> QED BY <3>1 DEF PlanBase, Shape, StoreOK, SessionOK, Session, Catalogs
    <2> HIDE DEF q
    <2>3. SaveHyp(sess.mem, op.pend, q)
        BY <1>1, <2>1, <2>2 DEF SaveHyp
    <2> QED BY <1>1, <1>2, <1>3, <2>3
<1>4. CASE op.kind = "compact"
    <2>1. PICK s \in ShardId : op.touched = {s} /\ op.root[s] # NoMeta
        BY <1>2, <1>4 DEF Shape, SessionOK
    <2>2. (CHOOSE t \in op.touched : TRUE) = s
        BY <2>1, TouchedOne
    <2>3. q = CompactPlan(s, op.root)
        BY <1>4, <2>2
    <2> HIDE DEF q
    <2>4. CompactHyp(s, op.root, q)
        BY <1>1, <1>2, <1>4, <2>1, <2>3 DEF CompactHyp, Shape, StoreOK
    <2> QED BY <1>1, <1>2, <1>4, <2>1, <2>4
<1> QED BY <1>2, <1>3, <1>4

LEMMA BeginShape ==
    ASSUME Shape, BeginSave
    PROVE  Shape'
<1>1. PICK q :
        /\ pc = "plan" /\ op # NoOp
        /\ \/ op.kind = "save" /\ SaveHyp(sess.mem, op.pend, q)
           \/ \E s \in ShardId : op.kind = "compact" /\ op.touched = {s} /\ CompactHyp(s, op.root, q)
        /\ C!Begin(q.plan)
        /\ op' = [op EXCEPT !.first = q.first, !.refused = q.refused]
        /\ UNCHANGED <<sess, saved, renamed>>
    BY BeginPlan
<1>2. /\ q.plan \in C!Plan /\ q.plan.val \in Contents /\ q.first \subseteq Chunk /\ q.refused \in BOOLEAN
      /\ LogOK(q.plan.root)
    <2>1. CASE op.kind = "save" /\ SaveHyp(sess.mem, op.pend, q)
        BY <2>1, SaveType, SaveRootOK DEF SaveHyp
    <2>2. CASE \E s \in ShardId : CompactHyp(s, op.root, q)
        BY <2>2, CompactType
    <2> QED BY <1>1, <2>1, <2>2
<1>3. UNCHANGED <<disk, root, rec, back>> /\ plan' = q.plan /\ todo' = C!New(q.plan) /\ pc' = "write"
    BY <1>1 DEF C!Begin, C!store
<1>4. plan' # NoPlan
    BY <1>2, <1>3, NoneAssumption
<1>5. StoreOK'
    <2>1. C!New(q.plan) \subseteq Chunk
        BY DEF C!New
    <2>2. (plan # NoPlan => plan.val \in Contents /\ LogOK(plan.root))'
        BY <1>2, <1>3 DEF LogOK
    <2> QED BY <1>2, <1>3, <2>1, <2>2 DEF Shape, StoreOK, C!Busy, C!Saving
<1>6. op' # NoOp /\ op' \in Operation /\ op'.root = op.root /\ op'.kind = op.kind /\ op'.touched = op.touched
    <2>1. op \in Operation
        BY <1>1 DEF Shape, SessionOK
    <2>2. op' \in Operation
        BY <1>1, <1>2, <2>1 DEF Operation
    <2>3. op'.root = op.root /\ op'.kind = op.kind /\ op'.touched = op.touched
        BY <1>1, <2>1 DEF Operation
    <2> QED BY <2>2, <2>3, NoneAssumption
<1>7. SessionOK'
    BY <1>1, <1>6 DEF Shape, SessionOK, LogOK
<1>8. Control'
    <2>1. back = "plan"
        BY <1>1 DEF Shape, Control
    <2> QED BY <1>3, <1>4, <1>6, <2>1 DEF Control, C!Saving, C!Recovering
<1> QED BY <1>5, <1>7, <1>8 DEF Shape

\* Every step keeps the shape.
LEMMA NextShape ==
    ASSUME Shape, [Next]_vars
    PROVE  Shape'
<1>1. CASE Refuse
    BY <1>1, FailShape DEF Refuse
<1>2. CASE (WriteChunk(TRUE) /\ Keep) \/ (CommitStep(TRUE) /\ Keep) \/ (RecoveryStep(TRUE) /\ Keep)
    BY <1>2, SaveProgress, StepShape
<1>3. CASE UNCHANGED vars
    <2>1. UNCHANGED <<disk, root, rec, plan, todo, back, pc, sess, saved, op, renamed>>
        BY <1>3 DEF vars, cvars
    <2> QED BY <2>1 DEF Shape, StoreOK, SessionOK, Control, LogOK
<1> QED BY <1>1, <1>2, <1>3, StartUnlockShape, ReadRecordShape, LoadShape, CommandShape, BeginShape,
           DoneShape, IoErrorShape, CrashShape, GcShape DEF Next

LEMMA InitRoot ==
    ASSUME Init
    PROVE  root \in RootIndex /\ LogOK(root)
<1>1. root = [s \in ShardId |-> IF s \in Preset THEN NewMeta ELSE NoMeta]
    BY DEF Init
<1>2. NewMeta \in ShardMeta
    BY NewMetaOK DEF MetaOK
<1> QED BY <1>1, <1>2, NewMetaOK DEF RootIndex, LogOK

LEMMA PresetFinite ==
    Cardinality(Preset) \in Nat
<1>1. IsFiniteSet(Preset)
    BY PresetAssumption, FiniteAssumption, FS_Subset
<1> QED BY <1>1, FS_CardinalityType

LEMMA InitShape ==
    ASSUME Init
    PROVE  Shape
<1>1. PICK f \in [Preset -> 1..Cardinality(Preset)] :
        disk = [c \in Chunk |-> IF c[1] = "snapshot" /\ c[3] = 0 /\ c[2] \in Preset
                                THEN [id |-> f[c[2]], kids |-> NoKids] ELSE Absent]
    BY DEF Init
<1>2. \A s \in Preset : [id |-> f[s], kids |-> NoKids] \in Shard
    BY <1>1, PresetFinite DEF Shard, NoKids
<1>3. disk \in Contents
    <2>1. disk \in [Chunk -> Shard \cup DeltaEntry \cup {Absent}]
        BY <1>1, <1>2
    <2>2. ASSUME NEW s \in ShardId, NEW n \in 0..MaxSeq
          PROVE  disk[Snapshot(s, n)] \in Shard \cup {Absent} /\ disk[Delta(s, n)] \in DeltaEntry \cup {Absent}
        <3>1. /\ Snapshot(s, n) \in Chunk /\ Snapshot(s, n)[2] = s
              /\ Delta(s, n) \in Chunk /\ Delta(s, n)[1] = "delta"
            BY ChunkOf DEF Snapshot, Delta
        <3> QED BY <1>1, <1>2, <3>1
    <2> QED BY <2>1, <2>2 DEF Contents
<1>4. StoreOK
    BY <1>3, InitRoot DEF Init, StoreOK
<1>5. SessionOK
    BY EmptySession DEF Init, SessionOK
<1> QED BY <1>4, <1>5 DEF Shape, Init, Control, C!Saving, C!Recovering

LEMMA ShapeInvariant == Spec => []Shape
<1>1. Init => Shape
    BY InitShape
<1>2. Shape /\ [Next]_vars => Shape'
    BY NextShape
<1> QED BY <1>1, <1>2, PTL DEF Spec

\* Every variable stays in its domain.
THEOREM SaveTypeCorrect == Spec => []TypeOK
<1>1. Shape => TypeOK
    BY DEF Shape, StoreOK, SessionOK, TypeOK
<1> QED BY <1>1, ShapeInvariant, PTL

\* The delta log of a shard never grows to the limit an unlock refuses to read, and the
\* numbers of its meta agree, whatever crashes, errors, compactions and collections happen.
THEOREM SaveLogBounded == Spec => []DeltaLogBounded
<1>1. Shape => DeltaLogBounded
    <2> SUFFICES ASSUME Shape, NEW s \in ShardId, root[s] # NoMeta
                 PROVE  /\ root[s].has => root[s].last - root[s].base \in 1..(MAX_DELTAS - 1)
                        /\ root[s].count = root[s].last - root[s].base
                        /\ root[s].version = root[s].last
        BY DEF DeltaLogBounded
    <2>1. MetaOK(root[s])
        BY DEF Shape, StoreOK, LogOK
    <2> QED BY <2>1 DEF MetaOK
<1> QED BY <1>1, ShapeInvariant, PTL

(***************************************************************************)
(* The catalog stays loadable.  With storage errors a commit may be left     *)
(* half done while the session goes on; what is proved then leaves out a     *)
(* compaction, which reads the root index before it recovers, and a garbage  *)
(* collection when shards come and go, which may delete a chunk that only    *)
(* the unfinished commit refers to.                                         *)
(***************************************************************************)
Covered == ~IoErrors \/ ("compact" \notin Ops /\ ("gc" \notin Ops \/ Fixed))

HasPreset(r) == \A s \in ShardId : r[s] # NoMeta <=> s \in Preset
OpenPreset(m) == \A s \in ShardId : m[s] # NoShard <=> s \in Preset

Complete(d, r) == \A c \in r.new : d[c] # Absent

\* What a commit record on disk promises to the recovery that finds it.
RecordFits(d, x, r) ==
    /\ r.phase = "Staging" => r.new \cap Refs(x) = {}
    /\ r.phase = "Committing" =>
         /\ r.new \subseteq Refs(r.root) /\ r.old \cap Refs(r.root) = {}
         /\ x = r.root \/ r.new \cap Refs(x) = {}
         /\ Complete(d, r) => GoodAt(d, r.root)
         /\ Fixed => Refs(r.root) \subseteq Refs(x) \cup r.new

Stored ==
    /\ GoodAt(disk, root) /\ (Fixed => HasPreset(root))
    /\ rec # NoRec => RecordFits(disk, root, rec) /\ (Fixed => HasPreset(rec.root))

\* What each step may rely on.
StepOK ==
    /\ pc \in {"load", "plan", "write", "dropOld"} => rec = NoRec
    /\ pc = "idle" /\ ~IoErrors => rec = NoRec
    /\ pc = "undo" => todo \subseteq rec.new /\ rec.new \cap Refs(root) = {}
    /\ pc = "redo" => rec.phase = "Committing" /\ Complete(disk, rec)
    /\ pc = "redoOld" => rec.phase = "Committing" /\ root = rec.root /\ todo \subseteq rec.old
    /\ pc = "mark" => rec = C!RecordOf(plan, "Staging")
    /\ pc \in {"swap", "unmark"} => rec = C!RecordOf(plan, "Committing")
    /\ pc \in {"unmark", "dropOld"} => root = plan.root
    /\ pc \in {"mark", "swap", "unmark"} => todo = {}
    /\ pc = "write" => plan.staged /\ todo \subseteq C!New(plan)
    /\ pc = "dropOld" => todo \subseteq plan.old

PlanFits(d, p, left) ==
    /\ C!New(p) \subseteq Refs(p.root) /\ p.old \cap Refs(p.root) = {}
    /\ \A c \in C!New(p) \ left : d[c] = p.val[c]
    /\ Fixed => HasPreset(p.root)

\* A plan that is not refused: what it will have written loads, as the session sees it.
PlanLoads(d, p) == GoodAt(Over(d, p), p.root)

Delivers(d, p, o, m, ren) ==
    "createTop" \notin Ops /\ o.kind = "save" =>
        \A s \in o.touched \ ren :
            try_load_sharded_catalog(Over(d, p), p.root)[s] = persistence_shards(m)[s]

SaveOK ==
    pc \in C!Saving =>
      /\ PlanFits(disk, plan, todo)
      /\ pc \in {"write", "mark", "swap"} => C!New(plan) \cap Refs(root) = {}
      /\ pc # "write" => ~op.refused
      /\ ~op.refused =>
           /\ PlanLoads(disk, plan) /\ Delivers(disk, plan, op, sess.mem, renamed)
           /\ Fixed => Refs(plan.root) \subseteq Refs(root) \cup C!New(plan)
      /\ op.kind = "compact" /\ pc \in {"write", "mark", "swap"} =>
           try_load_sharded_catalog(Over(disk, plan), plan.root) = try_load_sharded_catalog(disk, root)

OpOK ==
    /\ pc \in {"locked", "load", "idle"} \/ (pc \in C!Recovering /\ back = "load") => op = NoOp
    /\ Fixed /\ (pc = "idle" \/ op # NoOp) => OpenPreset(sess.mem) /\ OpenPreset(saved.mem)
    /\ op # NoOp =>
         /\ op.kind = "compact" /\ pc \in C!Recovering \cup {"plan"} =>
               pc \in {"recover", "plan"} /\ rec = NoRec /\ op.root = root
         /\ "createTop" \notin Ops /\ op.kind = "save" =>
               \A s \in op.touched \ renamed :
                  IF sess.mem[s] = NoShard THEN s \notin Eager ELSE op.pend[s] # << >>

Safe == Stored /\ StepOK /\ SaveOK /\ OpOK

LEMMA PutIs ==
    ASSUME NEW d \in Contents, NEW c \in Chunk, NEW v, NEW e, e = [d EXCEPT ![c] = v]
    PROVE  e[c] = v /\ \A x \in Chunk : x # c => e[x] = d[x]
BY DEF Contents

\* Writing or deleting a chunk that a root index does not refer to changes nothing it loads.
LEMMA PutFrame ==
    ASSUME NEW d \in Contents, NEW c \in Chunk, NEW v, NEW e, e = [d EXCEPT ![c] = v],
           NEW r, LogOK(r), c \notin Refs(r)
    PROVE  /\ try_load_sharded_catalog(e, r) = try_load_sharded_catalog(d, r)
           /\ GoodAt(d, r) => GoodAt(e, r)
<1>1. \A x \in Chunk : x # c => e[x] = d[x]
    BY PutIs
<1>2. \A x \in Refs(r) : e[x] = d[x]
    BY <1>1, RefsByShard
<1> QED BY <1>2, CatalogFrame

\* A root index that loads has all its chunks.
LEMMA GoodPresent ==
    ASSUME NEW d, NEW r, LogOK(r), GoodAt(d, r), NEW c \in Refs(r)
    PROVE  d[c] # Absent
<1>1. c \in Chunk /\ r[c[2]] # NoMeta /\ c \in chunks_for_meta(c[2], r[c[2]])
    BY RefsByShard
<1>2. c[2] \in ShardId
    BY <1>1 DEF Chunk, Snapshot, Delta
<1>3. load_full_shard_from_meta(d, c[2], r[c[2]]) # Failure
    BY <1>1, <1>2 DEF GoodAt
<1> QED BY <1>1, <1>3, LoadPresent

LEMMA OverPut ==
    ASSUME NEW d \in Contents, NEW p, NEW c \in C!New(p), NEW e, e = [d EXCEPT ![c] = p.val[c]]
    PROVE  Over(e, p) = Over(d, p)
<1>1. c \in Chunk /\ p.val[c] # Absent
    BY DEF C!New
<1>2. \A x \in Chunk : x # c => e[x] = d[x]
    BY <1>1, PutIs
<1> QED BY <1>1, <1>2 DEF Over

\* Once everything is written, the planned contents are the contents of the disk.
LEMMA OverAll ==
    ASSUME NEW d \in Contents, NEW p, \A c \in C!New(p) : d[c] = p.val[c]
    PROVE  Over(d, p) = d
<1>1. \A c \in Chunk : Over(d, p)[c] = d[c]
    BY DEF Over, C!New
<1>2. d = [c \in Chunk |-> d[c]] /\ Over(d, p) = [c \in Chunk |-> Over(d, p)[c]]
    BY DEF Contents, Over
<1> QED BY <1>1, <1>2

\* Deleting a superseded chunk leaves what the new root index loads.
LEMMA OverDrop ==
    ASSUME NEW d \in Contents, NEW p, LogOK(p.root), NEW c \in Chunk, c \notin Refs(p.root), NEW v,
           NEW e, e = [d EXCEPT ![c] = v]
    PROVE  /\ try_load_sharded_catalog(Over(e, p), p.root) = try_load_sharded_catalog(Over(d, p), p.root)
           /\ GoodAt(Over(d, p), p.root) => GoodAt(Over(e, p), p.root)
<1>1. \A x \in Chunk : x # c => e[x] = d[x]
    BY PutIs
<1>2. \A x \in Refs(p.root) : Over(e, p)[x] = Over(d, p)[x]
    BY <1>1, RefsByShard DEF Over
<1> QED BY <1>2, CatalogFrame

\* A chunk is deleted that the root index does not refer to.
LEMMA DeleteStored ==
    ASSUME Shape, Stored, NEW c \in Chunk, C!delete_chunk(c), c \notin Refs(root),
           \/ rec = NoRec
           \/ c \in rec.new
           \/ c \notin Refs(rec.root)
    PROVE  Stored'
<1>1. disk \in Contents /\ LogOK(root) /\ (rec # NoRec => LogOK(rec.root))
    BY DEF Shape, StoreOK
<1>2. disk' = [disk EXCEPT ![c] = Absent] /\ root' = root /\ rec' = rec
    BY DEF C!delete_chunk
<1>3. GoodAt(disk', root)
    BY <1>1, <1>2, PutFrame DEF Stored
<1>4. ASSUME rec # NoRec, Complete(disk, rec) => GoodAt(disk, rec.root), Complete(disk', rec)
      PROVE  GoodAt(disk', rec.root)
    <2>1. c \notin rec.new
        BY <1>1, <1>2, <1>4, PutIs DEF Complete
    <2>2. c \notin Refs(rec.root)
        BY <1>4, <2>1
    <2>3. Complete(disk, rec)
        <3>1. rec.new \subseteq Chunk
            BY <1>4 DEF Shape, StoreOK, C!Record
        <3>2. \A x \in Chunk : x # c => disk'[x] = disk[x]
            BY <1>1, <1>2, PutIs
        <3> QED BY <1>4, <2>1, <3>1, <3>2 DEF Complete
    <2> QED BY <1>1, <1>2, <1>4, <2>2, <2>3, PutFrame
<1>5. rec # NoRec => RecordFits(disk', root, rec)
    BY <1>4 DEF Stored, RecordFits
<1> QED BY <1>2, <1>3, <1>5 DEF Stored

LEMMA UndoStored ==
    ASSUME Shape, Safe, NEW c \in Chunk, NEW ok, C!Undo(c, ok)
    PROVE  Stored'
<1>1. c \in rec.new /\ c \notin Refs(root) /\ C!delete_chunk(c)
    BY DEF C!Undo, Safe, StepOK
<1> QED BY <1>1, DeleteStored DEF Safe

LEMMA RedoOldStored ==
    ASSUME Shape, Safe, NEW c \in Chunk, NEW ok, C!RedoOld(c, ok)
    PROVE  Stored'
<1>1. rec # NoRec /\ rec.phase = "Committing" /\ root = rec.root /\ c \in rec.old /\ C!delete_chunk(c)
    BY DEF C!RedoOld, Safe, StepOK, Shape, Control
<1>2. c \notin Refs(rec.root)
    BY <1>1 DEF Safe, Stored, RecordFits
<1> QED BY <1>1, <1>2, DeleteStored DEF Safe

LEMMA DeleteOldStored ==
    ASSUME Shape, Safe, NEW c \in Chunk, NEW ok, C!DeleteOld(c, ok)
    PROVE  Stored'
<1>1. rec = NoRec /\ root = plan.root /\ c \in plan.old /\ C!delete_chunk(c)
    BY DEF C!DeleteOld, Safe, StepOK
<1>2. c \notin Refs(root)
    BY <1>1 DEF C!DeleteOld, Safe, SaveOK, PlanFits, C!Saving
<1> QED BY <1>1, <1>2, DeleteStored DEF Safe

\* With errors and a collection the set of shards is fixed, and then a pending commit
\* refers to nothing but the chunks of the root index and its own.
LEMMA GcStored ==
    ASSUME Covered, Shape, Safe, Gc
    PROVE  Stored'
<1>1. PICK c \in Chunk : C!GcDelete(c)
    BY DEF Gc
<1>2. pc = "idle" /\ c \notin Refs(root) /\ C!delete_chunk(c)
    BY <1>1 DEF C!GcDelete
<1>3. CASE rec = NoRec
    BY <1>2, <1>3, DeleteStored DEF Safe
<1>4. CASE rec # NoRec
    <2>1. Fixed
        BY <1>2, <1>4 DEF Covered, Gc, Safe, StepOK
    <2>2. CASE rec.phase = "Committing"
        <3>1. c \in rec.new \/ c \notin Refs(rec.root)
            BY <1>2, <1>4, <2>1, <2>2 DEF Safe, Stored, RecordFits
        <3> QED BY <1>2, <3>1, DeleteStored DEF Safe
    <2>3. CASE rec.phase # "Committing"
        <3>1. disk \in Contents /\ LogOK(root)
            BY DEF Shape, StoreOK
        <3>2. disk' = [disk EXCEPT ![c] = Absent] /\ root' = root /\ rec' = rec
            BY <1>2 DEF C!delete_chunk
        <3>3. GoodAt(disk', root)
            BY <1>2, <3>1, <3>2, PutFrame DEF Safe, Stored
        <3> QED BY <2>3, <3>2, <3>3 DEF Safe, Stored, RecordFits
    <2> QED BY <2>2, <2>3
<1> QED BY <1>3, <1>4

LEMMA WriteChunkStored ==
    ASSUME Shape, Safe, NEW c \in Chunk, NEW ok, C!WriteChunk(c, ok)
    PROVE  Stored'
<1>1. disk \in Contents /\ LogOK(root)
    BY DEF Shape, StoreOK
<1>2. disk' = [disk EXCEPT ![c] = plan.val[c]] /\ root' = root /\ rec' = rec /\ rec = NoRec
    BY DEF C!WriteChunk, C!write_chunk, Safe, StepOK
<1>3. c \notin Refs(root)
    BY DEF C!WriteChunk, Safe, StepOK, SaveOK, C!Saving
<1>4. GoodAt(disk', root)
    <2> DEFINE v == plan.val[c]
    <2>1. disk' = [disk EXCEPT ![c] = v] /\ GoodAt(disk, root)
        BY <1>2 DEF Safe, Stored
    <2> HIDE DEF v
    <2> QED BY ONLY <1>1, <1>3, <2>1, c \in Chunk, PutFrame
<1> QED BY <1>2, <1>4 DEF Safe, Stored

LEMMA RedoStored ==
    ASSUME Shape, Safe, NEW ok, C!Redo(ok)
    PROVE  Stored'
<1>1. root' = rec.root /\ disk' = disk /\ rec' = rec /\ rec # NoRec
    BY DEF C!Redo, C!write_root_index, Shape, Control
<1>2. rec.phase = "Committing" /\ Complete(disk, rec)
    BY DEF C!Redo, Safe, StepOK
<1>3. RecordFits(disk, rec.root, rec) /\ GoodAt(disk, rec.root) /\ (Fixed => HasPreset(rec.root))
    BY <1>1, <1>2 DEF Safe, Stored, RecordFits
<1> QED BY <1>1, <1>3 DEF Stored

LEMMA ForgetStored ==
    ASSUME Safe, NEW ok, C!Forget(ok) \/ C!DeleteRecord(ok)
    PROVE  Stored'
<1>1. root' = root /\ disk' = disk /\ rec' = NoRec
    BY DEF C!Forget, C!DeleteRecord, C!delete_commit_record
<1> QED BY <1>1 DEF Safe, Stored

LEMMA PlanHere ==
    ASSUME Shape, pc \in C!Saving
    PROVE  plan \in C!Plan /\ plan # NoPlan /\ LogOK(plan.root) /\ plan.val \in Contents /\ op # NoOp /\ back = "plan"
BY DEF Shape, StoreOK, Control

LEMMA StagingStored ==
    ASSUME Shape, Safe, NEW ok, C!WriteStaging(ok)
    PROVE  Stored' /\ rec' = C!RecordOf(plan, "Staging")
<1>0. pc = "write" /\ plan \in C!Plan
    BY PlanHere DEF C!WriteStaging, C!Saving
<1>1. root' = root /\ disk' = disk /\ rec' = C!RecordOf(plan, "Staging")
    BY DEF C!WriteStaging, C!write_commit_record
<1>2. rec'.phase = "Staging" /\ rec'.new = C!New(plan) /\ rec'.root = plan.root
    BY <1>0, <1>1, RecordType
<1>3. RecordFits(disk, root, rec') /\ (Fixed => HasPreset(plan.root))
    BY <1>0, <1>2 DEF RecordFits, Safe, SaveOK, PlanFits, C!Saving
<1> QED BY <1>1, <1>2, <1>3 DEF Safe, Stored

\* When the last chunk is written the disk holds what the plan promised.
LEMMA PlanOnDisk ==
    ASSUME Shape, Safe, pc \in C!Saving, C!New(plan) \cap todo = {}
    PROVE  Over(disk, plan) = disk
<1>1. disk \in Contents
    BY DEF Shape, StoreOK
<1>2. \A c \in C!New(plan) : disk[c] = plan.val[c]
    BY DEF Safe, SaveOK, PlanFits
<1> QED BY <1>1, <1>2, OverAll

LEMMA CommittingStored ==
    ASSUME Shape, Safe, NEW ok, C!WriteCommitting(ok)
    PROVE  Stored' /\ rec' = C!RecordOf(plan, "Committing") /\ pc = "mark"
<1>0. pc = "mark" /\ todo = {} /\ plan \in C!Plan /\ ~op.refused
    BY PlanHere DEF C!WriteCommitting, C!Saving, Safe, StepOK, SaveOK
<1>1. root' = root /\ disk' = disk /\ rec' = C!RecordOf(plan, "Committing")
    BY DEF C!WriteCommitting, C!write_commit_record
<1>2. rec'.phase = "Committing" /\ rec'.new = C!New(plan) /\ rec'.root = plan.root /\ rec'.old = plan.old
    BY <1>0, <1>1, RecordType
<1>3. GoodAt(disk, plan.root)
    BY <1>0, PlanOnDisk DEF Safe, SaveOK, PlanLoads, C!Saving
<1>4. RecordFits(disk, root, rec') /\ (Fixed => HasPreset(plan.root))
    BY <1>0, <1>2, <1>3 DEF RecordFits, Safe, SaveOK, PlanFits, C!Saving
<1> QED BY <1>0, <1>1, <1>2, <1>4 DEF Safe, Stored

LEMMA WriteRootStored ==
    ASSUME Shape, Safe, NEW ok, C!WriteRoot(ok)
    PROVE  Stored'
<1>0. pc = "swap" /\ todo = {} /\ plan \in C!Plan /\ ~op.refused
    BY PlanHere DEF C!WriteRoot, C!Saving, Safe, StepOK, SaveOK
<1>1. root' = plan.root /\ disk' = disk /\ rec' = rec /\ rec = C!RecordOf(plan, "Committing")
    BY <1>0 DEF C!WriteRoot, C!write_root_index, Safe, StepOK
<1>2. rec.phase = "Committing" /\ rec.root = plan.root /\ rec # NoRec
    BY <1>0, <1>1, RecordType
<1>3. GoodAt(disk, plan.root)
    BY <1>0, PlanOnDisk DEF Safe, SaveOK, PlanLoads, C!Saving
<1>4. RecordFits(disk, plan.root, rec) /\ (Fixed => HasPreset(plan.root))
    BY <1>2, <1>3 DEF RecordFits, Safe, Stored
<1> QED BY <1>1, <1>2, <1>3, <1>4 DEF Stored

\* A storage call of a save or of a recovery, whether it then reports an error or not.
LEMMA ProgressStored ==
    ASSUME Shape, Safe, NEW ok \in BOOLEAN, C!Progress(ok)
    PROVE  Stored'
<1>1. CASE C!Finish(ok)
    <2>1. root' = root /\ disk' = disk /\ rec' = rec
        BY <1>1 DEF C!Finish, C!store
    <2> QED BY <2>1 DEF Safe, Stored
<1> QED BY <1>1, UndoStored, RedoOldStored, DeleteOldStored, WriteChunkStored, RedoStored, ForgetStored,
           StagingStored, CommittingStored, WriteRootStored DEF C!Progress

LEMMA StoppedSafe ==
    ASSUME Stored', pc' \in {"locked", "idle"}, op' = NoOp, pc' = "idle" /\ ~IoErrors => rec' = NoRec,
           Fixed /\ pc' = "idle" => OpenPreset(sess'.mem) /\ OpenPreset(saved'.mem)
    PROVE  Safe'
<1> USE DEF C!Saving, C!Recovering
<1>1. StepOK'
    BY DEF StepOK
<1>2. SaveOK'
    BY DEF SaveOK
<1>3. OpOK'
    BY DEF OpOK
<1> QED BY <1>1, <1>2, <1>3 DEF Safe

\* An operation that fails leaves the session it found.
LEMMA RollbackSafe ==
    ASSUME Shape, Safe, Stored', Rollback, pc \in C!Busy, pc' = C!Abort,
           pc' = "idle" /\ ~IoErrors => rec' = NoRec
    PROVE  Safe'
<1>1. CASE back = "load"
    <2>1. pc' = "locked" /\ op' = NoOp
        BY <1>1 DEF C!Abort, Rollback, Closed
    <2> QED BY <2>1, StoppedSafe
<1>2. CASE back # "load"
    <2>1. op # NoOp
        BY <1>2 DEF Shape, StoreOK, Control, C!Busy
    <2>2. pc' = "idle" /\ op' = NoOp /\ sess' = saved /\ saved' = saved
        BY <1>2 DEF C!Abort, Rollback
    <2>3. Fixed => OpenPreset(saved.mem)
        BY <2>1 DEF Safe, OpOK
    <2> QED BY <2>2, <2>3, StoppedSafe
<1> QED BY <1>1, <1>2

LEMMA RefuseSafe ==
    ASSUME Shape, Safe, Refuse
    PROVE  Safe'
<1>1. pc' = C!Abort /\ UNCHANGED <<disk, root, rec>> /\ pc \in C!Busy
    BY DEF Refuse, C!Fail, C!Goto, C!store
<1>2. rec = NoRec
    BY DEF Refuse, Safe, StepOK
<1>3. Stored'
    BY <1>1 DEF Safe, Stored
<1> QED BY <1>1, <1>2, <1>3, RollbackSafe DEF Refuse

LEMMA IoErrorSafe ==
    ASSUME Shape, Safe, IoError
    PROVE  Safe'
<1>0. Rollback /\ IoErrors
    BY DEF IoError
<1>1. CASE C!Fail
    <2>1. pc' = C!Abort /\ UNCHANGED <<disk, root, rec>> /\ pc \in C!Busy
        BY <1>1 DEF C!Fail, C!Goto, C!store
    <2>2. Stored'
        BY <2>1 DEF Safe, Stored
    <2> QED BY <1>0, <2>1, <2>2, RollbackSafe
<1>2. CASE WriteChunk(FALSE) \/ CommitStep(FALSE) \/ RecoveryStep(FALSE) \/ C!Finish(FALSE)
    <2>1. C!Progress(FALSE)
        BY <1>2, SaveProgress
    <2>2. pc' = C!Abort /\ pc \in C!Busy
        BY <2>1 DEF C!Progress, C!Undo, C!RedoOld, C!WriteChunk, C!DeleteOld, C!Redo, C!Forget,
                    C!WriteStaging, C!WriteCommitting, C!WriteRoot, C!DeleteRecord, C!Finish, C!Goto,
                    C!Busy, C!Saving, C!Recovering
    <2>3. Stored'
        BY <2>1, ProgressStored
    <2> QED BY <1>0, <2>2, <2>3, RollbackSafe
<1> QED BY <1>1, <1>2 DEF IoError

LEMMA CrashSafe ==
    ASSUME Shape, Safe, Crash
    PROVE  Safe'
<1>1. pc' = "locked" /\ UNCHANGED <<disk, root, rec>> /\ op' = NoOp
    BY DEF Crash, C!Crash, C!store, Closed
<1>2. Stored'
    BY <1>1 DEF Safe, Stored
<1> QED BY <1>1, <1>2, StoppedSafe

LEMMA DoneSafe ==
    ASSUME Shape, Safe, Done
    PROVE  Safe'
<1>1. /\ pc = "dropOld" /\ pc' = "idle" /\ UNCHANGED <<disk, root, rec>> /\ op' = NoOp
      /\ sess' = sess /\ saved' = sess
    BY DEF Done, C!Finish, C!Goto, C!store
<1>2. Stored'
    BY <1>1 DEF Safe, Stored
<1>3. rec = NoRec /\ op # NoOp
    BY <1>1, PlanHere DEF Safe, StepOK, C!Saving
<1>4. Fixed => OpenPreset(sess.mem)
    BY <1>3 DEF Safe, OpOK
<1> QED BY <1>1, <1>2, <1>3, <1>4, StoppedSafe

LEMMA GcSafe ==
    ASSUME Covered, Shape, Safe, Gc
    PROVE  Safe'
<1>1. pc = "idle" /\ UNCHANGED <<root, rec, pc, sess, saved, op>>
    BY DEF Gc, Keep, C!GcDelete, C!delete_chunk
<1>2. op = NoOp /\ (~IoErrors => rec = NoRec)
    BY <1>1 DEF Safe, OpOK, StepOK
<1>3. Fixed => OpenPreset(sess.mem) /\ OpenPreset(saved.mem)
    BY <1>1 DEF Safe, OpOK
<1> QED BY <1>1, <1>2, <1>3, GcStored, StoppedSafe

LEMMA LoadSafe ==
    ASSUME Shape, Safe, Load
    PROVE  Safe'
<1> DEFINE m == try_load_sharded_catalog(disk, root)
<1>1. /\ pc = "load" /\ pc' = "idle" /\ UNCHANGED <<disk, root, rec, op>>
      /\ \A s \in ShardId : m[s] # Failure
      /\ sess' = [mem |-> m, nextId |-> max_catalog_node_id(m) + 1] /\ saved' = sess'
    BY DEF Load, C!Loaded, C!store
<1>2. Stored'
    BY <1>1 DEF Safe, Stored
<1>3. rec = NoRec /\ op = NoOp
    BY <1>1 DEF Safe, StepOK, OpOK
<1>4. \A s \in ShardId : m[s] # NoShard <=> root[s] # NoMeta
    BY <1>1, LoadedType DEF Shape, StoreOK
<1>5. Fixed => OpenPreset(m)
    BY <1>4 DEF Safe, Stored, HasPreset, OpenPreset
<1> HIDE DEF m
<1>6. sess'.mem = m /\ saved'.mem = m
    BY <1>1
<1> QED BY <1>1, <1>2, <1>3, <1>5, <1>6, StoppedSafe

LEMMA StartUnlockSafe ==
    ASSUME Shape, Safe, StartUnlock
    PROVE  Safe'
<1>1. /\ UNCHANGED <<disk, root, rec, op>> /\ back' = "load" /\ pc' = "recover" /\ pc = "locked"
    BY DEF StartUnlock, C!StartUnlock, C!store, Keep
<1>2. op = NoOp
    BY <1>1 DEF Safe, OpOK
<1>3. Stored'
    BY <1>1 DEF Safe, Stored
<1>4. StepOK'
    BY <1>1 DEF StepOK
<1>5. SaveOK' /\ OpOK'
    BY <1>1, <1>2 DEF SaveOK, OpOK, C!Saving
<1> QED BY <1>3, <1>4, <1>5 DEF Safe

LEMMA ReadRecordSafe ==
    ASSUME Shape, Safe, ReadRecord
    PROVE  Safe'
<1> USE DEF C!Saving, C!Recovering
<1>1. /\ pc = "recover" /\ UNCHANGED <<disk, root, rec, back, sess, saved, op, renamed>>
      /\ IF rec = NoRec THEN pc' = back
         ELSE IF rec.phase = "Committing" /\ Complete(disk, rec) THEN pc' = "redo"
         ELSE pc' = "undo" /\ todo' = rec.new
    BY DEF ReadRecord, C!ReadRecord, C!store, Keep, Complete, C!all_chunks_exist
<1>2. back \in {"load", "plan"} /\ LogOK(root) /\ (rec # NoRec => rec \in C!Record)
    BY DEF Shape, StoreOK
<1>3. Stored'
    BY <1>1 DEF Safe, Stored
<1>4. ASSUME rec # NoRec, ~(rec.phase = "Committing" /\ Complete(disk, rec))
      PROVE  rec.new \cap Refs(root) = {}
    <2>1. RecordFits(disk, root, rec) /\ GoodAt(disk, root)
        BY <1>4 DEF Safe, Stored
    <2>2. CASE rec.phase = "Staging"
        BY <2>1, <2>2 DEF RecordFits
    <2>3. CASE rec.phase = "Committing" /\ root = rec.root
        <3>1. rec.new \subseteq Refs(root)
            BY <2>1, <2>3 DEF RecordFits
        <3>2. Complete(disk, rec)
            BY <1>2, <2>1, <3>1, GoodPresent DEF Complete
        <3> QED BY <1>4, <2>3, <3>2
    <2>4. CASE rec.phase = "Committing" /\ root # rec.root
        BY <2>1, <2>4 DEF RecordFits
    <2>5. rec.phase \in {"Staging", "Committing"}
        BY <1>2, <1>4 DEF C!Record, C!Phases
    <2> QED BY <2>2, <2>3, <2>4, <2>5
<1>5. StepOK'
    BY <1>1, <1>2, <1>4 DEF StepOK
<1>6. SaveOK'
    BY <1>1, <1>2 DEF SaveOK
<1>7. OpOK'
    <2>1. back = "load" => op = NoOp
        BY <1>1 DEF Safe, OpOK
    <2>2. op # NoOp /\ op.kind = "compact" => rec = NoRec /\ op.root = root
        BY <1>1 DEF Safe, OpOK
    <2>3. CASE op = NoOp
        BY <1>1, <1>2, <2>3 DEF OpOK
    <2>4. CASE op # NoOp
        <3>1. back = "plan" /\ pc' \notin {"locked", "load", "idle"}
            BY <1>1, <1>2, <2>1, <2>4
        <3> QED BY <1>1, <2>2, <2>4, <3>1 DEF Safe, OpOK
    <2> QED BY <2>3, <2>4
<1> QED BY <1>3, <1>5, <1>6, <1>7 DEF Safe

LEMMA StartSaveSafe ==
    ASSUME Safe, C!StartSave, OpOK'
    PROVE  Safe'
<1>1. /\ UNCHANGED <<disk, root, rec>> /\ pc' = "recover"
    BY DEF C!StartSave, C!store
<1>3. Stored'
    BY <1>1 DEF Safe, Stored
<1>4. StepOK'
    BY <1>1 DEF StepOK
<1>5. SaveOK'
    BY <1>1 DEF SaveOK, C!Saving
<1> QED BY <1>3, <1>4, <1>5 DEF Safe

LEMMA MutationSafe ==
    ASSUME Shape, Safe, NEW m, NEW nextId, NEW pend, NEW touched, Mutation(m, nextId, pend, touched)
    PROVE  Safe'
<1>1. /\ C!StartSave /\ saved' = sess /\ sess' = [mem |-> m, nextId |-> nextId]
      /\ op' = [kind |-> "save", pend |-> pend, touched |-> touched, root |-> NoRoot,
                first |-> {}, refused |-> FALSE]
    BY DEF Mutation, Mutate
<1>2. sess'.mem = m /\ saved'.mem = sess.mem
    BY <1>1
<1>3. op'.kind = "save" /\ op'.pend = pend /\ op'.touched = touched
    BY <1>1
<1>4. pc = "idle" /\ pc' = "recover" /\ back' = "plan"
    BY <1>1 DEF C!StartSave
<1>5. Fixed => OpenPreset(sess.mem) /\ OpenPreset(m)
    BY <1>4 DEF Safe, OpOK, Mutation, OpenPreset
<1>6. "createTop" \notin Ops =>
         \A s \in touched \ renamed' : IF m[s] = NoShard THEN s \notin Eager ELSE pend[s] # << >>
    BY DEF Mutation
<1>7. OpOK'
    BY <1>2, <1>3, <1>4, <1>5, <1>6 DEF OpOK
<1> QED BY <1>1, <1>7, StartSaveSafe

LEMMA CompactSafe ==
    ASSUME Covered, Shape, Safe, NEW s \in ShardId, Compact(s)
    PROVE  Safe'
<1>1. /\ C!StartSave /\ saved' = sess /\ sess' = sess
      /\ op' = [kind |-> "compact", pend |-> NoPend, touched |-> {s}, root |-> root,
                first |-> {}, refused |-> FALSE]
    BY DEF Compact
<1>3. op'.kind = "compact" /\ op'.root = root
    BY <1>1
<1>4. pc = "idle" /\ pc' = "recover" /\ back' = "plan" /\ UNCHANGED <<root, rec>>
    BY <1>1 DEF C!StartSave, C!store
<1>5. Fixed => OpenPreset(sess.mem)
    BY <1>4 DEF Safe, OpOK
<1>6. rec = NoRec
    BY <1>4 DEF Safe, StepOK, Covered, Compact
<1>7. OpOK'
    BY <1>1, <1>3, <1>4, <1>5, <1>6 DEF OpOK
<1> QED BY <1>1, <1>7, StartSaveSafe

LEMMA CommandSafe ==
    ASSUME Covered, Shape, Safe, Command
    PROVE  Safe'
BY CommandIs, MutationSafe, CompactSafe

LEMMA HereIs ==
    ASSUME NEW m \in Catalogs, NEW s \in ShardId
    PROVE  s \in Here(m) <=> m[s] # NoShard \/ s \in Eager
BY PersistenceType DEF Here

LEMMA SaveParts ==
    ASSUME NEW m, NEW pend, NEW q, SaveHyp(m, pend, q)
    PROVE  /\ m \in Catalogs /\ LogOK(root) /\ LogOK(q.plan.root)
           /\ \A s \in ShardId : q.plan.root[s] # NoMeta <=> s \in Here(m)
BY SaveRootOK DEF SaveHyp, PlanBase

\* A save over a fixed set of shards keeps that set.
LEMMA SaveFixed ==
    ASSUME NEW m, NEW pend, NEW q, SaveHyp(m, pend, q), Fixed, OpenPreset(m)
    PROVE  HasPreset(q.plan.root)
BY SaveParts, HereIs DEF Fixed, OpenPreset, HasPreset

LEMMA SaveGood ==
    ASSUME NEW m, NEW pend, NEW q, SaveHyp(m, pend, q), GoodAt(disk, root), ~IsRefused(m, pend)
    PROVE  PlanLoads(disk, q.plan)
<1>1. \A s \in ShardId : q.plan.root[s] # NoMeta => s \in Here(m)
    BY SaveParts
<1>2. \A s \in Here(m) : load_full_shard_from_meta(Over(disk, q.plan), s, q.plan.root[s]) # Failure
    BY SaveLoads DEF LoadedBy
<1> QED BY <1>1, <1>2 DEF PlanLoads, GoodAt

\* It asks for no chunk but those in use and those it writes.
LEMMA SaveCovers ==
    ASSUME NEW m, NEW pend, NEW q, SaveHyp(m, pend, q), GoodAt(disk, root), ~IsRefused(m, pend),
           Fixed, OpenPreset(m), HasPreset(root)
    PROVE  Refs(q.plan.root) \subseteq Refs(root) \cup C!New(q.plan)
<1> SUFFICES ASSUME NEW c \in Refs(q.plan.root) PROVE c \in Refs(root) \cup C!New(q.plan)
    OBVIOUS
<1>1. LogOK(root) /\ LogOK(q.plan.root) /\ m \in Catalogs
    BY SaveParts
<1>2. c \in Chunk /\ q.plan.root[c[2]] # NoMeta /\ c \in chunks_for_meta(c[2], q.plan.root[c[2]])
    BY <1>1, RefsByShard
<1>3. c[2] \in ShardId
    BY <1>2 DEF Chunk, Snapshot, Delta
<1>4. c[2] \in Here(m) /\ root[c[2]] # NoMeta
    BY <1>2, <1>3, SaveParts, SaveFixed DEF HasPreset
<1>5. LoadedBy(m, pend, q, c[2])
    BY <1>4, SaveLoads
<1>6. c \in chunks_for_meta(c[2], root[c[2]]) \cup C!New(q.plan)
    BY <1>2, <1>4, <1>5 DEF LoadedBy
<1> QED BY <1>1, <1>3, <1>4, <1>6, RefsByShard

\* An unlock reads back the shards a command changed, or not at all those it deleted.
LEMMA SaveDelivers ==
    ASSUME NEW m, NEW pend, NEW q, SaveHyp(m, pend, q), GoodAt(disk, root), ~IsRefused(m, pend),
           NEW s \in ShardId, IF m[s] = NoShard THEN s \notin Eager ELSE pend[s] # << >>
    PROVE  try_load_sharded_catalog(Over(disk, q.plan), q.plan.root)[s] = persistence_shards(m)[s]
<1>1. m \in Catalogs /\ LogOK(q.plan.root) /\ (q.plan.root[s] # NoMeta <=> s \in Here(m))
    BY SaveParts
<1>2. CASE m[s] = NoShard
    <2>1. s \notin Here(m)
        BY <1>1, <1>2, HereIs
    <2>2. persistence_shards(m)[s] = NoShard
        BY <2>1 DEF Here, Present
    <2> QED BY <1>1, <2>1, <2>2, LoadIn
<1>3. CASE m[s] # NoShard
    <2>1. s \in Here(m) /\ pend[s] # << >>
        BY <1>1, <1>3, HereIs
    <2>2. LoadedBy(m, pend, q, s)
        BY <2>1, SaveLoads
    <2> QED BY <1>1, <2>1, <2>2, LoadIn DEF LoadedBy
<1> QED BY <1>2, <1>3

LEMMA BeginSafe ==
    ASSUME Shape, Safe, BeginSave
    PROVE  Safe'
<1> USE DEF C!Saving, C!Recovering
<1>1. PICK q :
        /\ pc = "plan" /\ op # NoOp
        /\ \/ op.kind = "save" /\ SaveHyp(sess.mem, op.pend, q)
           \/ \E s \in ShardId : op.kind = "compact" /\ op.touched = {s} /\ CompactHyp(s, op.root, q)
        /\ C!Begin(q.plan)
        /\ op' = [op EXCEPT !.first = q.first, !.refused = q.refused]
        /\ UNCHANGED <<sess, saved, renamed>>
    BY BeginPlan
<1>2. /\ UNCHANGED <<disk, root, rec, back>> /\ plan' = q.plan /\ todo' = C!New(q.plan) /\ pc' = "write"
      /\ q.plan.staged
    BY <1>1 DEF C!Begin, C!store
<1>3. /\ op'.refused = q.refused /\ op'.kind = op.kind /\ op'.touched = op.touched
      /\ op'.pend = op.pend /\ op'.root = op.root
    <2>1. op \in Operation
        BY <1>1 DEF Shape, SessionOK
    <2> QED BY <1>1, <2>1 DEF Operation
<1>4. rec = NoRec /\ GoodAt(disk, root) /\ (Fixed => HasPreset(root) /\ OpenPreset(sess.mem))
    BY <1>1 DEF Safe, StepOK, Stored, OpOK
<1>5. Stored'
    BY <1>2 DEF Safe, Stored
<1>6. StepOK'
    BY <1>2, <1>4 DEF StepOK
<1>7. OpOK'
    BY <1>1, <1>2, <1>3 DEF Safe, OpOK
<1>8. CASE op.kind = "save" /\ SaveHyp(sess.mem, op.pend, q)
    <2>1. /\ C!New(q.plan) \cap Refs(root) = {} /\ C!New(q.plan) \subseteq Refs(q.plan.root)
          /\ q.plan.old \cap Refs(q.plan.root) = {}
        BY <1>8, SaveApart
    <2>2. Fixed => HasPreset(q.plan.root)
        BY <1>4, <1>8, SaveFixed
    <2>3. ASSUME ~q.refused
          PROVE  /\ PlanLoads(disk, q.plan)
                 /\ Fixed => Refs(q.plan.root) \subseteq Refs(root) \cup C!New(q.plan)
                 /\ Delivers(disk, q.plan, op', sess.mem, renamed)
        <3>1. ~IsRefused(sess.mem, op.pend)
            BY <1>8, <2>3, SaveType
        <3>2. PlanLoads(disk, q.plan)
            BY <1>4, <1>8, <3>1, SaveGood
        <3>3. Fixed => Refs(q.plan.root) \subseteq Refs(root) \cup C!New(q.plan)
            BY <1>4, <1>8, <3>1, SaveCovers
        <3>4. ASSUME "createTop" \notin Ops, NEW s \in op.touched \ renamed
              PROVE  try_load_sharded_catalog(Over(disk, q.plan), q.plan.root)[s]
                       = persistence_shards(sess.mem)[s]
            <4>1. s \in ShardId
                BY <1>1 DEF Shape, SessionOK, Operation
            <4>2. IF sess.mem[s] = NoShard THEN s \notin Eager ELSE op.pend[s] # << >>
                BY <1>1, <1>8, <3>4 DEF Safe, OpOK
            <4> QED BY <1>4, <1>8, <3>1, <4>1, <4>2, SaveDelivers
        <3>5. Delivers(disk, q.plan, op', sess.mem, renamed)
            BY <1>3, <3>4 DEF Delivers
        <3> QED BY <3>2, <3>3, <3>5
    <2>4. PlanFits(disk, q.plan, C!New(q.plan))
        BY <2>1, <2>2 DEF PlanFits
    <2>5. SaveOK'
        BY <1>1, <1>2, <1>3, <1>8, <2>1, <2>3, <2>4 DEF SaveOK
    <2> QED BY <1>5, <1>6, <1>7, <2>5 DEF Safe
<1>9. ASSUME NEW s \in ShardId, op.kind = "compact", CompactHyp(s, op.root, q) PROVE Safe'
    <2>0. op.root = root
        BY <1>1, <1>9 DEF Safe, OpOK
    <2>1. CompactHyp(s, root, q)
        BY <1>9, <2>0
    <2>2. /\ C!New(q.plan) \cap Refs(root) = {} /\ C!New(q.plan) \subseteq Refs(q.plan.root)
          /\ q.plan.old \cap Refs(q.plan.root) = {}
          /\ PlanLoads(disk, q.plan)
          /\ Refs(q.plan.root) \subseteq Refs(root) \cup C!New(q.plan)
          /\ try_load_sharded_catalog(Over(disk, q.plan), q.plan.root) = try_load_sharded_catalog(disk, root)
        BY <1>4, <2>1, CompactFits DEF PlanLoads
    <2>3. Fixed => HasPreset(q.plan.root)
        BY <1>4, <2>1, CompactType DEF HasPreset
    <2>4. PlanFits(disk, q.plan, C!New(q.plan))
        BY <2>2, <2>3 DEF PlanFits
    <2>5. Delivers(disk, q.plan, op', sess.mem, renamed)
        BY <1>3, <1>9 DEF Delivers
    <2>6. SaveOK'
        BY <1>1, <1>2, <1>3, <2>2, <2>4, <2>5 DEF SaveOK
    <2> QED BY <1>5, <1>6, <1>7, <2>6 DEF Safe
<1> QED BY <1>1, <1>8, <1>9

\* A step of a recovery.
LEMMA RecoverySafe ==
    ASSUME Shape, Safe, Keep, Stored', StepOK', back' = back, pc \in {"undo", "redo", "redoOld"},
           pc' \in {"undo", "redo", "redoOld"} \/ pc' = back
    PROVE  Safe'
<1> USE DEF C!Saving, C!Recovering
<1>1. back \in {"load", "plan"} /\ UNCHANGED <<sess, saved, op, renamed>>
    BY DEF Shape, StoreOK, Keep
<1>2. SaveOK'
    BY <1>1 DEF SaveOK
<1>3. OpOK'
    <2>1. CASE op = NoOp
        BY <1>1, <2>1 DEF OpOK
    <2>2. CASE op # NoOp
        <3>1. op.kind # "compact" /\ back = "plan"
            BY <1>1, <2>2 DEF Safe, OpOK
        <3> QED BY <1>1, <2>2, <3>1 DEF Safe, OpOK
    <2> QED BY <2>1, <2>2
<1> QED BY <1>2, <1>3 DEF Safe

LEMMA RecoveryStepSafe ==
    ASSUME Shape, Safe, Keep, RecoveryStep(TRUE)
    PROVE  Safe'
<1>0. Stored'
    BY SaveProgress, ProgressStored
<1>1. ASSUME NEW c \in Chunk, C!Undo(c, TRUE) PROVE Safe'
    <2>1. pc = "undo" /\ pc' = "undo" /\ todo' = todo \ {c} /\ UNCHANGED <<root, rec, back>>
        BY <1>1 DEF C!Undo, C!Goto, C!delete_chunk
    <2>2. StepOK'
        BY <2>1 DEF Safe, StepOK
    <2> QED BY <1>0, <2>1, <2>2, RecoverySafe
<1>2. ASSUME NEW c \in Chunk, C!RedoOld(c, TRUE) PROVE Safe'
    <2>1. pc = "redoOld" /\ pc' = "redoOld" /\ todo' = todo \ {c} /\ UNCHANGED <<root, rec, back>>
        BY <1>2 DEF C!RedoOld, C!Goto, C!delete_chunk
    <2>2. StepOK'
        BY <2>1 DEF Safe, StepOK
    <2> QED BY <1>0, <2>1, <2>2, RecoverySafe
<1>3. CASE C!Redo(TRUE)
    <2>1. /\ pc = "redo" /\ pc' = "redoOld" /\ todo' = rec.old /\ root' = rec.root /\ UNCHANGED <<rec, back>>
        BY <1>3 DEF C!Redo, C!Goto, C!write_root_index
    <2>2. StepOK'
        BY <2>1 DEF Safe, StepOK
    <2> QED BY <1>0, <2>1, <2>2, RecoverySafe
<1>4. CASE C!Forget(TRUE)
    <2>1. pc \in {"undo", "redoOld"} /\ pc' = back /\ rec' = NoRec /\ back' = back /\ back \in {"load", "plan"}
        BY <1>4 DEF C!Forget, C!Goto, C!delete_commit_record, Shape, StoreOK
    <2>2. StepOK'
        BY <2>1 DEF StepOK
    <2> QED BY <1>0, <2>1, <2>2, RecoverySafe
<1> QED BY <1>1, <1>2, <1>3, <1>4 DEF RecoveryStep

\* A step of a save.
LEMMA SavingSafe ==
    ASSUME Shape, Safe, Keep, Stored', StepOK', SaveOK', pc \in C!Saving, pc' \in C!Saving
    PROVE  Safe'
<1> USE DEF C!Saving, C!Recovering
<1>1. op # NoOp /\ UNCHANGED <<sess, saved, op, renamed>>
    BY PlanHere DEF Keep
<1>2. OpOK'
    BY <1>1 DEF Safe, OpOK
<1> QED BY <1>2 DEF Safe

LEMMA WriteChunkSafe ==
    ASSUME Shape, Safe, Keep, NEW c \in Chunk, C!WriteChunk(c, TRUE)
    PROVE  Safe'
<1> USE DEF C!Saving
<1>1. /\ pc = "write" /\ pc' = "write" /\ c \in todo /\ todo' = todo \ {c} /\ plan' = plan
      /\ disk' = [disk EXCEPT ![c] = plan.val[c]] /\ UNCHANGED <<root, rec, sess, op, renamed>>
    BY DEF C!WriteChunk, C!Goto, C!write_chunk, Keep
<1>2. disk \in Contents /\ LogOK(root)
    BY DEF Shape, StoreOK
<1>3. c \in C!New(plan) /\ c \notin Refs(root) /\ todo \subseteq C!New(plan) /\ rec = NoRec
    BY <1>1 DEF Safe, StepOK, SaveOK
<1>4. Stored'
    BY WriteChunkStored
<1>5. StepOK'
    BY <1>1 DEF Safe, StepOK
<1>6. Over(disk', plan) = Over(disk, plan)
    BY <1>1, <1>2, <1>3, OverPut
<1>7. try_load_sharded_catalog(disk', root) = try_load_sharded_catalog(disk, root)
    <2> DEFINE v == plan.val[c]
    <2>1. disk' = [disk EXCEPT ![c] = v]
        BY <1>1
    <2> HIDE DEF v
    <2> QED BY ONLY <1>2, <1>3, <2>1, c \in Chunk, PutFrame
<1>8. PlanFits(disk', plan, todo')
    <2>1. PlanFits(disk, plan, todo)
        BY <1>1 DEF Safe, SaveOK
    <2>2. disk'[c] = plan.val[c] /\ \A x \in Chunk : x # c => disk'[x] = disk[x]
        BY <1>1, <1>2, PutIs
    <2>3. C!New(plan) \subseteq Chunk
        BY DEF C!New
    <2> QED BY <1>1, <2>1, <2>2, <2>3 DEF PlanFits
<1>9. SaveOK'
    BY <1>1, <1>6, <1>7, <1>8 DEF Safe, SaveOK, PlanLoads, Delivers
<1> QED BY <1>1, <1>4, <1>5, <1>9, SavingSafe

LEMMA CommitStepSafe ==
    ASSUME Shape, Safe, Keep, CommitStep(TRUE)
    PROVE  Safe'
<1> USE DEF C!Saving
<1>0. Stored' /\ ~op.refused
    BY SaveProgress, ProgressStored DEF CommitStep
<1>1. CASE C!WriteStaging(TRUE)
    <2>1. /\ pc = "write" /\ pc' = "mark" /\ todo = {} /\ todo' = {} /\ plan' = plan
          /\ rec' = C!RecordOf(plan, "Staging") /\ UNCHANGED <<disk, root, sess, op, renamed>>
        BY <1>1 DEF C!WriteStaging, C!Goto, C!write_commit_record, Keep
    <2>2. StepOK'
        BY <2>1 DEF StepOK
    <2>3. SaveOK'
        BY <1>0, <2>1 DEF Safe, SaveOK
    <2> QED BY <1>0, <2>1, <2>2, <2>3, SavingSafe
<1>2. CASE C!WriteCommitting(TRUE)
    <2>1. /\ pc = "mark" /\ pc' = "swap" /\ todo' = {} /\ plan' = plan
          /\ rec' = C!RecordOf(plan, "Committing") /\ UNCHANGED <<disk, root, sess, op, renamed>>
        BY <1>2, CommittingStored DEF C!WriteCommitting, C!Goto, C!write_commit_record, Keep
    <2>2. StepOK' /\ todo = {}
        BY <2>1 DEF Safe, StepOK
    <2>3. SaveOK'
        BY <1>0, <2>1, <2>2 DEF Safe, SaveOK
    <2> QED BY <1>0, <2>1, <2>2, <2>3, SavingSafe
<1>3. CASE C!WriteRoot(TRUE)
    <2>1. /\ pc = "swap" /\ pc' = "unmark" /\ todo' = {} /\ plan' = plan
          /\ root' = plan.root /\ UNCHANGED <<disk, rec, sess, op, renamed>>
        BY <1>3 DEF C!WriteRoot, C!Goto, C!write_root_index, Keep
    <2>2. StepOK' /\ todo = {}
        BY <2>1 DEF Safe, StepOK
    <2>3. SaveOK'
        BY <1>0, <2>1, <2>2 DEF Safe, SaveOK
    <2> QED BY <1>0, <2>1, <2>2, <2>3, SavingSafe
<1>4. CASE C!DeleteRecord(TRUE)
    <2>1. /\ pc = "unmark" /\ pc' = "dropOld" /\ todo' = plan.old /\ plan' = plan
          /\ rec' = NoRec /\ UNCHANGED <<disk, root, sess, op, renamed>>
        BY <1>4 DEF C!DeleteRecord, C!Goto, C!delete_commit_record, Keep
    <2>2. StepOK' /\ todo = {}
        BY <2>1 DEF Safe, StepOK
    <2>3. PlanFits(disk, plan, plan.old)
        BY <2>1, <2>2 DEF Safe, SaveOK, PlanFits
    <2>4. SaveOK'
        BY <1>0, <2>1, <2>3 DEF Safe, SaveOK
    <2> QED BY <1>0, <2>1, <2>2, <2>4, SavingSafe
<1>5. ASSUME NEW c \in Chunk, C!DeleteOld(c, TRUE) PROVE Safe'
    <2>1. /\ pc = "dropOld" /\ pc' = "dropOld" /\ c \in todo /\ todo' = todo \ {c} /\ plan' = plan
          /\ disk' = [disk EXCEPT ![c] = Absent] /\ UNCHANGED <<root, rec, sess, op, renamed>>
        BY <1>5 DEF C!DeleteOld, C!Goto, C!delete_chunk, Keep
    <2>2. StepOK' /\ c \in plan.old /\ todo \subseteq plan.old
        BY <2>1 DEF Safe, StepOK
    <2>3. disk \in Contents /\ LogOK(plan.root)
        BY <2>1, PlanHere DEF Shape, StoreOK
    <2>4. PlanFits(disk, plan, todo)
        BY <2>1 DEF Safe, SaveOK
    <2>5. c \notin Refs(plan.root) /\ c \notin C!New(plan)
        BY <2>2, <2>4 DEF PlanFits
    <2>6. /\ try_load_sharded_catalog(Over(disk', plan), plan.root)
               = try_load_sharded_catalog(Over(disk, plan), plan.root)
          /\ GoodAt(Over(disk, plan), plan.root) => GoodAt(Over(disk', plan), plan.root)
        <3>1. disk' = [disk EXCEPT ![c] = Absent] /\ c \notin Refs(plan.root)
            BY <2>1, <2>5
        <3> HIDE DEF C!Saving
        <3> QED BY ONLY <2>3, <3>1, c \in Chunk, OverDrop
    <2>7. PlanFits(disk', plan, todo')
        <3>1. \A x \in Chunk : x # c => disk'[x] = disk[x]
            BY <2>1, <2>3, PutIs
        <3>2. C!New(plan) \subseteq Chunk
            BY DEF C!New
        <3> QED BY <2>1, <2>4, <2>5, <3>1, <3>2 DEF PlanFits
    <2>8. SaveOK'
        BY <1>0, <2>1, <2>6, <2>7 DEF Safe, SaveOK, PlanLoads, Delivers
    <2> QED BY <1>0, <2>1, <2>2, <2>8, SavingSafe
<1> QED BY <1>1, <1>2, <1>3, <1>4, <1>5 DEF CommitStep

\* Every step keeps the catalog safe.
LEMMA NextSafe ==
    ASSUME Covered, Shape, Safe, [Next]_vars
    PROVE  Safe'
<1>1. CASE WriteChunk(TRUE) /\ Keep
    <2>1. todo \subseteq Chunk
        BY DEF Shape, StoreOK
    <2> QED BY <1>1, <2>1, WriteChunkSafe DEF WriteChunk
<1>2. CASE UNCHANGED vars
    <2>1. UNCHANGED <<disk, root, rec, plan, todo, back, pc, sess, saved, op, renamed>>
        BY <1>2 DEF vars, cvars
    <2> QED BY <2>1 DEF Safe, Stored, StepOK, SaveOK, OpOK
<1> QED BY <1>1, <1>2, StartUnlockSafe, ReadRecordSafe, LoadSafe, CommandSafe, BeginSafe, CommitStepSafe,
           RecoveryStepSafe, DoneSafe, RefuseSafe, IoErrorSafe, CrashSafe, GcSafe DEF Next

LEMMA InitSafe ==
    ASSUME Init
    PROVE  Safe
<1> USE DEF C!Saving, C!Recovering
<1>1. PICK f \in [Preset -> 1..Cardinality(Preset)] :
        disk = [c \in Chunk |-> IF c[1] = "snapshot" /\ c[3] = 0 /\ c[2] \in Preset
                                THEN [id |-> f[c[2]], kids |-> NoKids] ELSE Absent]
    BY DEF Init
<1>2. root = [s \in ShardId |-> IF s \in Preset THEN NewMeta ELSE NoMeta] /\ rec = NoRec
    BY DEF Init
<1>3. GoodAt(disk, root)
    <2> SUFFICES ASSUME NEW s \in ShardId, root[s] # NoMeta
                 PROVE  load_full_shard_from_meta(disk, s, root[s]) # Failure
        BY DEF GoodAt
    <2>1. root[s] = NewMeta /\ s \in Preset
        BY <1>2
    <2>2. MetaOK(NewMeta) /\ ~NewMeta.has /\ NewMeta.seq = 0
        BY NewMetaOK DEF NewMeta
    <2>3. Snapshot(s, 0) \in Chunk /\ Snapshot(s, 0)[1] = "snapshot" /\ Snapshot(s, 0)[2] = s /\ Snapshot(s, 0)[3] = 0
        BY ChunkOf, BoundAssumption DEF Snapshot
    <2>4. disk[Snapshot(s, 0)] = [id |-> f[s], kids |-> NoKids]
        BY <1>1, <2>1, <2>3
    <2>5. [id |-> f[s], kids |-> NoKids] \in Shard
        BY <1>1, <2>1, PresetFinite DEF Shard, NoKids
    <2>6. load_full_shard_from_meta(disk, s, NewMeta) = disk[Snapshot(s, NewMeta.seq)]
        BY <2>2, <2>4, <2>5, LoadPlain, ContentAssumption
    <2> QED BY <2>1, <2>2, <2>4, <2>5, <2>6, ContentAssumption
<1>4. Stored
    BY <1>2, <1>3, NewMetaOK, MetaIsMeta DEF Stored, HasPreset
<1>5. StepOK
    BY DEF Init, StepOK
<1>6. SaveOK /\ OpOK
    BY DEF Init, SaveOK, OpOK
<1> QED BY <1>4, <1>5, <1>6 DEF Safe

LEMMA SafeInvariant ==
    ASSUME Covered
    PROVE  Spec => [](Shape /\ Safe)
<1>1. Init => Shape /\ Safe
    BY InitShape, InitSafe
<1>2. Shape /\ Safe /\ [Next]_vars => (Shape /\ Safe)'
    BY NextShape, NextSafe
<1> QED BY <1>1, <1>2, PTL DEF Spec

\* At every moment an unlock can load the catalog: no chunk the root index refers to is
\* missing and every delta log replays.
THEOREM SaveCatalogLoads ==
    ASSUME Covered
    PROVE  Spec => []CatalogLoads
<1>1. Shape /\ Safe => CatalogLoads
    <2> SUFFICES ASSUME Shape, Safe, NEW s \in ShardId
                 PROVE  try_load_sharded_catalog(disk, root)[s] # Failure
        BY DEF CatalogLoads
    <2>1. LogOK(root) /\ GoodAt(disk, root)
        BY DEF Shape, StoreOK, Safe, Stored
    <2>2. NoShard # Failure
        BY ContentAssumption
    <2> QED BY <2>1, <2>2, LoadIn DEF GoodAt
<1> QED BY <1>1, SafeInvariant, PTL

\* When a save can only succeed, an unlock gives back exactly the shards its command
\* changed (but for directories that were renamed, and where none is created).
THEOREM SaveIsDurable ==
    ASSUME Covered, "createTop" \notin Ops
    PROVE  Spec => []SuccessMeansDurable
<1>1. Shape /\ Safe => SuccessMeansDurable
    <2> SUFFICES ASSUME Shape, Safe, pc = "dropOld", op.kind = "save", NEW s \in op.touched \ renamed
                 PROVE  try_load_sharded_catalog(disk, root)[s] = persistence_shards(sess.mem)[s]
        BY DEF SuccessMeansDurable, LoadsAsInMemory
    <2>1. pc \in C!Saving /\ root = plan.root /\ todo \subseteq plan.old
        BY DEF C!Saving, Safe, StepOK
    <2>2. PlanFits(disk, plan, todo) /\ Delivers(disk, plan, op, sess.mem, renamed)
        BY <2>1 DEF Safe, SaveOK
    <2>3. C!New(plan) \cap todo = {}
        BY <2>1, <2>2 DEF PlanFits
    <2>4. Over(disk, plan) = disk
        BY <2>1, <2>3, PlanOnDisk
    <2> QED BY <2>1, <2>2, <2>4 DEF Delivers
<1> QED BY <1>1, SafeInvariant, PTL

\* A save over a fixed set of shards asks the commit protocol only for what the protocol
\* is proved safe for in CatalogCommitProofs.
THEOREM SavePlanSafe ==
    ASSUME Covered, Fixed
    PROVE  Spec => []PlanSafe
<1>1. Shape /\ Safe => PlanSafe
    <2> SUFFICES ASSUME Shape, Safe, pc \in {"write", "mark"}, ~op.refused
                 PROVE  C!PlanOK(plan)
        BY DEF PlanSafe
    <2> QED BY DEF Safe, SaveOK, PlanFits, C!PlanOK, C!Saving
<1> QED BY <1>1, SafeInvariant, PTL

\* Compacting a shard changes nothing an unlock would load.
THEOREM SaveCompactionPreserves ==
    ASSUME Covered
    PROVE  Spec => CompactionPreserves
<1> DEFINE Loaded == try_load_sharded_catalog(disk, root)
<1>1. ASSUME Shape, Safe, [Next]_vars, pc = "swap", op.kind = "compact"
      PROVE  Loaded' = Loaded
    <2>1. CASE UNCHANGED <<disk, root>>
        BY <2>1
    <2>2. ASSUME NEW ok, C!WriteRoot(ok) PROVE Loaded' = Loaded
        <3>1. disk' = disk /\ root' = plan.root
            BY <2>2 DEF C!WriteRoot, C!write_root_index
        <3>2. todo = {} /\ pc \in C!Saving
            BY <1>1 DEF Safe, StepOK, C!Saving
        <3>3. Over(disk, plan) = disk
            BY <1>1, <3>2, PlanOnDisk
        <3>4. try_load_sharded_catalog(disk, plan.root) = try_load_sharded_catalog(disk, root)
            BY <1>1, <3>2, <3>3 DEF Safe, SaveOK
        <3> QED BY <3>1, <3>4
    <2>3. UNCHANGED <<disk, root>> \/ \E ok \in BOOLEAN : C!WriteRoot(ok)
        <3>1. CASE UNCHANGED vars
            BY <3>1 DEF vars, cvars
        <3>2. CASE StartUnlock \/ ReadRecord \/ Load \/ BeginSave \/ WriteChunk(TRUE) \/ Done \/ Gc
            BY <1>1, <3>2 DEF StartUnlock, C!StartUnlock, ReadRecord, C!ReadRecord, Load, C!Loaded, BeginSave,
                              WriteChunk, Done, C!Finish, Gc, C!GcDelete
        <3>3. CASE Command
            <4>1. C!StartSave
                BY <1>1, <3>3, CommandIs DEF Mutation, Mutate, Compact
            <4> QED BY <1>1, <4>1 DEF C!StartSave
        <3>4. ASSUME NEW ok \in BOOLEAN, CommitStep(ok) PROVE C!WriteRoot(ok)
            BY <1>1, <3>4 DEF CommitStep, C!WriteStaging, C!WriteCommitting, C!DeleteRecord, C!DeleteOld
        <3>5. ASSUME NEW ok \in BOOLEAN, RecoveryStep(ok) \/ WriteChunk(ok) \/ C!Finish(ok) PROVE FALSE
            BY <1>1, <3>5 DEF RecoveryStep, C!Undo, C!RedoOld, C!Redo, C!Forget, WriteChunk, C!Finish
        <3>6. CASE C!Fail \/ Crash
            BY <3>6 DEF C!Fail, Crash, C!Crash, C!store
        <3>7. CASE IoError
            BY <3>4, <3>5, <3>6, <3>7 DEF IoError
        <3> QED BY <1>1, <3>1, <3>2, <3>3, <3>4, <3>5, <3>6, <3>7 DEF Next, Refuse
    <2> QED BY <2>1, <2>2, <2>3
<1>2. Shape /\ Safe /\ [Next]_vars =>
        [pc = "swap" /\ op.kind = "compact" =>
           try_load_sharded_catalog(disk, root)' = try_load_sharded_catalog(disk, root)]_vars
    BY <1>1
<1> QED BY <1>2, SafeInvariant, PTL DEF Spec, CompactionPreserves

(***************************************************************************)
(* Node ids, over any crashes.  Without storage errors a session and the     *)
(* durable catalog agree between two commands, but for system shards that    *)
(* the session does not have yet and for names that were renamed to.         *)
(***************************************************************************)
Apart(l, ren) ==
    \A s, t \in {x \in ShardId \ ren : l[x] \notin {NoShard, Failure}} :
        /\ s # t => Ids(l[s]) \cap Ids(l[t]) = {}
        /\ catalog_node_ids_unique(l[s])

Below(m, next) == \A s \in ShardId : m[s] # NoShard => \A i \in Ids(m[s]) : i < next

\* The durable catalog l, of root index r, is what the session m holds.
Matches(r, l, m, ren) ==
    \A s \in ShardId \ ren :
        IF m[s] = NoShard /\ s \in Eager
        THEN r[s] # NoMeta => ~r[s].has /\ l[s].kids = NoKids
        ELSE l[s] = m[s]

\* What a command did to a shard: recorded a delta, nothing, deleted it or created it.
Changed(pend, m, old, ren) ==
    \A s \in ShardId \ ren :
        \/ /\ pend[s] # << >> /\ m[s] # NoShard /\ old[s] # NoShard
           /\ has_existing_node_mutation_delta(pend[s]) \/ catalog_preserves_existing_nodes(old[s], m[s])
        \/ pend[s] = << >> /\ m[s] = old[s]
        \/ pend[s] = << >> /\ s \notin Eager /\ m[s] = NoShard
        \/ pend[s] = << >> /\ s \notin Eager /\ old[s] = NoShard /\ m[s] # NoShard /\ m[s].kids = NoKids

\* The first snapshot of a shard is that of an empty directory.
Bare(d, ren) == \A s \in ShardId \ ren : d[Snapshot(s, 0)] # Absent => d[Snapshot(s, 0)].kids = NoKids

Exact(d, p, m, ren) ==
    \A s \in ShardId \ ren :
        try_load_sharded_catalog(Over(d, p), p.root)[s] = persistence_shards(m)[s]

DiskSynced ==
    /\ Bare(disk, renamed) /\ Apart(try_load_sharded_catalog(disk, root), renamed)
    /\ rec # NoRec /\ rec.phase = "Committing" /\ Complete(disk, rec) =>
         Apart(try_load_sharded_catalog(disk, rec.root), renamed)

PlanSynced ==
    pc \in C!Saving =>
      /\ Bare(plan.val, renamed)
      /\ ~op.refused =>
           /\ Apart(try_load_sharded_catalog(Over(disk, plan), plan.root), renamed)
           /\ Matches(plan.root, try_load_sharded_catalog(Over(disk, plan), plan.root), sess.mem, renamed)
           /\ op.kind = "save" => Exact(disk, plan, sess.mem, renamed)

SessionSynced ==
    /\ pc = "idle" \/ op # NoOp =>
         /\ Apart(sess.mem, renamed) /\ Below(sess.mem, sess.nextId)
         /\ Apart(saved.mem, renamed) /\ Below(saved.mem, saved.nextId)
    /\ pc = "idle" => Matches(root, try_load_sharded_catalog(disk, root), sess.mem, renamed)
    /\ op # NoOp =>
         /\ pc \in C!Recovering => pc = "recover" /\ rec = NoRec
         /\ pc \in {"recover", "plan", "write", "mark", "swap"} =>
              Matches(root, try_load_sharded_catalog(disk, root), saved.mem, renamed)
         /\ op.kind = "save" => Changed(op.pend, sess.mem, saved.mem, renamed)
         /\ op.kind = "compact" => sess = saved

Synced == DiskSynced /\ PlanSynced /\ SessionSynced

LEMMA IdsIs ==
    ASSUME NEW sh, NEW i
    PROVE  i \in Ids(sh) <=> i = sh.id \/ \E n \in Name : sh.kids[n] # NoNode /\ i = sh.kids[n].id
BY DEF Ids

LEMMA IdsNat ==
    ASSUME NEW m \in Catalogs, NEW s \in ShardId, m[s] # NoShard
    PROVE  m[s] \in Shard /\ Ids(m[s]) \in SUBSET Nat /\ m[s] # Failure
<1>1. m[s] \in Shard
    BY DEF Catalogs
<1> QED BY <1>1, IdsFinite, ContentAssumption

\* A catalog with fewer shards has no more clashes.
LEMMA ApartLess ==
    ASSUME NEW old, NEW ren, NEW next, Apart(old, ren), Below(old, next), NEW m, NEW ren2, ren \subseteq ren2,
           \A u \in ShardId \ ren2 : m[u] = old[u] \/ m[u] = NoShard
    PROVE  Apart(m, ren2)
BY DEF Apart

\* A shard is put in place of another, with the same ids and perhaps the next one.
LEMMA PutApart ==
    ASSUME NEW old \in Catalogs, NEW ren, NEW next \in Nat, Apart(old, ren), Below(old, next),
           NEW s \in ShardId, NEW x \in Shard, NEW next2 \in Nat, next <= next2,
           \A i \in Ids(x) : (old[s] # NoShard /\ i \in Ids(old[s])) \/ (i = next /\ next < next2),
           s \notin ren => catalog_node_ids_unique(x),
           NEW m, m = [old EXCEPT ![s] = x]
    PROVE  Apart(m, ren) /\ Below(m, next2)
<1>1. \A t \in ShardId : m[t] = IF t = s THEN x ELSE old[t]
    BY DEF Catalogs
<1>2. \A t \in ShardId : old[t] # NoShard => Ids(old[t]) \in SUBSET Nat /\ old[t] # Failure
    BY IdsNat
<1>3. Ids(x) \in SUBSET Nat
    BY IdsFinite
<1>4. Below(m, next2)
    <2> SUFFICES ASSUME NEW t \in ShardId, m[t] # NoShard, NEW i \in Ids(m[t]) PROVE i < next2
        BY DEF Below
    <2>1. CASE t = s
        <3>1. i \in Ids(x) /\ i \in Nat
            BY <1>1, <1>3, <2>1
        <3>2. CASE old[s] # NoShard /\ i \in Ids(old[s])
            BY <3>1, <3>2 DEF Below
        <3>3. CASE i = next /\ next < next2
            BY <3>3
        <3> QED BY <3>1, <3>2, <3>3
    <2>2. CASE t # s
        <3>1. old[t] # NoShard /\ i \in Ids(old[t])
            BY <1>1, <2>2
        <3>2. i < next /\ i \in Nat
            BY <1>2, <3>1 DEF Below
        <3> QED BY <3>2
    <2> QED BY <2>1, <2>2
<1>5. ASSUME NEW t \in ShardId \ ren, t # s, s \notin ren, old[t] # NoShard, NEW i \in Ids(x), i \in Ids(old[t])
      PROVE  FALSE
    <2>1. CASE old[s] # NoShard /\ i \in Ids(old[s])
        BY <1>2, <1>5, <2>1 DEF Apart
    <2>2. CASE i = next
        <3>1. i < next
            BY <1>5 DEF Below
        <3> QED BY <2>2, <3>1
    <2> QED BY <2>1, <2>2
<1>6. Apart(m, ren)
    <2> SUFFICES ASSUME NEW a \in ShardId \ ren, NEW b \in ShardId \ ren, m[a] \notin {NoShard, Failure},
                        m[b] \notin {NoShard, Failure}
                 PROVE  (a # b => Ids(m[a]) \cap Ids(m[b]) = {}) /\ catalog_node_ids_unique(m[a])
        BY DEF Apart
    <2>1. CASE a = s
        <3>1. m[a] = x /\ catalog_node_ids_unique(x)
            BY <1>1, <2>1
        <3>2. ASSUME a # b PROVE Ids(m[a]) \cap Ids(m[b]) = {}
            BY <1>1, <1>5, <2>1, <3>1, <3>2
        <3> QED BY <3>1, <3>2
    <2>2. CASE a # s
        <3>1. m[a] = old[a]
            BY <1>1, <2>2
        <3>2. CASE b = s
            <4>1. Ids(m[a]) \cap Ids(m[b]) = {}
                BY <1>1, <1>5, <2>2, <3>1, <3>2
            <4> QED BY <3>1, <4>1 DEF Apart
        <3>3. CASE b # s
            <4>1. m[b] = old[b]
                BY <1>1, <3>3
            <4> QED BY <3>1, <4>1 DEF Apart
        <3> QED BY <3>2, <3>3
    <2> QED BY <2>1, <2>2
<1> QED BY <1>4, <1>6

\* The ids given to missing system shards are new and different.
LEMMA FreshIds ==
    ASSUME NEW m \in Catalogs, NEW s \in ShardId, m[s] = NoShard, s \in Eager
    PROVE  /\ persistence_shards(m)[s].id \in Nat /\ persistence_shards(m)[s].id > max_catalog_node_id(m)
           /\ persistence_shards(m)[s].kids = NoKids
           /\ \A i \in Ids(persistence_shards(m)[s]) : i = persistence_shards(m)[s].id
           /\ catalog_node_ids_unique(persistence_shards(m)[s])
<1> DEFINE v == persistence_shards(m)[s]
<1>1. v = [id |-> max_catalog_node_id(m) + Cardinality(MissingUpTo(m, s)), kids |-> NoKids]
    BY DEF persistence_shards
<1>2. v.id = max_catalog_node_id(m) + Cardinality(MissingUpTo(m, s)) /\ v.kids = NoKids
    BY <1>1
<1>3. PICK j \in DOMAIN SystemShards : SystemShards[j] = s
    BY DEF Eager
<1>4. j \in MissingUpTo(m, s)
    <2>1. j \in Nat
        BY SystemAssumption
    <2> QED BY <1>3, <2>1 DEF MissingUpTo
<1>5. Cardinality(MissingUpTo(m, s)) \in Nat /\ Cardinality(MissingUpTo(m, s)) # 0
    BY <1>4, MissingFinite, FS_EmptySet
<1>6. v.id \in Nat /\ v.id > max_catalog_node_id(m)
    BY <1>2, <1>5, NodeIdNat
<1> HIDE DEF v
<1>7. \A n \in Name : v.kids[n] = NoNode
    BY <1>2 DEF NoKids
<1>8. \A i \in Ids(v) : i = v.id
    BY <1>7, IdsIs
<1>9. catalog_node_ids_unique(v)
    BY <1>7 DEF catalog_node_ids_unique
<1> QED BY <1>2, <1>6, <1>8, <1>9 DEF v

LEMMA FreshDiffer ==
    ASSUME NEW m \in Catalogs, NEW s \in ShardId, NEW t \in ShardId, s # t,
           m[s] = NoShard, s \in Eager, m[t] = NoShard, t \in Eager
    PROVE  persistence_shards(m)[s].id # persistence_shards(m)[t].id
<1>1. DOMAIN SystemShards \subseteq Nat
    BY SystemAssumption
<1>2. ASSUME NEW a \in DOMAIN SystemShards, NEW b \in DOMAIN SystemShards, a < b,
             m[SystemShards[a]] = NoShard, m[SystemShards[b]] = NoShard
      PROVE  Cardinality(MissingUpTo(m, SystemShards[a])) # Cardinality(MissingUpTo(m, SystemShards[b]))
    <2>1. MissingUpTo(m, SystemShards[a]) \subseteq MissingUpTo(m, SystemShards[b])
        <3> SUFFICES ASSUME NEW i \in MissingUpTo(m, SystemShards[a]) PROVE i \in MissingUpTo(m, SystemShards[b])
            OBVIOUS
        <3>1. PICK j \in DOMAIN SystemShards : i <= j /\ SystemShards[j] = SystemShards[a]
            BY DEF MissingUpTo
        <3>2. j = a /\ i \in DOMAIN SystemShards /\ m[SystemShards[i]] = NoShard
            BY <3>1, SystemAssumption DEF MissingUpTo
        <3>3. i <= b
            BY <1>1, <1>2, <3>1, <3>2
        <3> QED BY <3>2, <3>3 DEF MissingUpTo
    <2>2. b \in MissingUpTo(m, SystemShards[b])
        BY <1>1, <1>2 DEF MissingUpTo
    <2>3. b \notin MissingUpTo(m, SystemShards[a])
        <3> SUFFICES ASSUME b \in MissingUpTo(m, SystemShards[a]) PROVE FALSE
            OBVIOUS
        <3>1. PICK j \in DOMAIN SystemShards : b <= j /\ SystemShards[j] = SystemShards[a]
            BY DEF MissingUpTo
        <3>2. j = a
            BY <3>1, SystemAssumption
        <3> QED BY <1>1, <1>2, <3>1, <3>2
    <2> QED BY <2>1, <2>2, <2>3, MissingFinite, FS_Subset
<1>3. PICK a \in DOMAIN SystemShards : SystemShards[a] = s
    BY DEF Eager
<1>4. PICK b \in DOMAIN SystemShards : SystemShards[b] = t
    BY DEF Eager
<1>5. a < b \/ b < a
    BY <1>1, <1>3, <1>4
<1>6. Cardinality(MissingUpTo(m, s)) # Cardinality(MissingUpTo(m, t))
    BY <1>2, <1>3, <1>4, <1>5
<1>7. /\ persistence_shards(m)[s].id = max_catalog_node_id(m) + Cardinality(MissingUpTo(m, s))
      /\ persistence_shards(m)[t].id = max_catalog_node_id(m) + Cardinality(MissingUpTo(m, t))
    BY DEF persistence_shards
<1> QED BY <1>6, <1>7, NodeIdNat, MissingFinite

\* What a save persists has unique ids if the session has.
LEMMA PersistApart ==
    ASSUME NEW m \in Catalogs, NEW ren, Apart(m, ren)
    PROVE  Apart(persistence_shards(m), ren)
<1> DEFINE p == persistence_shards(m)
<1>1. \A s \in ShardId : m[s] # NoShard => p[s] = m[s]
    BY PersistenceType
<1>2. \A s \in ShardId : m[s] = NoShard /\ p[s] # NoShard => s \in Eager
    BY DEF persistence_shards
<1>3. \A s \in ShardId : m[s] # NoShard =>
         m[s] # Failure /\ \A i \in Ids(m[s]) : i \in Nat /\ i <= max_catalog_node_id(m)
    BY IdsNat, NodeIdNat
<1>4. \A s \in ShardId : m[s] = NoShard /\ s \in Eager =>
         /\ \A i \in Ids(p[s]) : i = p[s].id /\ i \in Nat /\ i > max_catalog_node_id(m)
         /\ catalog_node_ids_unique(p[s])
    BY FreshIds
<1>5. \A s, t \in ShardId : s # t /\ m[s] = NoShard /\ s \in Eager /\ m[t] = NoShard /\ t \in Eager =>
         p[s].id # p[t].id
    BY FreshDiffer
<1>6. max_catalog_node_id(m) \in Nat
    BY NodeIdNat
<1> HIDE DEF p
<1> SUFFICES ASSUME NEW a \in ShardId \ ren, NEW b \in ShardId \ ren, p[a] \notin {NoShard, Failure},
                    p[b] \notin {NoShard, Failure}
             PROVE  (a # b => Ids(p[a]) \cap Ids(p[b]) = {}) /\ catalog_node_ids_unique(p[a])
    BY DEF Apart, p
<1>7. catalog_node_ids_unique(p[a])
    BY <1>1, <1>2, <1>3, <1>4 DEF Apart
<1>8. ASSUME a # b, NEW i \in Ids(p[a]), i \in Ids(p[b]) PROVE FALSE
    <2>1. CASE m[a] # NoShard /\ m[b] # NoShard
        BY <1>1, <1>3, <1>8, <2>1 DEF Apart
    <2>2. CASE m[a] = NoShard /\ m[b] = NoShard
        BY <1>2, <1>4, <1>5, <1>8, <2>2
    <2>3. CASE m[a] # NoShard /\ m[b] = NoShard
        BY <1>1, <1>2, <1>3, <1>4, <1>6, <1>8, <2>3
    <2>4. CASE m[a] = NoShard /\ m[b] # NoShard
        BY <1>1, <1>2, <1>3, <1>4, <1>6, <1>8, <2>4
    <2> QED BY <2>1, <2>2, <2>3, <2>4
<1> QED BY <1>7, <1>8

\* A node is created, changed or deleted: the ids of its shard stay unique.
LEMMA KidApart ==
    ASSUME NEW old \in Catalogs, NEW ren, NEW next \in Nat, Apart(old, ren), Below(old, next),
           NEW s \in ShardId, old[s] # NoShard, NEW n \in Name, NEW v \in Node \cup {NoNode},
           NEW next2 \in Nat, next <= next2,
           \/ v = NoNode
           \/ v # NoNode /\ old[s].kids[n] # NoNode /\ v.id = old[s].kids[n].id
           \/ v # NoNode /\ v.id = next /\ next < next2,
           NEW m, m = [old EXCEPT ![s].kids[n] = v]
    PROVE  Apart(m, ren) /\ Below(m, next2)
<1> DEFINE o == old[s]
<1> DEFINE x == [o EXCEPT !.kids[n] = v]
<1>1. o \in Shard /\ o # Failure
    BY IdsNat
<1>2. x \in Shard /\ x.id = o.id /\ x.kids[n] = v /\ \A k \in Name : k # n => x.kids[k] = o.kids[k]
    BY <1>1 DEF Shard
<1>3. m = [old EXCEPT ![s] = x]
    OBVIOUS
<1>4. /\ \A k \in Name : o.kids[k] # NoNode => o.kids[k].id \in Ids(o)
      /\ o.id \in Ids(o)
    BY IdsIs
<1>5. \A i \in Ids(o) : i \in Nat /\ i < next
    BY IdsNat DEF Below
<1>6. s \notin ren => catalog_node_ids_unique(o)
    BY <1>1 DEF Apart
<1> HIDE DEF x, o
<1>7. \A i \in Ids(x) : i \in Ids(o) \/ (i = next /\ next < next2)
    <2> SUFFICES ASSUME NEW i \in Ids(x) PROVE i \in Ids(o) \/ (i = next /\ next < next2)
        OBVIOUS
    <2>1. i = x.id \/ \E k \in Name : x.kids[k] # NoNode /\ i = x.kids[k].id
        BY IdsIs
    <2> QED BY <1>2, <1>4, <2>1 DEF o
<1>8. ASSUME catalog_node_ids_unique(o) PROVE catalog_node_ids_unique(x)
    <2> SUFFICES ASSUME NEW a \in Name, NEW b \in Name, x.kids[a] # NoNode, x.kids[b] # NoNode
                 PROVE  x.kids[a].id # x.id /\ (x.kids[a].id = x.kids[b].id => a = b)
        BY DEF catalog_node_ids_unique
    <2>1. /\ \A k \in Name : o.kids[k] # NoNode => o.kids[k].id # o.id
          /\ \A k, j \in Name : o.kids[k] # NoNode /\ o.kids[j] # NoNode /\ o.kids[k].id = o.kids[j].id => k = j
        BY <1>8 DEF catalog_node_ids_unique
    <2>2. ~(next < next)
        OBVIOUS
    <2>3. next \notin Ids(o)
        BY <1>5, <2>2
    <2>4. v = NoNode \/ (o.kids[n] # NoNode /\ v.id = o.kids[n].id) \/ v.id = next
        BY DEF o
    <2> QED BY <1>2, <1>4, <2>1, <2>3, <2>4
<1>9. /\ \A i \in Ids(x) : (old[s] # NoShard /\ i \in Ids(old[s])) \/ (i = next /\ next < next2)
      /\ s \notin ren => catalog_node_ids_unique(x)
      /\ x \in Shard /\ m = [old EXCEPT ![s] = x]
    BY <1>2, <1>3, <1>6, <1>7, <1>8 DEF o
<1> QED BY ONLY <1>9, old \in Catalogs, next \in Nat, Apart(old, ren), Below(old, next), s \in ShardId,
                next2 \in Nat, next <= next2, PutApart

\* A node moves to another name of its shard.
LEMMA MoveApart ==
    ASSUME NEW old \in Catalogs, NEW ren, NEW next \in Nat, Apart(old, ren), Below(old, next),
           NEW s \in ShardId, old[s] # NoShard, NEW n \in Name, NEW to \in Name,
           old[s].kids[n] # NoNode, old[s].kids[to] = NoNode,
           NEW x \in Shard, x.id = old[s].id, x.kids[n] = NoNode, x.kids[to] = old[s].kids[n],
           \A k \in Name : k # n /\ k # to => x.kids[k] = old[s].kids[k],
           NEW m, m = [old EXCEPT ![s] = x]
    PROVE  Apart(m, ren) /\ Below(m, next)
<1> DEFINE o == old[s]
<1>1. o \in Shard /\ o # Failure
    BY IdsNat
<1>2. /\ x.id = o.id /\ x.kids[n] = NoNode /\ x.kids[to] = o.kids[n]
      /\ \A k \in Name : k # n /\ k # to => x.kids[k] = o.kids[k]
    OBVIOUS
<1>4. /\ \A k \in Name : o.kids[k] # NoNode => o.kids[k].id \in Ids(o)
      /\ o.id \in Ids(o)
    BY IdsIs
<1>6. s \notin ren => catalog_node_ids_unique(o)
    BY <1>1 DEF Apart
<1>10. o.kids[n] # NoNode /\ o.kids[to] = NoNode
    OBVIOUS
<1> HIDE DEF o
<1>7. \A i \in Ids(x) : i \in Ids(o)
    <2> SUFFICES ASSUME NEW i \in Ids(x) PROVE i \in Ids(o)
        OBVIOUS
    <2>1. i = x.id \/ \E k \in Name : x.kids[k] # NoNode /\ i = x.kids[k].id
        BY IdsIs
    <2> QED BY <1>2, <1>4, <2>1
<1>8. ASSUME catalog_node_ids_unique(o) PROVE catalog_node_ids_unique(x)
    <2> SUFFICES ASSUME NEW a \in Name, NEW b \in Name, x.kids[a] # NoNode, x.kids[b] # NoNode
                 PROVE  x.kids[a].id # x.id /\ (x.kids[a].id = x.kids[b].id => a = b)
        BY DEF catalog_node_ids_unique
    <2>1. /\ \A k \in Name : o.kids[k] # NoNode => o.kids[k].id # o.id
          /\ \A k, j \in Name : o.kids[k] # NoNode /\ o.kids[j] # NoNode /\ o.kids[k].id = o.kids[j].id => k = j
        BY <1>8 DEF catalog_node_ids_unique
    <2> QED BY <1>2, <1>10, <2>1
<1>9. next <= next
    OBVIOUS
<1>11. /\ \A i \in Ids(x) : (old[s] # NoShard /\ i \in Ids(old[s])) \/ (i = next /\ next < next)
       /\ s \notin ren => catalog_node_ids_unique(x)
    BY <1>6, <1>7, <1>8 DEF o
<1> QED BY ONLY <1>9, <1>11, old \in Catalogs, next \in Nat, Apart(old, ren), Below(old, next),
                s \in ShardId, x \in Shard, m = [old EXCEPT ![s] = x], PutApart

\* A command that records a delta changes no other shard.
LEMMA PendChanged ==
    ASSUME NEW s \in ShardId, NEW kind \in {"create", "update", "delete", "move"},
           NEW n \in Name, NEW to \in Name, NEW node \in Node, NEW m, NEW old, NEW ren,
           m[s] # NoShard, old[s] # NoShard, \A t \in ShardId : t # s => m[t] = old[t],
           kind # "create" \/ catalog_preserves_existing_nodes(old[s], m[s])
    PROVE  Changed(DeltaOn(s, kind, n, to, node), m, old, ren)
<1> DEFINE p == DeltaOn(s, kind, n, to, node)
<1>1. p[s] # << >>
    BY PendType
<1>2. \A t \in ShardId : t # s => p[t] = << >>
    BY DEF DeltaOn, NoPend
<1>4. kind # "create" => has_existing_node_mutation_delta(p[s])
    <2> DEFINE d == [kind |-> kind, name |-> n, to |-> to, node |-> node]
    <2>1. p[s] = <<d>> /\ d.kind = kind
        BY DEF DeltaOn, NoPend
    <2> HIDE DEF d, p
    <2> QED BY <2>1 DEF has_existing_node_mutation_delta
<1> HIDE DEF p
<1>3. Changed(p, m, old, ren)
    BY <1>1, <1>2, <1>4 DEF Changed
<1> QED BY <1>3 DEF p

\* What a command leaves in the session, seen from what the session was.
Continues(m, next, pend, ren) ==
    /\ Apart(m, ren) /\ Below(m, next) /\ Changed(pend, m, sess.mem, ren)

Unique == Apart(sess.mem, renamed) /\ Below(sess.mem, sess.nextId)

LEMMA KidContinues ==
    ASSUME Shape, Unique, NEW s \in ShardId, NEW n \in Name, sess.mem[s] # NoShard, UNCHANGED renamed,
           Create(s, n) \/ Update(s, n) \/ Delete(s, n)
    PROVE  \E m, next, pend, touched : Mutate(m, next, pend, touched) /\ Continues(m, next, pend, renamed')
<1>1. sess.mem \in Catalogs /\ sess.nextId \in Nat
    BY DEF Shape, SessionOK, Session, Catalogs
<1>2. ASSUME NEW v \in Node \cup {NoNode}, NEW kind \in {"create", "update", "delete"}, NEW node \in Node,
             NEW next \in Nat, sess.nextId <= next,
             \/ v = NoNode
             \/ v # NoNode /\ sess.mem[s].kids[n] # NoNode /\ v.id = sess.mem[s].kids[n].id
             \/ v # NoNode /\ v.id = sess.nextId /\ sess.nextId < next,
             kind = "create" => sess.mem[s].kids[n] = NoNode,
             Mutate([sess.mem EXCEPT ![s].kids[n] = v], next, DeltaOn(s, kind, n, n, node), {s})
      PROVE  \E m, nextId, pend, touched :
                Mutate(m, nextId, pend, touched) /\ Continues(m, nextId, pend, renamed')
    <2> DEFINE m == [sess.mem EXCEPT ![s].kids[n] = v]
    <2> DEFINE p == DeltaOn(s, kind, n, n, node)
    <2>1. m \in Catalogs /\ m[s] # NoShard /\ \A t \in ShardId : t # s => m[t] = sess.mem[t]
        BY <1>1, KidPut
    <2>2. Mutate(m, next, p, {s})
        BY <1>2
    <2>3. m = [sess.mem EXCEPT ![s].kids[n] = v]
        OBVIOUS
    <2>7. kind # "create" \/ catalog_preserves_existing_nodes(sess.mem[s], m[s])
        <3>1. sess.mem[s] \in Shard
            BY <1>1 DEF Catalogs
        <3>2. m[s] = [sess.mem[s] EXCEPT !.kids[n] = v]
            BY <1>1 DEF Catalogs
        <3>3. m[s].id = sess.mem[s].id /\ \A k \in Name : k # n => m[s].kids[k] = sess.mem[s].kids[k]
            BY <3>1, <3>2 DEF Shard
        <3> QED BY <1>2, <3>3 DEF catalog_preserves_existing_nodes
    <2> HIDE DEF m
    <2>4. Changed(p, m, sess.mem, renamed)
        BY <2>1, <2>7, PendChanged
    <2> HIDE DEF p
    <2>5. Apart(m, renamed) /\ Below(m, next)
        BY <1>1, <1>2, <2>3, KidApart DEF Unique
    <2>6. Continues(m, next, p, renamed')
        BY <2>4, <2>5 DEF Continues
    <2> QED BY <2>2, <2>6
<1>3. CASE Create(s, n)
    <2>1. PICK t \in Tag : Mutate([sess.mem EXCEPT ![s].kids[n] = [id |-> sess.nextId, tag |-> t]],
                                  sess.nextId + 1,
                                  DeltaOn(s, "create", n, n, [id |-> sess.nextId, tag |-> t]), {s})
        BY <1>3 DEF Create
    <2> DEFINE v == [id |-> sess.nextId, tag |-> t]
    <2>2. v \in Node /\ sess.nextId + 1 \in Nat /\ v.id = sess.nextId /\ sess.nextId < sess.nextId + 1
          /\ sess.nextId <= sess.nextId + 1
        BY <1>1 DEF Node
    <2>3. Mutate([sess.mem EXCEPT ![s].kids[n] = v], sess.nextId + 1, DeltaOn(s, "create", n, n, v), {s})
        BY <2>1
    <2> HIDE DEF v
    <2>4. v # NoNode /\ sess.mem[s].kids[n] = NoNode
        BY <1>3, <2>2, ContentAssumption DEF Create
    <2> QED BY <1>2, <2>2, <2>3, <2>4
<1>4. CASE Update(s, n)
    <2>0. sess.mem[s].kids[n] \in Node /\ sess.mem[s].kids[n] # NoNode
        BY <1>1, <1>4, KidIs DEF Update
    <2>1. PICK t \in Tag : Mutate([sess.mem EXCEPT ![s].kids[n] = [sess.mem[s].kids[n] EXCEPT !.tag = t]],
                                  sess.nextId,
                                  DeltaOn(s, "update", n, n, [sess.mem[s].kids[n] EXCEPT !.tag = t]), {s})
        BY <1>4 DEF Update
    <2> DEFINE v == [sess.mem[s].kids[n] EXCEPT !.tag = t]
    <2>2. v \in Node /\ v.id = sess.mem[s].kids[n].id
        BY <2>0 DEF Node
    <2>3. Mutate([sess.mem EXCEPT ![s].kids[n] = v], sess.nextId, DeltaOn(s, "update", n, n, v), {s})
        BY <2>1
    <2> HIDE DEF v
    <2>4. v # NoNode /\ sess.nextId <= sess.nextId
        BY <1>1, <2>2, ContentAssumption
    <2> QED BY <1>1, <1>2, <2>0, <2>2, <2>3, <2>4
<1>5. CASE Delete(s, n)
    <2>0. sess.mem[s].kids[n] \in Node
        BY <1>1, <1>5, KidIs DEF Delete
    <2>1. Mutate([sess.mem EXCEPT ![s].kids[n] = NoNode], sess.nextId,
                 DeltaOn(s, "delete", n, n, sess.mem[s].kids[n]), {s})
        BY <1>5 DEF Delete
    <2>2. sess.nextId <= sess.nextId
        BY <1>1
    <2> QED BY <1>1, <1>2, <2>0, <2>1, <2>2
<1> QED BY <1>3, <1>4, <1>5

LEMMA RenameContinues ==
    ASSUME Shape, Unique, NEW s \in ShardId, NEW n \in Name, NEW to \in Name, UNCHANGED renamed, Rename(s, n, to)
    PROVE  \E m, next, pend, touched : Mutate(m, next, pend, touched) /\ Continues(m, next, pend, renamed')
<1>1. sess.mem \in Catalogs /\ sess.nextId \in Nat
    BY DEF Shape, SessionOK, Session, Catalogs
<1>2. sess.mem[s] # NoShard /\ sess.mem[s].kids[n] # NoNode /\ sess.mem[s].kids[to] = NoNode
    BY DEF Rename
<1>3. sess.mem[s].kids[n] \in Node
    BY <1>1, <1>2, KidIs
<1> DEFINE m == [sess.mem EXCEPT ![s].kids[n] = NoNode, ![s].kids[to] = sess.mem[s].kids[n]]
<1> DEFINE p == DeltaOn(s, "move", n, to, sess.mem[s].kids[n])
<1> DEFINE x == [sess.mem[s] EXCEPT !.kids[n] = NoNode, !.kids[to] = sess.mem[s].kids[n]]
<1>4. Mutate(m, sess.nextId, p, {s})
    BY DEF Rename
<1>5. m = [sess.mem EXCEPT ![s] = x]
    BY <1>1 DEF Catalogs
<1>0. sess.mem[s] \in Shard /\ n # to
    BY <1>1, <1>2 DEF Catalogs
<1>9. /\ x \in Shard /\ x.id = sess.mem[s].id /\ x.kids[n] = NoNode /\ x.kids[to] = sess.mem[s].kids[n]
      /\ \A k \in Name : k # n /\ k # to => x.kids[k] = sess.mem[s].kids[k]
    BY <1>0, <1>3 DEF Shard
<1> HIDE DEF m, x
<1>6. /\ Apart(m, renamed) /\ Below(m, sess.nextId)
      /\ m[s] # NoShard /\ \A t \in ShardId : t # s => m[t] = sess.mem[t]
    <2>1. Apart(m, renamed) /\ Below(m, sess.nextId)
        BY <1>1, <1>2, <1>5, <1>9, MoveApart DEF Unique
    <2> QED BY <1>1, <1>5, <1>9, <2>1, ShardPut
<1>7. Changed(p, m, sess.mem, renamed)
    BY <1>2, <1>3, <1>6, PendChanged
<1> HIDE DEF p
<1>8. Continues(m, sess.nextId, p, renamed')
    BY <1>6, <1>7 DEF Continues
<1> QED BY <1>4, <1>8

LEMMA TopContinues ==
    ASSUME Shape, Unique, NEW s \in ShardId, UNCHANGED renamed, CreateTop(s) \/ DeleteTop(s)
    PROVE  \E m, next, pend, touched : Mutate(m, next, pend, touched) /\ Continues(m, next, pend, renamed')
<1>1. sess.mem \in Catalogs /\ sess.nextId \in Nat
    BY DEF Shape, SessionOK, Session, Catalogs
<1>2. \A t \in ShardId : NoPend[t] = << >>
    BY DEF NoPend
<1>3. CASE CreateTop(s)
    <2> DEFINE v == [id |-> sess.nextId, kids |-> NoKids]
    <2> DEFINE m == [sess.mem EXCEPT ![s] = v]
    <2>1. v \in Shard /\ v.id = sess.nextId /\ v.kids = NoKids
        BY <1>1 DEF Shard, NoKids
    <2>2. s \notin Eager /\ sess.mem[s] = NoShard /\ Mutate(m, sess.nextId + 1, NoPend, {s})
        BY <1>3 DEF CreateTop
    <2> HIDE DEF v
    <2>3. \A n \in Name : v.kids[n] = NoNode
        BY <2>1 DEF NoKids
    <2>4. \A i \in Ids(v) : i = sess.nextId
        BY <2>1, <2>3, IdsIs
    <2>5. catalog_node_ids_unique(v)
        BY <2>3 DEF catalog_node_ids_unique
    <2>6. sess.nextId + 1 \in Nat /\ sess.nextId <= sess.nextId + 1 /\ sess.nextId < sess.nextId + 1
        BY <1>1
    <2>7. m = [sess.mem EXCEPT ![s] = v] /\ m[s] = v /\ \A t \in ShardId : t # s => m[t] = sess.mem[t]
        BY <1>1 DEF Catalogs
    <2> HIDE DEF m
    <2>8. Apart(m, renamed) /\ Below(m, sess.nextId + 1)
        <3>1. Apart(sess.mem, renamed) /\ Below(sess.mem, sess.nextId)
            BY DEF Unique
        <3> QED BY ONLY <1>1, <2>1, <2>4, <2>5, <2>6, <2>7, <3>1, s \in ShardId, PutApart
    <2>9. Changed(NoPend, m, sess.mem, renamed)
        BY <1>2, <2>1, <2>2, <2>7, ContentAssumption DEF Changed
    <2>10. Continues(m, sess.nextId + 1, NoPend, renamed')
        BY <2>8, <2>9 DEF Continues
    <2> QED BY <2>2, <2>10
<1>4. CASE DeleteTop(s)
    <2> DEFINE m == [sess.mem EXCEPT ![s] = NoShard]
    <2>1. s \notin Eager /\ Mutate(m, sess.nextId, NoPend, {s})
        BY <1>4 DEF DeleteTop
    <2>2. m[s] = NoShard /\ \A t \in ShardId : t # s => m[t] = sess.mem[t]
        BY <1>1 DEF Catalogs
    <2> HIDE DEF m
    <2>3. Apart(m, renamed)
        BY <2>2, ApartLess DEF Unique
    <2>4. Below(m, sess.nextId)
        BY <2>2 DEF Unique, Below
    <2>5. Changed(NoPend, m, sess.mem, renamed)
        BY <1>2, <2>1, <2>2 DEF Changed
    <2>6. Continues(m, sess.nextId, NoPend, renamed')
        BY <2>3, <2>4, <2>5 DEF Continues
    <2> QED BY <2>1, <2>6
<1> QED BY <1>3, <1>4

LEMMA RenameTopContinues ==
    ASSUME Shape, Unique, NEW s \in ShardId, NEW t \in ShardId, RenameTop(s, t)
    PROVE  /\ \E m, next, pend, touched : Mutate(m, next, pend, touched) /\ Continues(m, next, pend, renamed')
           /\ renamed \subseteq renamed'
<1>1. sess.mem \in Catalogs /\ sess.nextId \in Nat
    BY DEF Shape, SessionOK, Session, Catalogs
<1>2. \A u \in ShardId : NoPend[u] = << >>
    BY DEF NoPend
<1> DEFINE m == [sess.mem EXCEPT ![s] = NoShard, ![t] = sess.mem[s]]
<1>3. /\ s \notin Eager /\ s # t /\ renamed' = renamed \cup {t} /\ sess.mem[s] # NoShard
      /\ Mutate(m, sess.nextId, NoPend, {s, t})
    BY DEF RenameTop
<1>4. m[s] = NoShard /\ m[t] = sess.mem[s] /\ \A u \in ShardId : u \notin {s, t} => m[u] = sess.mem[u]
    BY <1>1, <1>3 DEF Catalogs
<1> HIDE DEF m
<1>5. \A u \in ShardId \ renamed' : m[u] = sess.mem[u] \/ m[u] = NoShard
    BY <1>3, <1>4
<1>6. Apart(m, renamed')
    BY <1>3, <1>5, ApartLess DEF Unique
<1>7. Below(m, sess.nextId)
    BY <1>3, <1>4 DEF Unique, Below
<1>8. Changed(NoPend, m, sess.mem, renamed')
    BY <1>2, <1>3, <1>4 DEF Changed
<1>9. Continues(m, sess.nextId, NoPend, renamed')
    BY <1>6, <1>7, <1>8 DEF Continues
<1> QED BY <1>3, <1>9

\* Every command keeps the ids of the session unique.
LEMMA CommandContinues ==
    ASSUME Shape, Unique, Command
    PROVE  /\ renamed \subseteq renamed'
           /\ \/ \E m, next, pend, touched : Mutate(m, next, pend, touched) /\ Continues(m, next, pend, renamed')
              \/ \E s \in ShardId : Compact(s) /\ UNCHANGED renamed
<1>1. PICK s \in ShardId :
        \/ /\ \/ \E n \in Name : Create(s, n) \/ Update(s, n) \/ Delete(s, n)
              \/ \E n, to \in Name : Rename(s, n, to)
              \/ CreateTop(s) \/ DeleteTop(s) \/ Compact(s)
           /\ UNCHANGED renamed
        \/ \E t \in ShardId : RenameTop(s, t)
    BY DEF Command
<1>2. ASSUME NEW n \in Name, Create(s, n) \/ Update(s, n) \/ Delete(s, n) PROVE sess.mem[s] # NoShard
    BY <1>2 DEF Create, Update, Delete
<1> QED BY <1>1, <1>2, KidContinues, RenameContinues, TopContinues, RenameTopContinues

\* What a save of the session m starts from: the durable catalog is that of the session old.
SyncHyp(m, pend, old, ren, q) ==
    /\ SaveHyp(m, pend, q) /\ GoodAt(disk, root) /\ Bare(disk, ren)
    /\ Matches(root, try_load_sharded_catalog(disk, root), old, ren) /\ Changed(pend, m, old, ren)

LEMMA SyncParts ==
    ASSUME NEW m, NEW pend, NEW old, NEW ren, NEW q, SyncHyp(m, pend, old, ren, q)
    PROVE  /\ m \in Catalogs /\ LogOK(root) /\ LogOK(q.plan.root) /\ disk \in Contents
           /\ \A s \in ShardId : q.plan.root[s] # NoMeta <=> s \in Here(m)
           /\ \A s \in ShardId : s \in Here(m) <=> m[s] # NoShard \/ s \in Eager
<1>1. SaveHyp(m, pend, q) /\ disk \in Contents
    BY DEF SyncHyp, SaveHyp, PlanBase
<1> QED BY <1>1, SaveParts, HereIs

\* A shard the root index does not have yet is saved as an empty directory.
LEMMA NewIsBare ==
    ASSUME NEW m, NEW pend, NEW old, NEW ren, NEW q, SyncHyp(m, pend, old, ren, q),
           NEW s \in ShardId \ ren, root[s] = NoMeta, s \in Here(m)
    PROVE  pend[s] = << >> /\ persistence_shards(m)[s].kids = NoKids
<1>1. m \in Catalogs /\ LogOK(root) /\ (m[s] # NoShard \/ s \in Eager)
    BY SyncParts
<1>2. try_load_sharded_catalog(disk, root)[s] = NoShard
    BY <1>1, LoadIn
<1>3. old[s] = NoShard
    BY <1>2 DEF SyncHyp, Matches
<1>4. pend[s] = << >> /\ (m[s] # NoShard => m[s].kids = NoKids)
    BY <1>1, <1>3 DEF SyncHyp, Changed
<1>5. CASE m[s] = NoShard
    BY <1>1, <1>4, <1>5, FreshIds
<1>6. CASE m[s] # NoShard
    BY <1>1, <1>4, <1>6, PersistenceType
<1> QED BY <1>5, <1>6

\* A shard the root index has is loaded as the session had it, or as an empty system shard.
LEMMA KnownIsOld ==
    ASSUME NEW m, NEW pend, NEW old, NEW ren, NEW q, SyncHyp(m, pend, old, ren, q),
           NEW s \in ShardId \ ren, root[s] # NoMeta
    PROVE  LET l == load_full_shard_from_meta(disk, s, root[s])
           IN  /\ MetaOK(root[s]) /\ l \in Shard
               /\ \/ l = old[s]
                  \/ old[s] = NoShard /\ s \in Eager /\ ~root[s].has /\ l.kids = NoKids
<1> DEFINE l == load_full_shard_from_meta(disk, s, root[s])
<1>1. LogOK(root) /\ disk \in Contents
    BY SyncParts
<1>2. MetaOK(root[s])
    BY <1>1 DEF LogOK
<1>3. l \in Shard
    BY <1>1, <1>2, LoadType DEF SyncHyp, GoodAt
<1>4. try_load_sharded_catalog(disk, root)[s] = l
    BY <1>1, LoadIn
<1> HIDE DEF l
<1>5. l = old[s] \/ (old[s] = NoShard /\ s \in Eager /\ ~root[s].has /\ l.kids = NoKids)
    BY <1>4 DEF SyncHyp, Matches
<1> QED BY <1>2, <1>3, <1>5 DEF l

\* A shard that is kept as it is on disk is the shard of the session.
LEMMA KeptIsExact ==
    ASSUME NEW m, NEW pend, NEW old, NEW ren, NEW q, SyncHyp(m, pend, old, ren, q),
           NEW s \in ShardId \ ren, s \in Here(m), Does(m, pend, s) = "keep"
    PROVE  /\ load_full_shard_from_meta(Over(disk, q.plan), s, q.plan.root[s]) = persistence_shards(m)[s]
           /\ m[s] = NoShard => ~q.plan.root[s].has
<1> DEFINE o == MetaOf(s)
<1> DEFINE snap == disk[Snapshot(s, o.seq)]
<1> DEFINE sh == persistence_shards(m)[s]
<1> DEFINE l == load_full_shard_from_meta(disk, s, o)
<1>0. /\ m \in Catalogs /\ LogOK(root) /\ disk \in Contents /\ s \in ShardId /\ SaveHyp(m, pend, q)
      /\ q = SavePlan(m, pend) /\ PlanBase(m, pend) /\ WithinBounds(q.plan) /\ GoodAt(disk, root)
      /\ (m[s] # NoShard \/ s \in Eager)
    BY SyncParts DEF SyncHyp, SaveHyp
<1>1. MetaOK(o) /\ q.plan.root[s] = o
    BY <1>0, MetaOfOK, SaveRootOK, MetaKept
<1>2. pend[s] = << >> /\ snap # Absent /\ snap.id = sh.id
    BY DecisionCases DEF Does, NeedsWrite, SnapshotOnDisk, shard_snapshot_needs_rewrite
<1>3. sh \in Shard
    BY <1>0, HereFacts
<1>4. load_full_shard_from_meta(Over(disk, q.plan), s, o) = l
    BY <1>0, <1>1, SaveLeaves, LoadFrame
<1>5. snap \in Shard
    <2>1. o.seq \in 0..MaxSeq
        BY <1>1, MetaNumbers
    <2> QED BY <1>0, <1>2, <2>1 DEF Contents
<1>6. ~o.has => l = snap
    BY <1>1, <1>2, LoadPlain
<1>7. m[s] = NoShard => sh.kids = NoKids
    BY <1>0, FreshIds
<1>8. m[s] # NoShard => sh = m[s]
    BY <1>0, PersistenceType
<1>9. \A x, y \in Shard : x.id = y.id /\ x.kids = y.kids => x = y
    BY DEF Shard
<1>10. CASE root[s] = NoMeta
    <2>1. o = NewMeta /\ ~o.has /\ o.seq = 0
        BY <1>10, NewMetaOK DEF MetaOf, NewMeta
    <2>2. snap.kids = NoKids
        <3>1. snap = disk[Snapshot(s, 0)]
            BY <2>1
        <3> QED BY <1>2, <3>1 DEF SyncHyp, Bare
    <2>3. sh.kids = NoKids
        BY <1>10, NewIsBare
    <2>4. snap = sh
        BY <1>2, <1>3, <1>5, <1>9, <2>2, <2>3
    <2> QED BY <1>1, <1>4, <1>6, <2>1, <2>4
<1>11. CASE root[s] # NoMeta
    <2>0. o = root[s]
        BY <1>11 DEF MetaOf
    <2>1. /\ l \in Shard
          /\ l = old[s] \/ (old[s] = NoShard /\ s \in Eager /\ ~o.has /\ l.kids = NoKids)
        BY <1>11, <2>0, KnownIsOld
    <2>2. \/ m[s] = old[s]
          \/ s \notin Eager /\ m[s] = NoShard
          \/ s \notin Eager /\ old[s] = NoShard
        BY <1>2 DEF SyncHyp, Changed
    <2>3. l # NoShard
        BY <2>1, ContentAssumption
    <2>4. m[s] = old[s]
        BY <1>0, <2>1, <2>2, <2>3
    <2>5. CASE l = old[s]
        <3>1. l = sh /\ m[s] # NoShard
            BY <1>8, <2>3, <2>4, <2>5
        <3> QED BY <1>1, <1>4, <3>1
    <2>6. CASE old[s] = NoShard /\ ~o.has /\ l.kids = NoKids
        <3>1. l = snap /\ sh.kids = NoKids
            BY <1>6, <1>7, <2>4, <2>6
        <3>2. snap = sh
            BY <1>2, <1>3, <1>5, <1>9, <2>6, <3>1
        <3> QED BY <1>1, <1>4, <2>6, <3>1, <3>2
    <2> QED BY <2>1, <2>5, <2>6
<1> QED BY <1>10, <1>11

LEMMA SaveExact ==
    ASSUME NEW m, NEW pend, NEW old, NEW ren, NEW q, SyncHyp(m, pend, old, ren, q), ~IsRefused(m, pend),
           NEW s \in ShardId \ ren
    PROVE  /\ try_load_sharded_catalog(Over(disk, q.plan), q.plan.root)[s] = persistence_shards(m)[s]
           /\ m[s] = NoShard /\ q.plan.root[s] # NoMeta => ~q.plan.root[s].has
<1>0. /\ m \in Catalogs /\ LogOK(q.plan.root) /\ SaveHyp(m, pend, q) /\ PlanBase(m, pend) /\ GoodAt(disk, root)
      /\ q = SavePlan(m, pend) /\ WithinBounds(q.plan)
      /\ (q.plan.root[s] # NoMeta <=> s \in Here(m)) /\ (s \in Here(m) <=> m[s] # NoShard \/ s \in Eager)
    BY SyncParts DEF SyncHyp, SaveHyp
<1>1. CASE s \notin Here(m)
    <2>1. persistence_shards(m)[s] = NoShard
        BY <1>1 DEF Here, Present
    <2> QED BY <1>0, <1>1, <2>1, LoadIn
<1>2. CASE s \in Here(m) /\ Does(m, pend, s) = "keep"
    BY <1>0, <1>2, KeptIsExact, LoadIn
<1>3. CASE s \in Here(m) /\ Does(m, pend, s) # "keep"
    <2>1. LoadedBy(m, pend, q, s)
        BY <1>0, <1>3, SaveLoads
    <2>2. try_load_sharded_catalog(Over(disk, q.plan), q.plan.root)[s] = persistence_shards(m)[s]
        BY <1>0, <1>3, <2>1, LoadIn DEF LoadedBy
    <2>3. ASSUME m[s] = NoShard PROVE ~q.plan.root[s].has
        <3>1. pend[s] = << >>
            BY <2>3 DEF SyncHyp, Changed
        <3>2. Does(m, pend, s) \in {"rewrite", "fallback"}
            BY <1>3, <3>1, DoesCases, DecisionCases DEF Does, IsRefused
        <3>3. q.plan.root[s] = MetaIn(m, pend, s)
            BY <1>0, <1>3, SaveRootOK
        <3> QED BY <1>0, <1>3, <3>2, <3>3, MetaOfSnapshot
    <2> QED BY <2>2, <2>3
<1> QED BY <1>1, <1>2, <1>3

\* A first snapshot that a save writes is that of an empty directory.
LEMMA SaveBare ==
    ASSUME NEW m, NEW pend, NEW old, NEW ren, NEW q, SyncHyp(m, pend, old, ren, q)
    PROVE  Bare(q.plan.val, ren)
<1> SUFFICES ASSUME NEW s \in ShardId \ ren, q.plan.val[Snapshot(s, 0)] # Absent
             PROVE  q.plan.val[Snapshot(s, 0)].kids = NoKids
    BY DEF Bare
<1>0. /\ m \in Catalogs /\ LogOK(root) /\ SaveHyp(m, pend, q) /\ PlanBase(m, pend)
      /\ q = SavePlan(m, pend) /\ WithinBounds(q.plan)
    BY SyncParts DEF SyncHyp, SaveHyp
<1>1. 0 \in 0..MaxSeq
    BY BoundAssumption
<1>2. /\ s \in Here(m) /\ Writes(m, pend, s) /\ q.plan.root[s].seq = 0
      /\ q.plan.val[Snapshot(s, 0)] = persistence_shards(m)[s]
    <2> DEFINE n == 0
    <2>1. n \in 0..MaxSeq
        BY <1>1
    <2> HIDE DEF n
    <2>2. q.plan.val[Snapshot(s, n)] =
             IF s \in Here(m) /\ Writes(m, pend, s) /\ n = q.plan.root[s].seq
             THEN persistence_shards(m)[s] ELSE Absent
        BY <1>0, <2>1, SaveValSnapshot
    <2> QED BY <2>2 DEF n
<1>3. Does(m, pend, s) \in {"rewrite", "fallback"} /\ q.plan.root[s] = MetaIn(m, pend, s)
    BY <1>0, <1>2, SaveRootOK DEF Writes
<1>4. NextSnapshot(s) = 0
    BY <1>0, <1>2, <1>3, MetaOfSnapshot
<1>5. root[s] = NoMeta
    <2>1. root[s] # NoMeta => root[s].seq \in Nat /\ NextSnapshot(s) = root[s].seq + 1
        BY <1>0, MetaNumbers, NextSnapshotIs DEF LogOK
    <2> QED BY <1>4, <2>1
<1> QED BY <1>2, <1>5, NewIsBare

LEMMA ExactApart ==
    ASSUME NEW m \in Catalogs, NEW ren, Apart(m, ren), NEW l,
           \A s \in ShardId \ ren : l[s] = persistence_shards(m)[s]
    PROVE  Apart(l, ren)
<1>1. Apart(persistence_shards(m), ren)
    BY PersistApart
<1> QED BY <1>1 DEF Apart

\* The disk, the root index and the record stay, and so do the names.
LEMMA SameDisk ==
    ASSUME DiskSynced, UNCHANGED <<disk, root, rec, renamed>>
    PROVE  DiskSynced'
BY DEF DiskSynced, Bare, Complete

LEMMA BeginSynced ==
    ASSUME Shape, Safe, Synced, BeginSave
    PROVE  Synced'
<1> USE DEF C!Saving, C!Recovering
<1>1. PICK q :
        /\ pc = "plan" /\ op # NoOp
        /\ \/ op.kind = "save" /\ SaveHyp(sess.mem, op.pend, q)
           \/ \E s \in ShardId : op.kind = "compact" /\ op.touched = {s} /\ CompactHyp(s, op.root, q)
        /\ C!Begin(q.plan)
        /\ op' = [op EXCEPT !.first = q.first, !.refused = q.refused]
        /\ UNCHANGED <<sess, saved, renamed>>
    BY BeginPlan
<1>2. /\ UNCHANGED <<disk, root, rec>> /\ plan' = q.plan /\ pc' = "write"
    BY <1>1 DEF C!Begin, C!store
<1>3. op'.refused = q.refused /\ op'.kind = op.kind /\ op'.pend = op.pend
    <2>1. op \in Operation
        BY <1>1 DEF Shape, SessionOK
    <2> QED BY <1>1, <2>1 DEF Operation
<1>4. /\ GoodAt(disk, root) /\ Bare(disk, renamed) /\ Apart(sess.mem, renamed)
      /\ Matches(root, try_load_sharded_catalog(disk, root), saved.mem, renamed)
      /\ Apart(try_load_sharded_catalog(disk, root), renamed)
      /\ op.kind = "save" => Changed(op.pend, sess.mem, saved.mem, renamed)
      /\ op.kind = "compact" => sess = saved
    BY <1>1 DEF Safe, Stored, Synced, DiskSynced, SessionSynced
<1>5. DiskSynced'
    BY <1>1, <1>2, SameDisk DEF Synced
<1>6. SessionSynced'
    BY <1>1, <1>2, <1>3 DEF Synced, SessionSynced
<1>7. CASE op.kind = "save" /\ SaveHyp(sess.mem, op.pend, q)
    <2>1. SyncHyp(sess.mem, op.pend, saved.mem, renamed, q)
        BY <1>4, <1>7 DEF SyncHyp
    <2>2. Bare(q.plan.val, renamed)
        BY <2>1, SaveBare
    <2>3. ASSUME ~q.refused
          PROVE  /\ Apart(try_load_sharded_catalog(Over(disk, q.plan), q.plan.root), renamed)
                 /\ Matches(q.plan.root, try_load_sharded_catalog(Over(disk, q.plan), q.plan.root),
                            sess.mem, renamed)
                 /\ Exact(disk, q.plan, sess.mem, renamed)
        <3> DEFINE l == try_load_sharded_catalog(Over(disk, q.plan), q.plan.root)
        <3>1. ~IsRefused(sess.mem, op.pend)
            BY <1>7, <2>3, SaveType
        <3>2. \A s \in ShardId \ renamed : l[s] = persistence_shards(sess.mem)[s]
            BY <2>1, <3>1, SaveExact
        <3>3. \A s \in ShardId \ renamed :
                sess.mem[s] = NoShard /\ q.plan.root[s] # NoMeta => ~q.plan.root[s].has
            BY <2>1, <3>1, SaveExact
        <3>4. sess.mem \in Catalogs
            BY <2>1, SyncParts
        <3> HIDE DEF l
        <3>5. Apart(l, renamed)
            BY <1>4, <3>2, <3>4, ExactApart
        <3>6. Matches(q.plan.root, l, sess.mem, renamed)
            <4>1. \A s \in ShardId : sess.mem[s] # NoShard => persistence_shards(sess.mem)[s] = sess.mem[s]
                BY <3>4, PersistenceType
            <4>2. \A s \in ShardId : sess.mem[s] = NoShard /\ s \in Eager =>
                     persistence_shards(sess.mem)[s].kids = NoKids
                BY <3>4, FreshIds
            <4>3. \A s \in ShardId : sess.mem[s] = NoShard /\ s \notin Eager =>
                     persistence_shards(sess.mem)[s] = NoShard
                BY DEF persistence_shards
            <4> QED BY <3>2, <3>3, <4>1, <4>2, <4>3 DEF Matches
        <3> QED BY <3>2, <3>5, <3>6 DEF Exact, l
    <2>4. PlanSynced'
        BY <1>1, <1>2, <1>3, <2>2, <2>3 DEF PlanSynced
    <2> QED BY <1>5, <1>6, <2>4 DEF Synced
<1>8. ASSUME NEW s \in ShardId, op.kind = "compact", CompactHyp(s, op.root, q) PROVE Synced'
    <2>0. op.root = root
        BY <1>1, <1>8 DEF Safe, OpOK
    <2>1. CompactHyp(s, root, q)
        BY <1>8, <2>0
    <2>2. try_load_sharded_catalog(Over(disk, q.plan), q.plan.root) = try_load_sharded_catalog(disk, root)
        BY <1>4, <2>1, CompactFits
    <2>3. root \in RootIndex /\ root[s] # NoMeta
        BY <2>1 DEF CompactHyp
    <2> DEFINE c == Snapshot(s, root[s].seq + 1)
    <2>4. /\ q.plan.root = [root EXCEPT ![s] = CompactMeta(s, root)] /\ MetaOK(root[s])
          /\ \A x \in Chunk : x # c => q.plan.val[x] = Absent
        <3> DEFINE shard == load_full_shard_from_meta(disk, s, root[s])
        <3>1. /\ q.plan = [val |-> [x \in Chunk |-> IF x = c THEN shard ELSE Absent],
                           old |-> chunks_for_meta(s, root[s]),
                           root |-> [root EXCEPT ![s] = CompactMeta(s, root)], staged |-> TRUE]
              /\ MetaOK(root[s])
            BY <2>1, CompactIs
        <3> HIDE DEF shard, c
        <3> QED BY <3>1
    <2>5. \A t \in ShardId : q.plan.root[t] = IF t = s THEN CompactMeta(s, root) ELSE root[t]
        BY <2>3, <2>4 DEF RootIndex
    <2>6. CompactMeta(s, root).has = FALSE
        BY DEF CompactMeta
    <2>7. Matches(q.plan.root, try_load_sharded_catalog(disk, root), sess.mem, renamed)
        BY <1>4, <1>8, <2>3, <2>5, <2>6 DEF Matches
    <2>8. Bare(q.plan.val, renamed)
        <3> SUFFICES ASSUME NEW t \in ShardId PROVE q.plan.val[Snapshot(t, 0)] = Absent
            BY DEF Bare
        <3>1. 0 \in 0..MaxSeq /\ root[s].seq \in Nat
            BY <2>4, MetaNumbers, BoundAssumption
        <3>2. Snapshot(t, 0) \in Chunk
            BY <3>1, ChunkOf
        <3>3. Snapshot(t, 0) # c
            BY <3>1 DEF Snapshot
        <3> QED BY <2>4, <3>2, <3>3
    <2>9. PlanSynced'
        BY <1>1, <1>2, <1>3, <1>4, <1>8, <2>2, <2>7, <2>8 DEF PlanSynced
    <2> QED BY <1>5, <1>6, <2>9 DEF Synced
<1> QED BY <1>1, <1>7, <1>8

\* The same names and more: fewer shards are spoken of.
LEMMA MoreRenamed ==
    ASSUME NEW ren, NEW ren2, ren \subseteq ren2
    PROVE  /\ \A l : Apart(l, ren) => Apart(l, ren2)
           /\ \A d : Bare(d, ren) => Bare(d, ren2)
           /\ \A r, l, m : Matches(r, l, m, ren) => Matches(r, l, m, ren2)
BY DEF Apart, Bare, Matches

LEMMA CommandSynced ==
    ASSUME ~IoErrors, Shape, Safe, Synced, Command
    PROVE  Synced'
<1> USE DEF C!Saving, C!Recovering
<1>1. C!StartSave
    BY CommandIs DEF Mutation, Mutate, Compact
<1>2. pc = "idle" /\ pc' = "recover" /\ UNCHANGED <<disk, root, rec>>
    BY <1>1 DEF C!StartSave, C!store
<1>3. /\ Apart(sess.mem, renamed) /\ Below(sess.mem, sess.nextId) /\ rec = NoRec
      /\ Matches(root, try_load_sharded_catalog(disk, root), sess.mem, renamed)
    BY <1>2 DEF Synced, SessionSynced, Safe, StepOK
<1>4. renamed \subseteq renamed'
    BY <1>3, CommandContinues DEF Unique
<1>5. DiskSynced'
    BY <1>2, <1>3, <1>4, MoreRenamed DEF Synced, DiskSynced
<1>6. PlanSynced'
    BY <1>2 DEF PlanSynced
<1>7. /\ Apart(sess.mem, renamed')
      /\ Matches(root, try_load_sharded_catalog(disk, root), sess.mem, renamed')
    BY <1>3, <1>4, MoreRenamed
<1>8. CASE \E m, next, pend, touched : Mutate(m, next, pend, touched) /\ Continues(m, next, pend, renamed')
    <2>1. PICK m, next, pend, touched : Mutate(m, next, pend, touched) /\ Continues(m, next, pend, renamed')
        BY <1>8
    <2>2. /\ saved' = sess /\ sess' = [mem |-> m, nextId |-> next]
          /\ op' = [kind |-> "save", pend |-> pend, touched |-> touched, root |-> NoRoot,
                    first |-> {}, refused |-> FALSE]
        BY <2>1 DEF Mutate
    <2>3. sess'.mem = m /\ sess'.nextId = next /\ op'.kind = "save" /\ op'.pend = pend
        BY <2>2
    <2>4. SessionSynced'
        BY <1>2, <1>3, <1>7, <2>1, <2>2, <2>3 DEF SessionSynced, Continues
    <2> QED BY <1>5, <1>6, <2>4 DEF Synced
<1>9. CASE \E s \in ShardId : Compact(s)
    <2>1. saved' = sess /\ sess' = sess /\ op'.kind = "compact"
        BY <1>9 DEF Compact
    <2>2. SessionSynced'
        BY <1>2, <1>3, <1>7, <2>1 DEF SessionSynced
    <2> QED BY <1>5, <1>6, <2>2 DEF Synced
<1> QED BY <1>3, <1>8, <1>9, CommandContinues DEF Unique

\* A chunk is deleted that the root index does not refer to.
LEMMA DeleteSynced ==
    ASSUME Shape, DiskSynced, NEW c \in Chunk, C!delete_chunk(c), c \notin Refs(root), UNCHANGED renamed,
           \/ rec = NoRec
           \/ c \in rec.new
           \/ c \notin Refs(rec.root)
    PROVE  /\ DiskSynced'
           /\ try_load_sharded_catalog(disk, root)' = try_load_sharded_catalog(disk, root)
<1>1. disk \in Contents /\ LogOK(root) /\ (rec # NoRec => LogOK(rec.root))
    BY DEF Shape, StoreOK
<1>2. disk' = [disk EXCEPT ![c] = Absent] /\ root' = root /\ rec' = rec
    BY DEF C!delete_chunk
<1>3. try_load_sharded_catalog(disk', root) = try_load_sharded_catalog(disk, root)
    BY <1>1, <1>2, PutFrame
<1>4. disk'[c] = Absent /\ \A x \in Chunk : x # c => disk'[x] = disk[x]
    BY ONLY <1>1, <1>2, c \in Chunk, PutIs
<1>5. Bare(disk', renamed)
    <2>1. \A s \in ShardId : Snapshot(s, 0) \in Chunk
        BY ChunkOf, BoundAssumption
    <2> QED BY <1>4, <2>1 DEF DiskSynced, Bare
<1>6. ASSUME rec # NoRec, rec.phase = "Committing", Complete(disk', rec)
      PROVE  Apart(try_load_sharded_catalog(disk', rec.root), renamed)
    <2>1. c \notin rec.new
        BY <1>4, <1>6 DEF Complete
    <2>2. c \notin Refs(rec.root)
        BY <1>6, <2>1
    <2>3. Complete(disk, rec)
        <3>1. rec.new \subseteq Chunk
            BY <1>6 DEF Shape, StoreOK, C!Record
        <3> QED BY <1>4, <1>6, <2>1, <3>1 DEF Complete
    <2>4. try_load_sharded_catalog(disk', rec.root) = try_load_sharded_catalog(disk, rec.root)
        <3>1. LogOK(rec.root)
            BY <1>1, <1>6
        <3> QED BY ONLY <1>1, <1>2, <2>2, <3>1, c \in Chunk, PutFrame
    <2> QED BY <1>6, <2>3, <2>4 DEF DiskSynced
<1> QED BY <1>2, <1>3, <1>5, <1>6 DEF DiskSynced

\* A step of a recovery on the way into an unlock: there is no session yet.
LEMMA RecoverySynced ==
    ASSUME Shape, Safe, Synced, Keep, RecoveryStep(TRUE)
    PROVE  Synced'
<1> USE DEF C!Saving, C!Recovering
<1>0. UNCHANGED <<sess, saved, op, renamed>>
    BY DEF Keep
<1>1. /\ pc \in {"undo", "redo", "redoOld"} /\ back' = back
      /\ pc' \in {"undo", "redoOld"} \/ pc' = back
    BY DEF RecoveryStep, C!Undo, C!RedoOld, C!Redo, C!Forget, C!Goto
<1>2. op = NoOp
    BY <1>1 DEF Synced, SessionSynced
<1>3. back = "load"
    BY <1>1, <1>2 DEF Shape, Control, StoreOK
<1>4. PlanSynced' /\ SessionSynced'
    BY <1>0, <1>1, <1>2, <1>3 DEF PlanSynced, SessionSynced
<1>5. ASSUME NEW c \in Chunk, C!Undo(c, TRUE) \/ C!RedoOld(c, TRUE) PROVE DiskSynced'
    <2>1. C!delete_chunk(c)
        BY <1>5 DEF C!Undo, C!RedoOld
    <2>2. CASE C!Undo(c, TRUE)
        <3>1. c \in rec.new /\ c \notin Refs(root)
            BY <2>2 DEF C!Undo, Safe, StepOK
        <3> QED BY <1>0, <2>1, <3>1, DeleteSynced DEF Synced
    <2>3. CASE C!RedoOld(c, TRUE)
        <3>1. rec # NoRec /\ rec.phase = "Committing" /\ root = rec.root /\ c \in rec.old
            BY <2>3 DEF C!RedoOld, Safe, StepOK, Shape, Control
        <3>2. c \notin Refs(rec.root) /\ c \notin Refs(root)
            BY <3>1 DEF Safe, Stored, RecordFits
        <3> QED BY <1>0, <2>1, <3>2, DeleteSynced DEF Synced
    <2> QED BY <1>5, <2>2, <2>3
<1>6. CASE C!Redo(TRUE)
    <2>1. root' = rec.root /\ disk' = disk /\ rec' = rec /\ rec # NoRec
        BY <1>6 DEF C!Redo, C!write_root_index, Shape, Control
    <2>2. rec.phase = "Committing" /\ Complete(disk, rec)
        BY <1>6 DEF C!Redo, Safe, StepOK
    <2>3. DiskSynced'
        BY <1>0, <2>1, <2>2 DEF Synced, DiskSynced, Bare, Complete
    <2> QED BY <1>4, <2>3 DEF Synced
<1>7. CASE C!Forget(TRUE)
    <2>1. root' = root /\ disk' = disk /\ rec' = NoRec
        BY <1>7 DEF C!Forget, C!delete_commit_record
    <2>2. DiskSynced'
        BY <1>0, <2>1 DEF Synced, DiskSynced, Bare
    <2> QED BY <1>4, <2>2 DEF Synced
<1> QED BY <1>4, <1>5, <1>6, <1>7 DEF RecoveryStep, Synced

\* A step of a save that leaves the catalog an unlock would load.
LEMMA SavingSession ==
    ASSUME Shape, Synced, Keep, pc \in C!Saving, pc' \in C!Saving,
           pc' \in {"write", "mark", "swap"} =>
             /\ pc \in {"write", "mark", "swap"} /\ root' = root
             /\ try_load_sharded_catalog(disk, root)' = try_load_sharded_catalog(disk, root)
    PROVE  SessionSynced'
<1> USE DEF C!Saving, C!Recovering
<1>1. UNCHANGED <<sess, saved, op, renamed>> /\ op # NoOp
    BY PlanHere DEF Keep
<1> QED BY <1>1 DEF Synced, SessionSynced

LEMMA WriteChunkSynced ==
    ASSUME Shape, Safe, Synced, Keep, NEW c \in Chunk, C!WriteChunk(c, TRUE)
    PROVE  Synced'
<1> USE DEF C!Saving
<1>1. /\ pc = "write" /\ pc' = "write" /\ c \in todo /\ plan' = plan
      /\ disk' = [disk EXCEPT ![c] = plan.val[c]] /\ UNCHANGED <<root, rec, sess, op, renamed>>
    BY DEF C!WriteChunk, C!Goto, C!write_chunk, Keep
<1>2. disk \in Contents /\ LogOK(root)
    BY DEF Shape, StoreOK
<1>3. c \in C!New(plan) /\ c \notin Refs(root) /\ rec = NoRec
    BY <1>1 DEF Safe, StepOK, SaveOK
<1>4. Over(disk', plan) = Over(disk, plan)
    BY <1>1, <1>2, <1>3, OverPut
<1>5. try_load_sharded_catalog(disk', root) = try_load_sharded_catalog(disk, root)
    <2> DEFINE v == plan.val[c]
    <2>1. disk' = [disk EXCEPT ![c] = v]
        BY <1>1
    <2> HIDE DEF v
    <2> QED BY ONLY <1>2, <1>3, <2>1, c \in Chunk, PutFrame
<1>6. Bare(disk', renamed)
    <2>1. disk'[c] = plan.val[c] /\ \A x \in Chunk : x # c => disk'[x] = disk[x]
        <3> DEFINE v == plan.val[c]
        <3>1. disk' = [disk EXCEPT ![c] = v]
            BY <1>1
        <3> HIDE DEF v
        <3>2. disk'[c] = v /\ \A x \in Chunk : x # c => disk'[x] = disk[x]
            BY ONLY <1>2, <3>1, c \in Chunk, PutIs
        <3> QED BY <3>2 DEF v
    <2>2. \A s \in ShardId : Snapshot(s, 0) \in Chunk
        BY ChunkOf, BoundAssumption
    <2>3. Bare(disk, renamed) /\ Bare(plan.val, renamed)
        BY <1>1 DEF Synced, DiskSynced, PlanSynced
    <2> QED BY <2>1, <2>2, <2>3 DEF Bare
<1>7. DiskSynced'
    BY <1>1, <1>3, <1>5, <1>6 DEF Synced, DiskSynced
<1>8. PlanSynced'
    BY <1>1, <1>4 DEF Synced, PlanSynced, Exact
<1>9. SessionSynced'
    BY <1>1, <1>5, SavingSession
<1> QED BY <1>7, <1>8, <1>9 DEF Synced

LEMMA CommitStepSynced ==
    ASSUME Shape, Safe, Synced, Keep, CommitStep(TRUE)
    PROVE  Synced'
<1> USE DEF C!Saving
<1>0. ~op.refused /\ UNCHANGED <<sess, saved, op, renamed>>
    BY DEF CommitStep, Keep
<1>1. CASE C!WriteStaging(TRUE)
    <2>1. /\ pc = "write" /\ pc' = "mark" /\ plan' = plan
          /\ rec' = C!RecordOf(plan, "Staging") /\ UNCHANGED <<disk, root>>
        BY <1>1 DEF C!WriteStaging, C!Goto, C!write_commit_record
    <2>2. rec'.phase = "Staging"
        BY <2>1 DEF C!RecordOf
    <2>3. DiskSynced'
        BY <1>0, <2>1, <2>2 DEF Synced, DiskSynced, Bare
    <2>4. PlanSynced'
        BY <1>0, <2>1 DEF Synced, PlanSynced, Exact
    <2>5. SessionSynced'
        BY <2>1, SavingSession
    <2> QED BY <2>3, <2>4, <2>5 DEF Synced
<1>2. CASE C!WriteCommitting(TRUE)
    <2>1. /\ pc = "mark" /\ pc' = "swap" /\ plan' = plan
          /\ rec' = C!RecordOf(plan, "Committing") /\ UNCHANGED <<disk, root>>
        BY <1>2, CommittingStored DEF C!WriteCommitting, C!Goto, C!write_commit_record
    <2>2. todo = {}
        BY <2>1 DEF Safe, StepOK
    <2>3. Over(disk, plan) = disk
        BY <2>1, <2>2, PlanOnDisk
    <2>4. rec'.root = plan.root
        BY <2>1 DEF C!RecordOf
    <2>5. Apart(try_load_sharded_catalog(disk, plan.root), renamed)
        BY <1>0, <2>1, <2>3 DEF Synced, PlanSynced
    <2>6. DiskSynced'
        BY <1>0, <2>1, <2>4, <2>5 DEF Synced, DiskSynced, Bare
    <2>7. PlanSynced'
        BY <1>0, <2>1 DEF Synced, PlanSynced, Exact
    <2>8. SessionSynced'
        BY <2>1, SavingSession
    <2> QED BY <2>6, <2>7, <2>8 DEF Synced
<1>3. CASE C!WriteRoot(TRUE)
    <2>1. pc = "swap" /\ pc' = "unmark" /\ plan' = plan /\ root' = plan.root /\ UNCHANGED <<disk, rec>>
        BY <1>3 DEF C!WriteRoot, C!Goto, C!write_root_index
    <2>2. todo = {}
        BY <2>1 DEF Safe, StepOK
    <2>3. Over(disk, plan) = disk
        BY <2>1, <2>2, PlanOnDisk
    <2>5. Apart(try_load_sharded_catalog(disk, plan.root), renamed)
        BY <1>0, <2>1, <2>3 DEF Synced, PlanSynced
    <2>6. DiskSynced'
        BY <1>0, <2>1, <2>5 DEF Synced, DiskSynced, Bare, Complete
    <2>7. PlanSynced'
        BY <1>0, <2>1 DEF Synced, PlanSynced, Exact
    <2>8. SessionSynced'
        BY <2>1, SavingSession
    <2> QED BY <2>6, <2>7, <2>8 DEF Synced
<1>4. CASE C!DeleteRecord(TRUE)
    <2>1. pc = "unmark" /\ pc' = "dropOld" /\ plan' = plan /\ rec' = NoRec /\ UNCHANGED <<disk, root>>
        BY <1>4 DEF C!DeleteRecord, C!Goto, C!delete_commit_record
    <2>6. DiskSynced'
        BY <1>0, <2>1 DEF Synced, DiskSynced, Bare
    <2>7. PlanSynced'
        BY <1>0, <2>1 DEF Synced, PlanSynced, Exact
    <2>8. SessionSynced'
        BY <2>1, SavingSession
    <2> QED BY <2>6, <2>7, <2>8 DEF Synced
<1>5. ASSUME NEW c \in Chunk, C!DeleteOld(c, TRUE) PROVE Synced'
    <2>1. /\ pc = "dropOld" /\ pc' = "dropOld" /\ plan' = plan /\ C!delete_chunk(c)
          /\ disk' = [disk EXCEPT ![c] = Absent] /\ UNCHANGED <<root, rec>>
        BY <1>5 DEF C!DeleteOld, C!Goto, C!delete_chunk
    <2>2. c \in plan.old /\ root = plan.root /\ rec = NoRec
        BY <1>5 DEF C!DeleteOld, Safe, StepOK
    <2>3. disk \in Contents /\ LogOK(plan.root)
        BY <2>1, PlanHere DEF Shape, StoreOK
    <2>4. c \notin Refs(plan.root) /\ c \notin Refs(root)
        BY <2>1, <2>2 DEF Safe, SaveOK, PlanFits
    <2>5. try_load_sharded_catalog(Over(disk', plan), plan.root)
            = try_load_sharded_catalog(Over(disk, plan), plan.root)
        <3>1. disk' = [disk EXCEPT ![c] = Absent] /\ c \notin Refs(plan.root)
            BY <2>1, <2>4
        <3> HIDE DEF C!Saving
        <3> QED BY ONLY <2>3, <3>1, c \in Chunk, OverDrop
    <2>6. DiskSynced'
        BY <1>0, <2>1, <2>2, <2>4, DeleteSynced DEF Synced
    <2>7. PlanSynced'
        BY <1>0, <2>1, <2>5 DEF Synced, PlanSynced, Exact
    <2>8. SessionSynced'
        BY <2>1, SavingSession
    <2> QED BY <2>6, <2>7, <2>8 DEF Synced
<1> QED BY <1>1, <1>2, <1>3, <1>4, <1>5 DEF CommitStep

\* A session goes on, or none is open.
LEMMA StoppedSynced ==
    ASSUME DiskSynced', pc' \in {"locked", "load", "idle"}, op' = NoOp,
           pc' = "idle" =>
             /\ (Apart(sess.mem, renamed) /\ Below(sess.mem, sess.nextId))'
             /\ (Apart(saved.mem, renamed) /\ Below(saved.mem, saved.nextId))'
             /\ Matches(root, try_load_sharded_catalog(disk, root), sess.mem, renamed)'
    PROVE  Synced'
<1>1. PlanSynced'
    BY DEF PlanSynced, C!Saving
<1>2. SessionSynced'
    BY DEF SessionSynced
<1> QED BY <1>1, <1>2 DEF Synced

LEMMA DoneSynced ==
    ASSUME Shape, Safe, Synced, Done
    PROVE  Synced'
<1> USE DEF C!Saving
<1>1. /\ pc = "dropOld" /\ todo = {} /\ pc' = "idle" /\ UNCHANGED <<disk, root, rec, renamed>> /\ op' = NoOp
      /\ sess' = sess /\ saved' = sess
    BY DEF Done, C!Finish, C!Goto, C!store
<1>2. op # NoOp /\ ~op.refused /\ root = plan.root /\ Over(disk, plan) = disk
    BY <1>1, PlanHere, PlanOnDisk DEF Safe, StepOK, SaveOK
<1>3. Matches(root, try_load_sharded_catalog(disk, root), sess.mem, renamed)
    BY <1>1, <1>2 DEF Synced, PlanSynced
<1>4. Apart(sess.mem, renamed) /\ Below(sess.mem, sess.nextId)
    BY <1>2 DEF Synced, SessionSynced
<1>5. DiskSynced'
    BY <1>1, SameDisk DEF Synced
<1> QED BY <1>1, <1>3, <1>4, <1>5, StoppedSynced

LEMMA RefuseSynced ==
    ASSUME Shape, Safe, Synced, Refuse
    PROVE  Synced'
<1>1. /\ pc \in {"write", "plan"} /\ pc' = C!Abort /\ UNCHANGED <<disk, root, rec>>
      /\ Rollback
    BY DEF Refuse, C!Fail, C!Goto, C!store
<1>2. op # NoOp /\ back = "plan"
    BY <1>1 DEF Shape, Control, C!Saving
<1>3. pc' = "idle" /\ sess' = saved /\ saved' = saved /\ op' = NoOp /\ UNCHANGED renamed
    BY <1>1, <1>2 DEF C!Abort, Rollback
<1>4. /\ Matches(root, try_load_sharded_catalog(disk, root), saved.mem, renamed)
      /\ Apart(saved.mem, renamed) /\ Below(saved.mem, saved.nextId)
    BY <1>1, <1>2 DEF Synced, SessionSynced
<1>5. DiskSynced'
    BY <1>1, <1>3, SameDisk DEF Synced
<1> QED BY <1>1, <1>3, <1>4, <1>5, StoppedSynced

LEMMA CrashSynced ==
    ASSUME Synced, Crash
    PROVE  Synced'
<1>1. pc' = "locked" /\ UNCHANGED <<disk, root, rec, renamed>> /\ op' = NoOp
    BY DEF Crash, C!Crash, C!store, Closed
<1>2. DiskSynced'
    BY <1>1, SameDisk DEF Synced
<1> QED BY <1>1, <1>2, StoppedSynced

LEMMA GcSynced ==
    ASSUME ~IoErrors, Shape, Safe, Synced, Gc
    PROVE  Synced'
<1>1. PICK c \in Chunk : C!GcDelete(c)
    BY DEF Gc
<1>2. /\ pc = "idle" /\ c \notin Refs(root) /\ C!delete_chunk(c)
      /\ UNCHANGED <<root, pc, sess, saved, op, renamed>>
    BY <1>1 DEF C!GcDelete, C!delete_chunk, Gc, Keep
<1>3. rec = NoRec /\ op = NoOp
    BY <1>2 DEF Safe, StepOK, OpOK
<1>4. DiskSynced' /\ try_load_sharded_catalog(disk, root)' = try_load_sharded_catalog(disk, root)
    BY <1>2, <1>3, DeleteSynced DEF Synced
<1>5. /\ Apart(sess.mem, renamed) /\ Below(sess.mem, sess.nextId)
      /\ Apart(saved.mem, renamed) /\ Below(saved.mem, saved.nextId)
      /\ Matches(root, try_load_sharded_catalog(disk, root), sess.mem, renamed)
    BY <1>2 DEF Synced, SessionSynced
<1> QED BY <1>2, <1>3, <1>4, <1>5, StoppedSynced

LEMMA LoadSynced ==
    ASSUME Shape, Safe, Synced, Load
    PROVE  Synced'
<1> DEFINE m == try_load_sharded_catalog(disk, root)
<1>1. /\ pc = "load" /\ pc' = "idle" /\ UNCHANGED <<disk, root, rec, op, renamed>>
      /\ \A s \in ShardId : m[s] # Failure
      /\ sess' = [mem |-> m, nextId |-> max_catalog_node_id(m) + 1] /\ saved' = sess'
    BY DEF Load, C!Loaded, C!store
<1>2. op = NoOp
    BY <1>1 DEF Safe, OpOK
<1>3. \A s \in ShardId : m[s] \in Shard \cup {NoShard} /\ (m[s] # NoShard <=> root[s] # NoMeta)
    BY <1>1, LoadedType DEF Shape, StoreOK
<1>4. m = [s \in ShardId |-> m[s]]
    BY DEF try_load_sharded_catalog
<1>5. Apart(m, renamed)
    BY DEF Synced, DiskSynced
<1>6. DiskSynced'
    BY <1>1, SameDisk DEF Synced
<1>7. try_load_sharded_catalog(disk, root)' = m
    BY <1>1
<1> HIDE DEF m
<1>8. m \in Catalogs
    BY <1>3, <1>4 DEF Catalogs
<1>9. Below(m, max_catalog_node_id(m) + 1)
    <2> SUFFICES ASSUME NEW s \in ShardId, m[s] # NoShard, NEW i \in Ids(m[s])
                 PROVE  i < max_catalog_node_id(m) + 1
        BY DEF Below
    <2>1. i \in Nat /\ i <= max_catalog_node_id(m) /\ max_catalog_node_id(m) \in Nat
        BY <1>8, IdsNat, NodeIdNat
    <2> QED BY <2>1
<1>10. Matches(root, m, m, renamed)
    BY <1>3 DEF Matches
<1>11. sess'.mem = m /\ saved'.mem = m /\ sess'.nextId = max_catalog_node_id(m) + 1
       /\ saved'.nextId = max_catalog_node_id(m) + 1
    BY <1>1
<1> QED BY <1>1, <1>2, <1>5, <1>6, <1>7, <1>9, <1>10, <1>11, StoppedSynced

LEMMA ReadingSynced ==
    ASSUME Shape, Safe, Synced, StartUnlock \/ ReadRecord
    PROVE  Synced'
<1> USE DEF C!Saving, C!Recovering
<1>1. UNCHANGED <<disk, root, rec, sess, saved, op, renamed>>
    BY DEF StartUnlock, C!StartUnlock, ReadRecord, C!ReadRecord, C!store, Keep
<1>2. DiskSynced'
    BY <1>1, SameDisk DEF Synced
<1>3. CASE StartUnlock
    <2>1. pc = "locked" /\ pc' = "recover"
        BY <1>3 DEF StartUnlock, C!StartUnlock
    <2>2. op = NoOp
        BY <2>1 DEF Safe, OpOK
    <2>3. PlanSynced' /\ SessionSynced'
        BY <1>1, <2>1, <2>2 DEF PlanSynced, SessionSynced
    <2> QED BY <1>2, <2>3 DEF Synced
<1>4. CASE ReadRecord
    <2>1. /\ pc' \in {"undo", "redo"} \/ (rec = NoRec /\ pc' = back)
          /\ rec = NoRec => pc' = back
          /\ pc = "recover"
        BY <1>4 DEF ReadRecord, C!ReadRecord
    <2>2. back \in {"load", "plan"}
        BY DEF Shape, StoreOK
    <2>3. PlanSynced'
        BY <2>1, <2>2 DEF PlanSynced
    <2>4. op # NoOp => rec = NoRec
        BY <2>1 DEF Synced, SessionSynced
    <2>5. SessionSynced'
        BY <1>1, <2>1, <2>2, <2>4 DEF Synced, SessionSynced
    <2> QED BY <1>2, <2>3, <2>5 DEF Synced
<1> QED BY <1>3, <1>4

LEMMA NextSynced ==
    ASSUME ~IoErrors, Shape, Safe, Synced, [Next]_vars
    PROVE  Synced'
<1>1. CASE WriteChunk(TRUE) /\ Keep
    <2>1. todo \subseteq Chunk
        BY DEF Shape, StoreOK
    <2> QED BY <1>1, <2>1, WriteChunkSynced DEF WriteChunk
<1>2. CASE UNCHANGED vars
    <2>1. UNCHANGED <<disk, root, rec, plan, todo, back, pc, sess, saved, op, renamed>>
        BY <1>2 DEF vars, cvars
    <2>2. DiskSynced'
        BY <2>1, SameDisk DEF Synced
    <2> QED BY <2>1, <2>2 DEF Synced, PlanSynced, SessionSynced, Exact
<1>3. ~IoError
    BY DEF IoError
<1> QED BY <1>1, <1>2, <1>3, ReadingSynced, LoadSynced, CommandSynced, BeginSynced, CommitStepSynced,
           RecoverySynced, DoneSynced, RefuseSynced, CrashSynced, GcSynced DEF Next

LEMMA InitSynced ==
    ASSUME Init
    PROVE  Synced
<1> USE DEF C!Saving, C!Recovering
<1>1. PICK f \in [Preset -> 1..Cardinality(Preset)] :
        /\ \A s, t \in Preset : f[s] = f[t] => s = t
        /\ disk = [c \in Chunk |-> IF c[1] = "snapshot" /\ c[3] = 0 /\ c[2] \in Preset
                                   THEN [id |-> f[c[2]], kids |-> NoKids] ELSE Absent]
    BY DEF Init
<1>2. /\ root = [s \in ShardId |-> IF s \in Preset THEN NewMeta ELSE NoMeta]
      /\ rec = NoRec /\ pc = "locked" /\ op = NoOp
    BY DEF Init
<1>3. \A s \in ShardId : /\ Snapshot(s, 0) \in Chunk /\ Snapshot(s, 0)[1] = "snapshot"
                         /\ Snapshot(s, 0)[2] = s /\ Snapshot(s, 0)[3] = 0
    BY ChunkOf, BoundAssumption DEF Snapshot
<1>4. \A s \in Preset : /\ [id |-> f[s], kids |-> NoKids] \in Shard
                        /\ [id |-> f[s], kids |-> NoKids].id = f[s]
                        /\ [id |-> f[s], kids |-> NoKids].kids = NoKids
    BY <1>1, PresetFinite DEF Shard, NoKids
<1>5. \A s \in ShardId : disk[Snapshot(s, 0)] =
        IF s \in Preset THEN [id |-> f[s], kids |-> NoKids] ELSE Absent
    BY <1>1, <1>3
<1>6. Bare(disk, renamed)
    BY <1>4, <1>5 DEF Bare
<1> DEFINE l == try_load_sharded_catalog(disk, root)
<1>7. \A s \in ShardId : l[s] = NoShard \/ (s \in Preset /\ l[s] = [id |-> f[s], kids |-> NoKids])
    <2> SUFFICES ASSUME NEW s \in ShardId
                 PROVE  l[s] = NoShard \/ (s \in Preset /\ l[s] = [id |-> f[s], kids |-> NoKids])
        OBVIOUS
    <2>0. LogOK(root)
        BY InitRoot
    <2>1. CASE root[s] = NoMeta
        BY <2>0, <2>1, LoadIn
    <2>2. CASE root[s] # NoMeta
        <3>1. root[s] = NewMeta /\ s \in Preset
            BY <1>2, <2>2
        <3>2. MetaOK(NewMeta) /\ ~NewMeta.has /\ NewMeta.seq = 0
            BY NewMetaOK DEF NewMeta
        <3>3. disk[Snapshot(s, NewMeta.seq)] = [id |-> f[s], kids |-> NoKids]
            BY <1>5, <3>1, <3>2
        <3>4. disk[Snapshot(s, NewMeta.seq)] # Absent
            BY <1>4, <3>1, <3>3, ContentAssumption
        <3>5. load_full_shard_from_meta(disk, s, NewMeta) = disk[Snapshot(s, NewMeta.seq)]
            BY <3>2, <3>4, LoadPlain
        <3> QED BY <2>0, <2>2, <3>1, <3>3, <3>5, LoadIn
    <2> QED BY <2>1, <2>2
<1> HIDE DEF l
<1>8. \A s \in ShardId : l[s] # NoShard =>
         s \in Preset /\ l[s].id = f[s] /\ \A n \in Name : l[s].kids[n] = NoNode
    <2>1. \A s \in ShardId : l[s] # NoShard => s \in Preset /\ l[s].id = f[s] /\ l[s].kids = NoKids
        BY <1>4, <1>7
    <2>2. \A n \in Name : NoKids[n] = NoNode
        BY DEF NoKids
    <2> QED BY <2>1, <2>2
<1>9. \A s \in ShardId : l[s] # NoShard => s \in Preset /\ \A i \in Ids(l[s]) : i = f[s]
    BY <1>8, IdsIs
<1>10. Apart(l, renamed)
    <2> SUFFICES ASSUME NEW s \in ShardId \ renamed, NEW t \in ShardId \ renamed,
                        l[s] # NoShard, l[t] # NoShard
                 PROVE  (s # t => Ids(l[s]) \cap Ids(l[t]) = {}) /\ catalog_node_ids_unique(l[s])
        BY DEF Apart
    <2>1. catalog_node_ids_unique(l[s])
        BY <1>8 DEF catalog_node_ids_unique
    <2>2. s # t => Ids(l[s]) \cap Ids(l[t]) = {}
        BY <1>1, <1>9
    <2> QED BY <2>1, <2>2
<1>11. DiskSynced
    BY <1>2, <1>6, <1>10 DEF DiskSynced, l
<1>12. PlanSynced /\ SessionSynced
    BY <1>2 DEF PlanSynced, SessionSynced
<1> QED BY <1>11, <1>12 DEF Synced

LEMMA SyncedInvariant ==
    ASSUME ~IoErrors
    PROVE  Spec => [](Shape /\ Safe /\ Synced)
<1>0. Covered
    BY DEF Covered
<1>1. Init => Shape /\ Safe /\ Synced
    BY InitShape, InitSafe, InitSynced
<1>2. Shape /\ Safe /\ Synced /\ [Next]_vars => (Shape /\ Safe /\ Synced)'
    BY <1>0, NextShape, NextSafe, NextSynced
<1> QED BY <1>1, <1>2, PTL DEF Spec

\* Over any crashes at any step, a node id names one node of the durable catalog (but for
\* the directories of RenameIsDurable): ids handed out again after an unlock, and those
\* given to system shards in passing, meet no id that an unlock can still load.
THEOREM SaveIdsUnique ==
    ASSUME ~IoErrors
    PROVE  Spec => []NodeIdsUnique
<1>1. Synced => NodeIdsUnique
    BY DEF Synced, DiskSynced, Apart, NodeIdsUnique
<1> QED BY <1>1, SyncedInvariant, PTL

\* Over any crashes at any step, and with directories that come and go, an unlock gives
\* back exactly the shards the command changed once its save can only succeed.
THEOREM SaveSurvivesCrashes ==
    ASSUME ~IoErrors
    PROVE  Spec => []SuccessMeansDurable
<1>1. Shape /\ Safe /\ Synced => SuccessMeansDurable
    <2> SUFFICES ASSUME Shape, Safe, Synced, pc = "dropOld", op.kind = "save", NEW s \in op.touched \ renamed
                 PROVE  try_load_sharded_catalog(disk, root)[s] = persistence_shards(sess.mem)[s]
        BY DEF SuccessMeansDurable, LoadsAsInMemory
    <2>1. pc \in C!Saving /\ root = plan.root /\ todo \subseteq plan.old /\ ~op.refused
        BY DEF C!Saving, Safe, StepOK, SaveOK
    <2>2. PlanFits(disk, plan, todo) /\ Exact(disk, plan, sess.mem, renamed)
        BY <2>1 DEF Safe, SaveOK, Synced, PlanSynced
    <2>3. C!New(plan) \cap todo = {}
        BY <2>1, <2>2 DEF PlanFits
    <2>4. Over(disk, plan) = disk
        BY <2>1, <2>3, PlanOnDisk
    <2>5. s \in ShardId \ renamed
        BY <2>1, PlanHere DEF Shape, SessionOK, Operation
    <2> QED BY <2>1, <2>2, <2>4, <2>5 DEF Exact
<1> QED BY <1>1, SyncedInvariant, PTL

(***************************************************************************)
(* A save is refused only when the durable catalog is not the one the        *)
(* session knows, and without storage errors that does not happen.           *)
(***************************************************************************)
NeverRefused == op # NoOp => ~op.refused

LEMMA RefusalNeeds ==
    ASSUME NEW s, NEW sh, NEW ds, Decision(s, sh, ds) = "refuse"
    PROVE  /\ ds # << >>
           /\ \/ Replayed(s) = Failure
              \/ ~catalog_node_ids_unique(sh)
              \/ ~has_existing_node_mutation_delta(ds) /\ ~catalog_preserves_existing_nodes(Replayed(s), sh)
BY DEF Decision

LEMMA SaveNotRefused ==
    ASSUME NEW m, NEW pend, NEW old, NEW q, SyncHyp(m, pend, old, {}, q), Apart(m, {})
    PROVE  ~IsRefused(m, pend)
<1> SUFFICES ASSUME NEW s \in Here(m), Does(m, pend, s) = "refuse" PROVE FALSE
    BY DEF IsRefused
<1> DEFINE sh == persistence_shards(m)[s]
<1>1. m \in Catalogs /\ LogOK(root) /\ s \in ShardId
    BY SyncParts, HereFacts
<1>2. /\ pend[s] # << >>
      /\ \/ Replayed(s) = Failure
         \/ ~catalog_node_ids_unique(sh)
         \/ ~has_existing_node_mutation_delta(pend[s]) /\ ~catalog_preserves_existing_nodes(Replayed(s), sh)
    BY RefusalNeeds DEF Does
<1>3. /\ m[s] # NoShard /\ old[s] # NoShard
      /\ has_existing_node_mutation_delta(pend[s]) \/ catalog_preserves_existing_nodes(old[s], m[s])
    BY <1>1, <1>2 DEF SyncHyp, Changed
<1>4. root[s] # NoMeta
    <2>1. root[s] = NoMeta => try_load_sharded_catalog(disk, root)[s] = NoShard
        BY <1>1, LoadIn
    <2> QED BY <1>1, <1>3, <2>1 DEF SyncHyp, Matches
<1>5. Replayed(s) \in Shard /\ Replayed(s) = old[s]
    <2>1. Replayed(s) = load_full_shard_from_meta(disk, s, root[s])
        BY <1>4 DEF Replayed, MetaOf
    <2> QED BY <1>1, <1>3, <1>4, <2>1, KnownIsOld
<1>6. sh = m[s] /\ m[s] # Failure
    BY <1>1, <1>3, PersistenceType, IdsNat
<1>7. catalog_node_ids_unique(m[s])
    BY <1>1, <1>3, <1>6 DEF Apart
<1> QED BY <1>2, <1>3, <1>5, <1>6, <1>7, ContentAssumption

LEMMA NextNotRefused ==
    ASSUME "renameTop" \notin Ops, Shape, Safe, Synced, NeverRefused, renamed = {}, [Next]_vars
    PROVE  NeverRefused' /\ renamed' = {}
<1>1. CASE BeginSave
    <2>1. PICK q :
            /\ pc = "plan" /\ op # NoOp
            /\ \/ op.kind = "save" /\ SaveHyp(sess.mem, op.pend, q)
               \/ \E s \in ShardId : op.kind = "compact" /\ op.touched = {s} /\ CompactHyp(s, op.root, q)
            /\ C!Begin(q.plan)
            /\ op' = [op EXCEPT !.first = q.first, !.refused = q.refused]
            /\ UNCHANGED <<sess, saved, renamed>>
        BY <1>1, BeginPlan
    <2>2. op'.refused = q.refused
        <3>1. op \in Operation
            BY <2>1 DEF Shape, SessionOK
        <3> QED BY <2>1, <3>1 DEF Operation
    <2>3. ~q.refused
        <3>1. CASE op.kind = "save" /\ SaveHyp(sess.mem, op.pend, q)
            <4>1. SyncHyp(sess.mem, op.pend, saved.mem, {}, q) /\ Apart(sess.mem, {})
                BY <2>1, <3>1 DEF Safe, Stored, Synced, DiskSynced, SessionSynced, SyncHyp
            <4> QED BY <3>1, <4>1, SaveNotRefused, SaveType
        <3>2. CASE \E s \in ShardId : CompactHyp(s, op.root, q)
            BY <3>2 DEF CompactHyp
        <3> QED BY <2>1, <3>1, <3>2
    <2> QED BY <2>1, <2>2, <2>3 DEF NeverRefused
<1>2. CASE Command
    <2>1. UNCHANGED renamed
        BY <1>2 DEF Command, RenameTop
    <2>2. op'.refused = FALSE
        BY <1>2, CommandIs DEF Mutation, Mutate, Compact
    <2> QED BY <2>1, <2>2 DEF NeverRefused
<1>3. CASE Done \/ Refuse \/ IoError \/ Crash
    BY <1>3 DEF Done, Refuse, IoError, Crash, Rollback, Closed, NeverRefused
<1>4. CASE StartUnlock \/ ReadRecord \/ Load \/ Gc \/ Keep \/ UNCHANGED vars
    BY <1>4 DEF StartUnlock, ReadRecord, Load, Gc, Keep, vars, NeverRefused
<1> QED BY <1>1, <1>2, <1>3, <1>4 DEF Next

LEMMA NotRefusedInvariant ==
    ASSUME ~IoErrors, "renameTop" \notin Ops
    PROVE  Spec => [](Shape /\ Safe /\ NeverRefused)
<1>1. Init => NeverRefused /\ renamed = {}
    BY DEF Init, NeverRefused
<1>2. Shape /\ Safe /\ Synced /\ NeverRefused /\ renamed = {} /\ [Next]_vars =>
        (NeverRefused /\ renamed = {})'
    BY NextNotRefused
<1> QED BY <1>1, <1>2, SyncedInvariant, PTL DEF Spec

\* Without storage errors, and unless a top-level directory is renamed, no command is
\* refused: the checks that protect existing nodes from a snapshot fallback
\* (ensure_snapshot_fallback_preserves_existing_nodes) never turn a change away.
THEOREM SaveNeverRefused ==
    ASSUME ~IoErrors, "renameTop" \notin Ops
    PROVE  Spec => []NeverRefused
BY NotRefusedInvariant, PTL

(***************************************************************************)
(* The sharded catalog uses the commit protocol as CatalogCommit allows.     *)
(***************************************************************************)
LEMMA BeginAllowed ==
    ASSUME Fixed, Shape, Safe, BeginSave, Shape', Safe', ~op'.refused
    PROVE  \E p \in C!Plan : C!PlanOK(p) /\ C!Begin(p)
<1>1. PICK q :
        /\ pc = "plan" /\ op # NoOp
        /\ \/ op.kind = "save" /\ SaveHyp(sess.mem, op.pend, q)
           \/ \E s \in ShardId : op.kind = "compact" /\ op.touched = {s} /\ CompactHyp(s, op.root, q)
        /\ C!Begin(q.plan)
    BY BeginPlan
<1>2. plan' = q.plan /\ pc' = "write" /\ root' = root
    BY <1>1 DEF C!Begin, C!store
<1>3. q.plan \in C!Plan
    <2>1. CASE op.kind = "save" /\ SaveHyp(sess.mem, op.pend, q)
        BY <2>1, SaveType
    <2>2. CASE \E s \in ShardId : CompactHyp(s, op.root, q)
        BY <2>2, CompactType
    <2> QED BY <1>1, <2>1, <2>2
<1>4. C!PlanOK(q.plan)
    BY <1>2 DEF Safe, SaveOK, PlanFits, C!PlanOK, C!Saving
<1> QED BY <1>1, <1>3, <1>4

LEMMA NextAllowed ==
    ASSUME Fixed, Shape, Safe, [Next]_vars, Shape', Safe'
    PROVE  C!Next \/ (BeginSave /\ op'.refused) \/ UNCHANGED cvars
<1>1. CASE BeginSave
    BY <1>1, BeginAllowed DEF C!Next
<1>2. CASE Command
    <2>1. C!StartSave
        BY <1>2, CommandIs DEF Mutation, Mutate, Compact
    <2> QED BY <2>1 DEF C!Next
<1>3. ASSUME NEW ok \in BOOLEAN, WriteChunk(ok) \/ CommitStep(ok) \/ RecoveryStep(ok) \/ C!Finish(ok)
      PROVE  C!Next
    <2>1. C!Progress(ok)
        BY <1>3, SaveProgress
    <2> QED BY <2>1 DEF C!Next
<1>4. CASE StartUnlock \/ ReadRecord \/ Load \/ Refuse \/ Crash \/ Gc \/ C!Fail
    BY <1>4 DEF StartUnlock, ReadRecord, Load, Refuse, Crash, Gc, C!Next
<1>5. CASE IoError
    BY <1>3, <1>4, <1>5 DEF IoError
<1>6. CASE Done
    BY <1>3, <1>6 DEF Done
<1>7. CASE UNCHANGED vars
    BY <1>7 DEF vars
<1> QED BY <1>1, <1>2, <1>3, <1>4, <1>5, <1>6, <1>7 DEF Next

\* Over a fixed set of shards every step is a step of the commit protocol, but for the
\* planning of a save that will be refused: no such plan is ever committed.
THEOREM SaveFollowsProtocol ==
    ASSUME Covered, Fixed
    PROVE  Spec => [][C!Next \/ (BeginSave /\ op'.refused)]_cvars
<1>1. Shape /\ Safe /\ [Next]_vars /\ Shape' /\ Safe' => [C!Next \/ (BeginSave /\ op'.refused)]_cvars
    BY NextAllowed
<1> QED BY <1>1, SafeInvariant, PTL DEF Spec

\* Without storage errors every step is a step of the commit protocol.
THEOREM SaveImplementsProtocol ==
    ASSUME ~IoErrors, Fixed
    PROVE  Spec => [][C!Next]_cvars
<1>0. Covered /\ "renameTop" \notin Ops
    BY DEF Covered, Fixed
<1>1. Shape /\ Safe /\ [Next]_vars /\ Shape' /\ Safe' /\ NeverRefused' => [C!Next]_cvars
    <2> SUFFICES ASSUME Shape, Safe, [Next]_vars, Shape', Safe', NeverRefused'
                 PROVE  C!Next \/ UNCHANGED cvars
        OBVIOUS
    <2>1. ASSUME BeginSave, op'.refused PROVE FALSE
        <3>1. pc' = "write"
            BY <2>1 DEF BeginSave, C!Begin
        <3>2. op' # NoOp
            BY <3>1 DEF Shape, Control, C!Saving
        <3> QED BY <2>1, <3>2 DEF NeverRefused
    <2> QED BY <2>1, NextAllowed
<1> QED BY <1>0, <1>1, NotRefusedInvariant, PTL DEF Spec
=============================================================================
