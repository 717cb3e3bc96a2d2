---------------------------- MODULE CatalogSave ----------------------------
(***************************************************************************)
(* The sharded catalog on top of the commit protocol of CatalogCommit: what *)
(* an RPC mutation changes in memory and records as deltas, which snapshot  *)
(* and delta chunks a save writes for it, when it falls back to a full      *)
(* snapshot or refuses, how a shard is compacted, and what an unlock reads   *)
(* back.                                                                    *)
(*                                                                         *)
(* A catalog is a set of shards (the top-level directories, by name); a     *)
(* shard is its root node and the nodes below it, by name.  A node is an id *)
(* and a tag that stands for the rest of its fields.  Deeper directories    *)
(* are left out: a delta is resolved below one parent whatever its depth.   *)
(***************************************************************************)
EXTENDS Integers, Sequences, FiniteSetsExt

CONSTANTS
    ShardId,    \* names of top-level directories
    SystemShards, \* eager_system_shard_ids, a sequence: persisted even when they are empty
    Preset,     \* the shards the vault starts with, each an empty directory
    Name,       \* names of nodes inside a shard
    Tag,        \* values of the remaining fields of a node
    Ops,        \* the commands that are issued
    IoErrors,   \* whether storage calls may fail
    MAX_DELTAS, \* deltas a shard may have before it needs a snapshot
    MaxSeq,     \* bound on snapshot and delta sequence numbers
    MaxId,      \* bound on node ids
    NoShard, NoMeta, NoNode, Failure, Absent, NoRec, NoPlan, NoOp

ASSUME PresetAssumption == Preset \subseteq ShardId
ASSUME SystemAssumption ==
    /\ SystemShards \in Seq(ShardId)
    /\ \A i, j \in DOMAIN SystemShards : SystemShards[i] = SystemShards[j] => i = j
ASSUME FiniteAssumption == IsFiniteSet(ShardId) /\ IsFiniteSet(Name)
ASSUME BoundAssumption == MAX_DELTAS \in Nat /\ MaxSeq \in Nat /\ MaxId \in Nat

VARIABLES disk, root, rec, plan, todo, back, pc,
    sess,       \* the session's catalog: [mem, nextId]
    saved,      \* the state commit_catalog_mutation restores on an error
    op,         \* the command being executed, or NoOp
    renamed     \* the names top-level directories were renamed to, so far

cvars == <<disk, root, rec, plan, todo, back, pc>>
vars == <<cvars, sess, saved, op, renamed>>

Eager == {SystemShards[i] : i \in DOMAIN SystemShards}

Snapshot(s, n) == <<"snapshot", s, n>>
Delta(s, n) == <<"delta", s, n>>

Chunk == {Snapshot(s, n) : s \in ShardId, n \in 0..MaxSeq}
         \cup {Delta(s, n) : s \in ShardId, n \in 0..MaxSeq}

Node == [id : Nat, tag : Tag]
Shard == [id : Nat, kids : [Name -> Node \cup {NoNode}]]

DeltaEntry ==
    [kind : {"create", "update", "delete", "move"}, name : Name, to : Name, node : Node]

ShardMeta == [version : 0..MaxSeq, base : 0..MaxSeq, last : 0..MaxSeq,
              seq : 0..MaxSeq, has : BOOLEAN, count : 0..MaxSeq]

RootIndex == [ShardId -> ShardMeta \cup {NoMeta}]

NewMeta == [version |-> 0, base |-> 0, last |-> 0, seq |-> 0, has |-> FALSE, count |-> 0]

\* A vault without a root index and one whose root index has no shard load alike.
NoRoot == [s \in ShardId |-> NoMeta]

chunks_for_meta(s, m) ==
    {Snapshot(s, m.seq)}
    \cup IF m.has THEN {Delta(s, n) : n \in (m.base + 1)..m.last} ELSE {}

Refs(r) == UNION {chunks_for_meta(s, r[s]) : s \in {t \in ShardId : r[t] # NoMeta}}

C == INSTANCE CatalogCommit
    WITH Val <- Shard \cup DeltaEntry, Root <- RootIndex

\* What a command carries: its kind, the deltas it recorded, the shards it
\* changes, the root index a compaction has read, and what its plan found.
Operation ==
    [kind : {"save", "compact"}, pend : [ShardId -> {q \in Seq(DeltaEntry) : Len(q) <= 1}],
     touched : SUBSET ShardId, root : RootIndex, first : SUBSET Chunk, refused : BOOLEAN]

ASSUME ContentAssumption ==
    /\ Absent \notin Shard \cup DeltaEntry
    /\ NoNode \notin Node /\ NoShard \notin Shard /\ Failure \notin Shard \cup {NoShard}
ASSUME NoneAssumption ==
    /\ NoMeta \notin [version : Nat, base : Nat, last : Nat, seq : Nat, has : BOOLEAN, count : Nat]
    /\ NoOp \notin Operation
    /\ NoRec \notin C!Record /\ NoPlan \notin C!Plan

NoKids == [n \in Name |-> NoNode]
NoCatalog == [s \in ShardId |-> NoShard]

Ids(sh) == {sh.id} \cup {sh.kids[n].id : n \in {k \in Name : sh.kids[k] # NoNode}}
AllIds(m) == UNION {Ids(m[s]) : s \in {t \in ShardId : m[t] # NoShard}}
\* Mutant: ids are counted.
max_catalog_node_idCounts(m) == Cardinality(AllIds(m))


max_catalog_node_id(m) == Max(AllIds(m) \cup {0})

(***************************************************************************)
(* Replaying deltas.                                                        *)
(***************************************************************************)
apply_delta(sh, d) ==
    LET here == sh.kids[d.name]
        put(n, v) == [sh EXCEPT !.kids[n] = v]
    IN IF sh = Failure THEN Failure ELSE
       CASE d.kind = "create" ->
              IF here # NoNode
              THEN IF here.id = d.node.id THEN sh ELSE Failure
              ELSE IF \E n \in Name : sh.kids[n] # NoNode /\ sh.kids[n].id = d.node.id
                   THEN Failure
                   ELSE put(d.name, d.node)
         [] d.kind = "update" ->
              IF here = NoNode \/ here.id # d.node.id THEN Failure ELSE put(d.name, d.node)
         [] d.kind = "delete" ->
              IF here # NoNode
              THEN IF here.id = d.node.id THEN put(d.name, NoNode) ELSE Failure
              ELSE IF d.node.id \in Ids(sh) THEN Failure ELSE sh
         [] d.kind = "move" ->
              IF here # NoNode
              THEN IF here.id = d.node.id /\ sh.kids[d.to] = NoNode
                   THEN [put(d.name, NoNode) EXCEPT !.kids[d.to] = here]
                   ELSE Failure
              ELSE IF sh.kids[d.to] # NoNode /\ sh.kids[d.to].id = d.node.id
                   THEN sh ELSE Failure

apply_deltas(sh, ds) ==
    LET after[i \in 0..Len(ds)] == IF i = 0 THEN sh ELSE apply_delta(after[i - 1], ds[i])
    IN after[Len(ds)]

\* The shard a meta refers to: its snapshot with its delta log replayed.
load_full_shard_from_meta(d, s, m) ==
    LET log == IF m.has THEN [i \in 1..(m.last - m.base) |-> d[Delta(s, m.base + i)]]
               ELSE << >>
    IN IF \E c \in chunks_for_meta(s, m) : d[c] = Absent
       THEN Failure
       ELSE apply_deltas(d[Snapshot(s, m.seq)], log)

try_load_sharded_catalog(d, r) ==
    [s \in ShardId |->
        IF r[s] = NoMeta THEN NoShard
        ELSE IF r[s].has /\ r[s].last - r[s].base > MAX_DELTAS THEN Failure
        ELSE load_full_shard_from_meta(d, s, r[s])]

(***************************************************************************)
(* CatalogSaveService::save, from the root index on disk, the catalog m in  *)
(* memory and its pending deltas.                                           *)
(***************************************************************************)
\* The system shards the catalog does not have, up to s, which get the next ids in turn.
MissingUpTo(m, s) ==
    {i \in DOMAIN SystemShards :
        m[SystemShards[i]] = NoShard /\ \E j \in DOMAIN SystemShards : i <= j /\ SystemShards[j] = s}

\* A system shard the catalog does not have is persisted as an empty directory.
persistence_shards(m) ==
    [s \in ShardId |->
        IF m[s] = NoShard /\ s \in Eager
        THEN [id |-> max_catalog_node_id(m) + Cardinality(MissingUpTo(m, s)), kids |-> NoKids]
        ELSE m[s]]

Present(f) == {s \in ShardId : f[s] # NoShard}

MetaOf(s) == IF root[s] = NoMeta THEN NewMeta ELSE root[s]
OldChunks(s) == IF root[s] = NoMeta THEN {} ELSE chunks_for_meta(s, root[s])
\* Mutant: the snapshot is written over the one in use.
NextSnapshotReused(s) == IF root[s] = NoMeta THEN 0 ELSE root[s].seq


NextSnapshot(s) == IF root[s] = NoMeta THEN 0 ELSE root[s].seq + 1

SnapshotOnDisk(s) == disk[Snapshot(s, MetaOf(s).seq)]

\* Mutant: whatever snapshot is found is kept.
shard_snapshot_needs_rewriteNever(s, sh) == FALSE

\* The snapshot the shard would keep is for another root node.
shard_snapshot_needs_rewrite(s, sh) ==
    SnapshotOnDisk(s) # Absent /\ SnapshotOnDisk(s).id # sh.id

NeedsWrite(s, sh) == SnapshotOnDisk(s) = Absent \/ shard_snapshot_needs_rewrite(s, sh)

\* Mutant: the delta log is not cleared.
SnapshotMetaKeepsLog(s, version) ==
    [MetaOf(s) EXCEPT !.version = version, !.seq = NextSnapshot(s)]


SnapshotMeta(s, version) ==
    [version |-> version, base |-> version, last |-> version,
     seq |-> NextSnapshot(s), has |-> FALSE, count |-> 0]

\* Mutant: one delta too many.
pending_delta_chain_exceeds_limit(m, n) ==
    Max({m.count, IF m.has THEN m.last - m.base ELSE 0}) + n > MAX_DELTAS


pending_delta_chain_reaches_limit(m, n) ==
    Max({m.count, IF m.has THEN m.last - m.base ELSE 0}) + n >= MAX_DELTAS

Replayed(s) == load_full_shard_from_meta(disk, s, MetaOf(s))

has_existing_node_mutation_delta(ds) == \E i \in DOMAIN ds : ds[i].kind # "create"

catalog_node_ids_unique(sh) ==
    \A n, k \in {j \in Name : sh.kids[j] # NoNode} :
        sh.kids[n].id # sh.id /\ (sh.kids[n].id = sh.kids[k].id => n = k)

catalog_preserves_existing_nodes(old, new) ==
    /\ old.id = new.id
    /\ \A n \in Name : old.kids[n] # NoNode => new.kids[n] = old.kids[n]

\* What the save does for a shard: it keeps it, writes its deltas, falls back
\* to a snapshot, rewrites it because its root node changed, or gives up.
Decision(s, sh, ds) ==
    LET replayed == apply_deltas(Replayed(s), ds)
    IN IF NeedsWrite(s, sh) THEN "rewrite"
       ELSE IF ds = << >> THEN "keep"
       ELSE IF pending_delta_chain_reaches_limit(MetaOf(s), Len(ds)) THEN "fallback"
       ELSE IF Replayed(s) = Failure THEN "refuse"
       ELSE IF replayed = sh THEN "deltas"
       ELSE IF /\ catalog_node_ids_unique(sh)
               /\ \/ has_existing_node_mutation_delta(ds)
                  \/ catalog_preserves_existing_nodes(Replayed(s), sh)
            THEN "fallback"
            ELSE "refuse"

\* Mutant: the last delta is left out of the log.
MetaForOffByOne(s, sh, ds, decision) ==
    LET m == MetaOf(s)
        n == Len(ds)
    IN CASE decision = "deltas" ->
              [m EXCEPT !.version = @ + n, !.last = m.version + n - 1, !.has = TRUE, !.count = @ + n]
         [] decision = "fallback" -> SnapshotMeta(s, m.version + n)
         [] decision = "rewrite" -> SnapshotMeta(s, m.version)
         [] OTHER -> m

\* The meta a shard gets: record_delta for each delta, clear_deltas with a
\* new snapshot.
MetaFor(s, sh, ds, decision) ==
    LET m == MetaOf(s)
        n == Len(ds)
    IN CASE decision = "deltas" ->
              [m EXCEPT !.version = @ + n, !.last = m.version + n, !.has = TRUE, !.count = @ + n]
         [] decision = "fallback" -> SnapshotMeta(s, m.version + n)
         [] decision = "rewrite" ->
              SnapshotMeta(s, m.version + IF shard_snapshot_needs_rewrite(s, sh) THEN 1 ELSE 0)
         [] OTHER -> m

\* The whole save.  A refusal comes after the rewritten snapshots are on disk.
SavePlan(m, pend) ==
    LET shards == persistence_shards(m)
        here == Present(shards)
        does == [s \in here |-> Decision(s, shards[s], pend[s])]
        refused == \E s \in here : does[s] = "refuse"
        writes(s) == does[s] = "rewrite" \/ (does[s] = "fallback" /\ ~refused)
        meta == [s \in ShardId |->
                   IF s \in here THEN MetaFor(s, shards[s], pend[s], does[s]) ELSE NoMeta]
        content(c) ==
            LET s == c[2]
            IN IF s \notin here THEN Absent
               ELSE IF c[1] = "snapshot"
               THEN IF writes(s) /\ c[3] = meta[s].seq THEN shards[s] ELSE Absent
               ELSE IF does[s] = "deltas" /\ ~refused /\ c[3] \in (MetaOf(s).version + 1)..meta[s].version
               THEN pend[s][c[3] - MetaOf(s).version] ELSE Absent
    IN [plan |-> [val |-> [c \in Chunk |-> content(c)],
                  old |-> UNION {OldChunks(s) : s \in
                             {t \in ShardId : t \notin here \/ does[t] \in {"rewrite", "fallback"}}},
                  root |-> meta, staged |-> TRUE],
        first |-> {Snapshot(s, meta[s].seq) : s \in {t \in here : does[t] = "rewrite"}},
        refused |-> refused]

\* Mutant: the deltas are dropped and not replayed.
CompactPlanDropsDeltas(s, r) ==
    LET v == r[s].version
        snapshot == disk[Snapshot(s, r[s].seq)]
        meta == [version |-> v, base |-> v, last |-> v, seq |-> r[s].seq + 1,
                 has |-> FALSE, count |-> 0]
    IN [plan |-> [val |-> [c \in Chunk |-> IF c = Snapshot(s, meta.seq) THEN snapshot ELSE Absent],
                  old |-> chunks_for_meta(s, r[s]),
                  root |-> [r EXCEPT ![s] = meta], staged |-> TRUE],
        first |-> {},
        refused |-> snapshot = Absent]

\* prepare_shard_compaction, from the root index r its caller has read.
CompactPlan(s, r) ==
    LET v == r[s].version
        snapshot == load_full_shard_from_meta(disk, s, r[s])
        meta == [version |-> v, base |-> v, last |-> v, seq |-> r[s].seq + 1,
                 has |-> FALSE, count |-> 0]
    IN [plan |-> [val |-> [c \in Chunk |-> IF c = Snapshot(s, meta.seq) THEN snapshot ELSE Absent],
                  old |-> chunks_for_meta(s, r[s]),
                  root |-> [r EXCEPT ![s] = meta], staged |-> TRUE],
        first |-> {},
        refused |-> snapshot = Failure]

(***************************************************************************)
(* Commands.  Each is run by the router to its end before the next begins.  *)
(***************************************************************************)
Keep == UNCHANGED <<sess, saved, op, renamed>>

NoPend == [s \in ShardId |-> << >>]

\* commit_catalog_mutation: remember the state, mutate the catalog, save it.
Mutate(m, nextId, pend, touched) ==
    /\ C!StartSave
    /\ saved' = sess
    /\ sess' = [mem |-> m, nextId |-> nextId]
    /\ op' = [kind |-> "save", pend |-> pend, touched |-> touched, root |-> NoRoot,
              first |-> {}, refused |-> FALSE]

DeltaOn(s, kind, n, to, node) ==
    [NoPend EXCEPT ![s] = <<[kind |-> kind, name |-> n, to |-> to, node |-> node]>>]

Create(s, n) ==
    /\ "create" \in Ops
    /\ sess.mem[s] # NoShard /\ sess.mem[s].kids[n] = NoNode
    /\ sess.nextId <= MaxId
    /\ \E t \in Tag :
         LET node == [id |-> sess.nextId, tag |-> t]
         IN Mutate([sess.mem EXCEPT ![s].kids[n] = node], sess.nextId + 1,
                   DeltaOn(s, "create", n, n, node), {s})

Update(s, n) ==
    /\ "update" \in Ops
    /\ sess.mem[s] # NoShard /\ sess.mem[s].kids[n] # NoNode
    /\ \E t \in Tag \ {sess.mem[s].kids[n].tag} :
         LET node == [sess.mem[s].kids[n] EXCEPT !.tag = t]
         IN Mutate([sess.mem EXCEPT ![s].kids[n] = node], sess.nextId,
                   DeltaOn(s, "update", n, n, node), {s})


Delete(s, n) ==
    /\ "delete" \in Ops
    /\ sess.mem[s] # NoShard /\ sess.mem[s].kids[n] # NoNode
    /\ Mutate([sess.mem EXCEPT ![s].kids[n] = NoNode], sess.nextId,
              DeltaOn(s, "delete", n, n, sess.mem[s].kids[n]), {s})

Rename(s, n, to) ==
    /\ "rename" \in Ops
    /\ sess.mem[s] # NoShard /\ sess.mem[s].kids[n] # NoNode /\ sess.mem[s].kids[to] = NoNode
    /\ LET node == sess.mem[s].kids[n]
       IN Mutate([sess.mem EXCEPT ![s].kids[n] = NoNode, ![s].kids[to] = node], sess.nextId,
                 DeltaOn(s, "move", n, to, node), {s})

\* The commands on a top-level directory record no delta: the save sees the
\* difference between the shards in memory and those of the root index.
CreateTop(s) ==
    /\ "createTop" \in Ops
    /\ s \notin Eager /\ sess.mem[s] = NoShard /\ sess.nextId <= MaxId
    /\ Mutate([sess.mem EXCEPT ![s] = [id |-> sess.nextId, kids |-> NoKids]],
              sess.nextId + 1, NoPend, {s})

DeleteTop(s) ==
    /\ "deleteTop" \in Ops
    /\ s \notin Eager /\ sess.mem[s] # NoShard
    /\ Mutate([sess.mem EXCEPT ![s] = NoShard], sess.nextId, NoPend, {s})

\* Only the directory is asked whether it is a system one, not its new name.
RenameTop(s, t) ==
    /\ "renameTop" \in Ops
    /\ s \notin Eager /\ sess.mem[s] # NoShard /\ sess.mem[t] = NoShard
    /\ Mutate([sess.mem EXCEPT ![s] = NoShard, ![t] = sess.mem[s]], sess.nextId,
              NoPend, {s, t})
    /\ renamed' = renamed \cup {t}

\* shard:compact reads the root index first and recovers afterwards.
Compact(s) ==
    /\ "compact" \in Ops
    /\ root[s] # NoMeta /\ root[s].has
    /\ C!StartSave
    /\ saved' = sess /\ UNCHANGED sess
    /\ op' = [kind |-> "compact", pend |-> NoPend, touched |-> {s}, root |-> root,
              first |-> {}, refused |-> FALSE]

Command ==
    \E s \in ShardId :
        \/ /\ \/ \E n \in Name : Create(s, n) \/ Update(s, n) \/ Delete(s, n)
              \/ \E n, to \in Name : Rename(s, n, to)
              \/ CreateTop(s) \/ DeleteTop(s) \/ Compact(s)
           /\ UNCHANGED renamed
        \/ \E t \in ShardId : RenameTop(s, t)

(***************************************************************************)
(* The steps of CatalogCommit, with the session around them.                *)
(***************************************************************************)
Closed ==
    /\ sess' = [mem |-> NoCatalog, nextId |-> 1] /\ saved' = sess' /\ op' = NoOp
    /\ UNCHANGED renamed

\* The command reports an error and its mutation is taken back.
Rollback ==
    IF back = "load" THEN Closed
    ELSE sess' = saved /\ saved' = saved /\ op' = NoOp /\ UNCHANGED renamed

StartUnlock == C!StartUnlock /\ Keep

ReadRecord == C!ReadRecord /\ Keep

Load ==
    LET loaded == try_load_sharded_catalog(disk, root)
    IN /\ \A s \in ShardId : loaded[s] # Failure
       /\ C!Loaded
       /\ sess' = [mem |-> loaded, nextId |-> max_catalog_node_id(loaded) + 1]
       /\ saved' = sess'
       /\ UNCHANGED <<op, renamed>>

WithinBounds(p) ==
    \A s \in ShardId : p.root[s] # NoMeta => p.root[s].version <= MaxSeq /\ p.root[s].seq <= MaxSeq

BeginSave ==
    LET q == IF op.kind = "save" THEN SavePlan(sess.mem, op.pend)
             ELSE CompactPlan(CHOOSE s \in op.touched : TRUE, op.root)
    IN /\ pc = "plan"
       /\ WithinBounds(q.plan)
       /\ op.kind = "compact" => ~q.refused
       /\ C!Begin(q.plan)
       /\ op' = [op EXCEPT !.first = q.first, !.refused = q.refused]
       /\ UNCHANGED <<sess, saved, renamed>>

\* Rewritten snapshots are written before everything else, deltas in order.
InOrder(c) ==
    \A d \in todo : /\ d \in op.first => c \in op.first
                    /\ d[1] = "delta" /\ d[2] = c[2] /\ c[1] = "delta" => c[3] <= d[3]

WriteChunk(ok) == pc = "write" /\ \E c \in todo : InOrder(c) /\ C!WriteChunk(c, ok)

CommitStep(ok) ==
    /\ ~op.refused
    /\ \/ C!WriteStaging(ok) \/ C!WriteCommitting(ok) \/ C!WriteRoot(ok)
       \/ C!DeleteRecord(ok) \/ \E c \in Chunk : C!DeleteOld(c, ok)

RecoveryStep(ok) ==
    \/ \E c \in Chunk : C!Undo(c, ok) \/ C!RedoOld(c, ok)
    \/ C!Redo(ok) \/ C!Forget(ok)

Done == C!Finish(TRUE) /\ saved' = sess /\ op' = NoOp /\ UNCHANGED <<sess, renamed>>

\* ensure_snapshot_fallback_preserves_existing_nodes, or an unreadable shard.
Refuse ==
    /\ \/ pc = "write" /\ todo = {} /\ op.refused
       \/ /\ pc = "plan" /\ op.kind = "compact"
          /\ CompactPlan(CHOOSE s \in op.touched : TRUE, op.root).refused
    /\ C!Fail /\ Rollback

IoError ==
    /\ IoErrors
    /\ \/ WriteChunk(FALSE) \/ (op # NoOp /\ CommitStep(FALSE)) \/ RecoveryStep(FALSE)
       \/ C!Finish(FALSE) \/ C!Fail
    /\ Rollback

Crash == C!Crash /\ Closed

Gc == "gc" \in Ops /\ (\E c \in Chunk : C!GcDelete(c)) /\ Keep

Init ==
    /\ \E f \in [Preset -> 1..Cardinality(Preset)] :
         /\ \A s, t \in Preset : f[s] = f[t] => s = t
         /\ disk = [c \in Chunk |-> IF c[1] = "snapshot" /\ c[3] = 0 /\ c[2] \in Preset
                                    THEN [id |-> f[c[2]], kids |-> NoKids] ELSE Absent]
    /\ root = [s \in ShardId |-> IF s \in Preset THEN NewMeta ELSE NoMeta]
    /\ rec = NoRec /\ plan = NoPlan /\ todo = {} /\ back = "load" /\ pc = "locked"
    /\ sess = [mem |-> NoCatalog, nextId |-> 1] /\ saved = sess /\ op = NoOp
    /\ renamed = {}

Next ==
    \/ StartUnlock \/ ReadRecord \/ Load \/ Command \/ BeginSave
    \/ (WriteChunk(TRUE) /\ Keep)
    \/ (op # NoOp /\ CommitStep(TRUE) /\ Keep)
    \/ (RecoveryStep(TRUE) /\ Keep)
    \/ Done \/ Refuse \/ IoError \/ Crash \/ Gc

Spec == Init /\ [][Next]_vars

(***************************************************************************)
(* Properties.                                                              *)
(***************************************************************************)
Contents ==
    {d \in [Chunk -> Shard \cup DeltaEntry \cup {Absent}] :
        \A s \in ShardId, n \in 0..MaxSeq :
            d[Snapshot(s, n)] \in Shard \cup {Absent} /\ d[Delta(s, n)] \in DeltaEntry \cup {Absent}}

Session == [mem : [ShardId -> Shard \cup {NoShard}], nextId : Nat]

\* Every variable stays in its domain.
TypeOK ==
    /\ disk \in Contents /\ root \in RootIndex /\ rec \in C!Record \cup {NoRec}
    /\ plan \in C!Plan \cup {NoPlan} /\ (plan # NoPlan => plan.val \in Contents)
    /\ todo \subseteq Chunk /\ back \in {"load", "plan"}
    /\ pc \in C!Busy \cup {"locked", "load", "idle"}
    /\ sess \in Session /\ saved \in Session
    /\ op \in Operation \cup {NoOp} /\ renamed \subseteq ShardId

\* At every moment an unlock can load the catalog: no chunk the root index
\* refers to is missing and every delta log replays, whatever orphaned chunks
\* earlier crashes and errors left under the names that are used again.
CatalogLoads ==
    LET loaded == try_load_sharded_catalog(disk, root)
    IN \A s \in ShardId : loaded[s] # Failure

LoadsAsInMemory(shards) ==
    \A s \in shards :
        try_load_sharded_catalog(disk, root)[s] = persistence_shards(sess.mem)[s]

\* Once a save can only succeed, an unlock gives back exactly the shards its
\* command changed: "command success means durable catalog persistence".  A
\* name some top-level directory was renamed to is left to RenameIsDurable.
SuccessMeansDurable ==
    pc = "dropOld" /\ op.kind = "save" => LoadsAsInMemory(op.touched \ renamed)

\* The same for a name some top-level directory was renamed to.  The code does
\* not keep it: a snapshot an interrupted rename left under that name is taken
\* for the shard when its root node id is the same, for only ids are compared.
RenameIsDurable ==
    pc = "dropOld" /\ op.kind = "save" => LoadsAsInMemory(op.touched \cap renamed)

\* The delta log of a shard never grows to the limit beyond which an unlock
\* refuses to read it, and the three ways a meta describes it agree.
DeltaLogBounded ==
    \A s \in ShardId : root[s] # NoMeta =>
        /\ root[s].has => root[s].last - root[s].base \in 1..(MAX_DELTAS - 1)
        /\ root[s].count = root[s].last - root[s].base
        /\ root[s].version = root[s].last

\* A save over a fixed set of shards asks the commit protocol only for what
\* the protocol is safe for: it never writes under a name in use.
PlanSafe == pc \in {"write", "mark"} /\ ~op.refused => C!PlanOK(plan)

\* A node id names one node of the durable catalog (but for the directories
\* of RenameIsDurable, whose stale content brings its old ids with it).
NodeIdsUnique ==
    LET loaded == try_load_sharded_catalog(disk, root)
        here == {s \in ShardId \ renamed : loaded[s] \notin {NoShard, Failure}}
    IN \A s, t \in here :
          /\ s # t => Ids(loaded[s]) \cap Ids(loaded[t]) = {}
          /\ catalog_node_ids_unique(loaded[s])

\* Compacting a shard changes nothing an unlock would load.
CompactionPreserves ==
    [][pc = "swap" /\ op.kind = "compact" =>
         try_load_sharded_catalog(disk, root)' = try_load_sharded_catalog(disk, root)]_vars
=============================================================================
