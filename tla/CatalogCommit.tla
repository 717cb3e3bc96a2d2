--------------------------- MODULE CatalogCommit ---------------------------
(***************************************************************************)
(* The durable commit of the sharded catalog (vault/catalog_persistence     *)
(* and durable_tx): new chunks are written under names the root index does  *)
(* not refer to yet, a commit record is written as Staging and again as     *)
(* Committing, the root index is replaced, the record is removed and the    *)
(* superseded chunks are deleted.  An unlock, and every save, first         *)
(* finishes or undoes whatever an earlier commit left behind.               *)
(*                                                                         *)
(* Every storage call is a step.  Between two steps the process may crash;  *)
(* a call may report an error without having acted (Fail) or after having   *)
(* acted (ok = FALSE: the rename happened and the fsync of the directory    *)
(* failed), and then the operation returns the error to its caller at once. *)
(*                                                                         *)
(* What a save writes and what a root index refers to are parameters:       *)
(* module CatalogSave supplies the ones of the sharded catalog.             *)
(***************************************************************************)
CONSTANTS
    Chunk,      \* names of snapshot and delta chunks
    Val,        \* contents of a chunk
    Absent,     \* "no file of that name"
    Root,       \* values of the root index
    NoRoot,     \* the root index of a vault never saved
    Refs(_),    \* the chunks a root index refers to
    NoRec,      \* "no commit record on disk"
    NoPlan      \* "no save in progress"

ASSUME AbsentAssumption == Absent \notin Val
ASSUME RootAssumption == NoRoot \in Root /\ Refs(NoRoot) = {}
ASSUME RefsAssumption == \A r \in Root : Refs(r) \subseteq Chunk

VARIABLES
    disk,       \* chunk name -> content or Absent
    root,       \* the root index chunk
    rec,        \* the commit record chunk, or NoRec
    plan,       \* what the running save wants to commit, or NoPlan
    todo,       \* chunks the running loop has not yet written or deleted
    back,       \* where recovery returns: "load" (an unlock) or "plan" (a save)
    pc

store == <<disk, root, rec>>
vars == <<disk, root, rec, plan, todo, back, pc>>

Phases == {"Staging", "Committing"}

Record == [phase : Phases, new : SUBSET Chunk, old : SUBSET Chunk, root : Root]

Plan == [val : [Chunk -> Val \cup {Absent}], old : SUBSET Chunk,
         root : Root, staged : BOOLEAN]

ASSUME NoRecAssumption == NoRec \notin Record
ASSUME NoPlanAssumption ==
    /\ NoPlan \notin Plan
    /\ \A r \in Root : NoPlan \notin [Refs(r) -> Val]

Saving == {"write", "mark", "swap", "unmark", "dropOld"}
Recovering == {"recover", "undo", "redo", "redoOld"}
Busy == Saving \cup Recovering \cup {"plan"}

\* The chunks a plan writes.
New(p) == {c \in Chunk : p.val[c] # Absent}

RecordOf(p, phase) ==
    [phase |-> phase, new |-> New(p), old |-> p.old, root |-> p.root]

all_chunks_exist(cs) == \A c \in cs : disk[c] # Absent

\* What an unlock loads: the contents of the chunks the root index refers to.
Content(d, r) == [c \in Refs(r) |-> d[c]]

Durable == Content(disk, root)

\* A failed call returns to the caller: a failed unlock opens no session, any
\* other failed operation leaves the session open.
Abort == IF back = "load" THEN "locked" ELSE "idle"

Goto(ok, next, rest) ==
    /\ pc' = IF ok THEN next ELSE Abort
    /\ plan' = IF ok /\ next # "idle" THEN plan ELSE NoPlan
    /\ todo' = IF ok THEN rest ELSE {}
    /\ UNCHANGED back

write_chunk(c, v) == disk' = [disk EXCEPT ![c] = v] /\ UNCHANGED <<root, rec>>
delete_chunk(c) == disk' = [disk EXCEPT ![c] = Absent] /\ UNCHANGED <<root, rec>>
write_root_index(r) == root' = r /\ UNCHANGED <<disk, rec>>
write_commit_record(r) == rec' = r /\ UNCHANGED <<disk, root>>
\* Mutant: the record is blanked and not removed.
delete_commit_recordBlanks == rec' = Absent /\ UNCHANGED <<disk, root>>


delete_commit_record == rec' = NoRec /\ UNCHANGED <<disk, root>>

(***************************************************************************)
(* recover_incomplete_commit, on the way into an unlock or a save.          *)
(***************************************************************************)
StartUnlock ==
    /\ pc = "locked"
    /\ pc' = "recover" /\ back' = "load"
    /\ UNCHANGED <<store, plan, todo>>

StartSave ==
    /\ pc = "idle"
    /\ pc' = "recover" /\ back' = "plan"
    /\ UNCHANGED <<store, plan, todo>>

\* Mutant: a Committing record is redone without looking for its chunks.
ReadRecordUnchecked ==
    /\ pc = "recover"
    /\ IF rec = NoRec
       THEN pc' = back /\ UNCHANGED todo
       ELSE IF rec.phase = "Committing"
            THEN pc' = "redo" /\ todo' = {}
            ELSE pc' = "undo" /\ todo' = rec.new
    /\ UNCHANGED <<store, plan, back>>

\* Mutant: a record is redone whatever its phase.
ReadRecordAnyPhase ==
    /\ pc = "recover"
    /\ IF rec = NoRec
       THEN pc' = back /\ UNCHANGED todo
       ELSE IF all_chunks_exist(rec.new)
            THEN pc' = "redo" /\ todo' = {}
            ELSE pc' = "undo" /\ todo' = rec.new
    /\ UNCHANGED <<store, plan, back>>

\* The record decides: none, nothing to do; Staging, the new chunks go;
\* Committing, the commit is redone if all its chunks are there.
ReadRecord ==
    /\ pc = "recover"
    /\ IF rec = NoRec
       THEN pc' = back /\ UNCHANGED todo
       ELSE IF rec.phase = "Committing" /\ all_chunks_exist(rec.new)
            THEN pc' = "redo" /\ todo' = {}
            ELSE pc' = "undo" /\ todo' = rec.new
    /\ UNCHANGED <<store, plan, back>>

Undo(c, ok) ==
    /\ pc = "undo" /\ c \in todo
    /\ delete_chunk(c)
    /\ Goto(ok, "undo", todo \ {c})

Redo(ok) ==
    /\ pc = "redo"
    /\ write_root_index(rec.root)
    /\ Goto(ok, "redoOld", rec.old)

\* Mutant: the delete of a chunk that is already gone is tried again.
RedoOldRetries(c, ok) ==
    /\ pc = "redoOld" /\ c \in todo
    /\ delete_chunk(c)
    /\ Goto(ok, "redoOld", IF disk[c] = Absent THEN todo ELSE todo \ {c})


RedoOld(c, ok) ==
    /\ pc = "redoOld" /\ c \in todo
    /\ delete_chunk(c)
    /\ Goto(ok, "redoOld", todo \ {c})

Forget(ok) ==
    /\ pc \in {"undo", "redoOld"} /\ todo = {}
    /\ delete_commit_record
    /\ Goto(ok, back, {})

\* The unlock has loaded the catalog and the session is open.
Loaded ==
    /\ pc = "load"
    /\ pc' = "idle"
    /\ UNCHANGED <<store, plan, todo, back>>

(***************************************************************************)
(* A save: the chunks, then commit_root_index_update.  The rewrite that an   *)
(* unlock may run after loading (rewrite_sharded_catalog_from_catalog) goes  *)
(* straight to the Committing record.                                       *)
(***************************************************************************)
Begin(p) ==
    /\ pc = "plan" \/ (pc = "load" /\ ~p.staged)
    /\ p.staged <=> pc = "plan"
    /\ plan' = p
    /\ todo' = New(p)
    /\ pc' = "write"
    /\ UNCHANGED <<store, back>>

WriteChunk(c, ok) ==
    /\ pc = "write" /\ c \in todo
    /\ write_chunk(c, plan.val[c])
    /\ Goto(ok, "write", todo \ {c})

\* Mutant: the record is written before the last chunk.
WriteStagingEarly(ok) ==
    /\ pc = "write" /\ plan.staged
    /\ write_commit_record(RecordOf(plan, "Staging"))
    /\ Goto(ok, "mark", {})


WriteStaging(ok) ==
    /\ pc = "write" /\ todo = {} /\ plan.staged
    /\ write_commit_record(RecordOf(plan, "Staging"))
    /\ Goto(ok, "mark", {})

WriteCommitting(ok) ==
    /\ \/ pc = "mark"
       \/ pc = "write" /\ todo = {} /\ ~plan.staged
    /\ write_commit_record(RecordOf(plan, "Committing"))
    /\ Goto(ok, "swap", {})

WriteRoot(ok) ==
    /\ pc = "swap"
    /\ write_root_index(plan.root)
    /\ Goto(ok, "unmark", {})

DeleteRecord(ok) ==
    /\ pc = "unmark"
    /\ delete_commit_record
    /\ Goto(ok, "dropOld", plan.old)

DeleteOld(c, ok) ==
    /\ pc = "dropOld" /\ c \in todo
    /\ delete_chunk(c)
    /\ Goto(ok, "dropOld", todo \ {c})

\* The last sync; the caller learns that the save succeeded.
Finish(ok) ==
    /\ pc = "dropOld" /\ todo = {}
    /\ Goto(ok, "idle", {})
    /\ UNCHANGED store

(***************************************************************************)
(* Everything that can get in between.                                      *)
(***************************************************************************)
\* A call fails without having acted, or a save is refused while planning.
Fail ==
    /\ pc \in Busy
    /\ Goto(FALSE, pc, {})
    /\ UNCHANGED store

\* The process dies, or the vault is locked: only the storage survives.
Crash ==
    /\ pc # "locked"
    /\ pc' = "locked" /\ plan' = NoPlan /\ todo' = {} /\ back' = "load"
    /\ UNCHANGED store

\* admin:storage:gc deletes a chunk outside its live set, in which only the
\* chunks of the root index appear: those of an unfinished commit do not.
GcDelete(c) ==
    /\ pc = "idle"
    /\ disk[c] # Absent /\ c \notin Refs(root)
    /\ delete_chunk(c)
    /\ UNCHANGED <<plan, todo, back, pc>>

Progress(ok) ==
    \/ \E c \in Chunk : \/ Undo(c, ok) \/ RedoOld(c, ok)
                        \/ WriteChunk(c, ok) \/ DeleteOld(c, ok)
    \/ Redo(ok) \/ Forget(ok)
    \/ WriteStaging(ok) \/ WriteCommitting(ok) \/ WriteRoot(ok)
    \/ DeleteRecord(ok) \/ Finish(ok)

(***************************************************************************)
(* What a save must respect for the protocol to be safe: it writes over no  *)
(* chunk the root index refers to and writes nothing it will not refer to,  *)
(* it supersedes nothing the new root index refers to, and what the new     *)
(* root index refers to was either referred to before or is being written.  *)
(***************************************************************************)
PlanOK(p) ==
    /\ New(p) \cap Refs(root) = {}
    /\ New(p) \subseteq Refs(p.root)
    /\ p.old \cap Refs(p.root) = {}
    /\ Refs(p.root) \subseteq Refs(root) \cup New(p)

Init ==
    /\ disk = [c \in Chunk |-> Absent]
    /\ root = NoRoot /\ rec = NoRec
    /\ plan = NoPlan /\ todo = {} /\ back = "load" /\ pc = "locked"

Next ==
    \/ StartUnlock \/ StartSave \/ ReadRecord \/ Loaded
    \/ \E p \in Plan : PlanOK(p) /\ Begin(p)
    \/ \E ok \in BOOLEAN : Progress(ok)
    \/ Fail \/ Crash
    \/ \E c \in Chunk : GcDelete(c)

Spec == Init /\ [][Next]_vars

(***************************************************************************)
(* Properties.                                                              *)
(***************************************************************************)
\* Every variable stays in its domain.
TypeOK ==
    /\ disk \in [Chunk -> Val \cup {Absent}]
    /\ root \in Root
    /\ rec \in Record \cup {NoRec}
    /\ plan \in Plan \cup {NoPlan}
    /\ todo \in SUBSET Chunk
    /\ back \in {"load", "plan"}
    /\ pc \in Busy \cup {"locked", "load", "idle"}

\* Whatever crash, error, recovery or garbage collection came before, every
\* chunk the root index refers to is on disk: try_load_sharded_catalog, which
\* treats a missing one as corruption, can always load the catalog.
Loadable == all_chunks_exist(Refs(root))

\* When a save is about to report success, the root index it asked for is the
\* one on disk and refers to the contents it wrote.
SavedInPlace ==
    pc = "dropOld" =>
        root = plan.root /\ \A c \in New(plan) : disk[c] = plan.val[c]

\* The catalog that a save whose outcome is undecided may still produce: it is
\* being written, or its Committing record awaits recovery with every chunk.
Undecided ==
    /\ rec # NoRec
    /\ rec.phase = "Committing" /\ rec.root # root /\ all_chunks_exist(rec.new)

Pending ==
    IF pc \in {"write", "mark"}
    THEN [c \in Refs(plan.root) |->
             IF c \in New(plan) THEN plan.val[c] ELSE disk[c]]
    ELSE IF Undecided THEN Content(disk, rec.root) ELSE NoPlan

Abstract == INSTANCE AtomicCatalog
    WITH Catalog <- UNION {[Refs(r) -> Val] : r \in Root},
         Empty <- [c \in {} |-> Absent], None <- NoPlan,
         durable <- Durable, pending <- Pending

\* The commit of a catalog is atomic: the catalog an unlock would load changes
\* only when a root index is written, and then becomes exactly the catalog one
\* save asked for.
AtomicCommit == Abstract!Spec
=============================================================================
