------------------------ MODULE CatalogCommitProofs ------------------------
(***************************************************************************)
(* Proofs about CatalogCommit, for any set of chunks, contents and root     *)
(* indexes: the root index never refers to a missing chunk, and the         *)
(* protocol implements AtomicCatalog.                                       *)
(***************************************************************************)
EXTENDS CatalogCommit, TLAPS

(***************************************************************************)
(* The inductive invariant.  A commit record is in one of two situations:   *)
(* the root index it carries is the one on disk, or its chunks are still    *)
(* unknown to the one on disk.                                              *)
(***************************************************************************)
Swapped(r) == r.phase = "Committing" /\ root = r.root

Unswapped(r) ==
    /\ r.new \cap Refs(root) = {}
    /\ Refs(r.root) \subseteq Refs(root) \cup r.new

RecordOK ==
    rec # NoRec =>
        /\ rec.new \subseteq Refs(rec.root)
        /\ rec.old \cap Refs(rec.root) = {}
        /\ Swapped(rec) \/ Unswapped(rec)

PlanSound ==
    /\ pc \in Saving => plan \in Plan
    /\ pc \in {"write", "mark"} => PlanOK(plan)
    /\ pc = "write" =>
          /\ rec = NoRec
          /\ todo \subseteq New(plan)
          /\ \A c \in New(plan) \ todo : disk[c] = plan.val[c]
    /\ pc \in {"mark", "swap", "unmark", "dropOld"} =>
          \A c \in New(plan) : disk[c] = plan.val[c]
    /\ pc = "mark" => rec = RecordOf(plan, "Staging")
    /\ pc \in {"swap", "unmark"} => rec = RecordOf(plan, "Committing")
    /\ pc = "unmark" => root = plan.root
    /\ pc = "dropOld" =>
          /\ root = plan.root /\ rec = NoRec
          /\ New(plan) \subseteq Refs(plan.root)
          /\ todo \cap Refs(plan.root) = {}

RecoverySound ==
    /\ pc \in {"load", "plan"} => rec = NoRec
    /\ pc = "undo" =>
          /\ rec # NoRec /\ Unswapped(rec) /\ todo \subseteq rec.new
          /\ rec.phase = "Committing" => ~all_chunks_exist(rec.new)
    /\ pc = "redo" =>
          rec # NoRec /\ rec.phase = "Committing" /\ all_chunks_exist(rec.new)
    /\ pc = "redoOld" =>
          rec # NoRec /\ Swapped(rec) /\ todo \subseteq rec.old

Inv == TypeOK /\ Loadable /\ RecordOK /\ PlanSound /\ RecoverySound

(***************************************************************************)
(* Each action preserves the invariant.                                     *)
(***************************************************************************)
\* The invariant holds before the vault is first unlocked.
LEMMA InitInv == Init => Inv
BY RootAssumption DEF Init, Inv, TypeOK, Loadable, all_chunks_exist, RecordOK, PlanSound,
    RecoverySound, Saving, Busy

\* An unlock starts: no chunk, record or plan changes.
LEMMA StartUnlockInv ==
    ASSUME Inv, StartUnlock
    PROVE  Inv'
BY DEF StartUnlock, store, Inv, TypeOK, Loadable, all_chunks_exist, RecordOK,
    Swapped, Unswapped, PlanSound, RecoverySound, Saving, Busy, Recovering

\* A save starts with recovery.
LEMMA StartSaveInv ==
    ASSUME Inv, StartSave
    PROVE  Inv'
BY DEF StartSave, store, Inv, TypeOK, Loadable, all_chunks_exist, RecordOK,
    Swapped, Unswapped, PlanSound, RecoverySound, Saving, Busy, Recovering

\* The record decides whether recovery undoes or redoes.
LEMMA ReadRecordInv ==
    ASSUME Inv, ReadRecord
    PROVE  Inv'
<1>1. TypeOK'
    BY DEF ReadRecord, store, Inv, TypeOK, Busy, Recovering, Record
<1>2. Loadable'
    BY DEF ReadRecord, store, Inv, Loadable, all_chunks_exist
<1>3. RecordOK'
    BY DEF ReadRecord, store, Inv, RecordOK, Swapped, Unswapped
<1>4. PlanSound'
    BY DEF ReadRecord, Inv, TypeOK, PlanSound, Saving
<1>5. RecoverySound'
    BY DEF ReadRecord, store, Inv, TypeOK, Loadable, all_chunks_exist, RecordOK,
        Swapped, Unswapped, RecoverySound
<1> QED BY <1>1, <1>2, <1>3, <1>4, <1>5 DEF Inv

\* The chunks an undo deletes are unknown to the root index.
LEMMA UndoInv ==
    ASSUME NEW c \in Chunk, NEW ok \in BOOLEAN, Inv, Undo(c, ok)
    PROVE  Inv'
<1>1. TypeOK'
    BY DEF Undo, delete_chunk, Goto, Abort, Inv, TypeOK
<1>2. Loadable'
    BY DEF Undo, delete_chunk, Inv, Loadable, all_chunks_exist, Unswapped,
        RecoverySound
<1>3. RecordOK'
    BY DEF Undo, delete_chunk, Inv, RecordOK, Unswapped, RecoverySound
<1>4. PlanSound'
    BY DEF Undo, Goto, Abort, PlanSound, Saving
<1>5. RecoverySound'
    BY DEF Undo, delete_chunk, Goto, Abort, Inv, all_chunks_exist, Unswapped,
        RecoverySound
<1> QED BY <1>1, <1>2, <1>3, <1>4, <1>5 DEF Inv

\* Redoing writes a root index whose new chunks all exist and whose other chunks
\* were live before.
LEMMA RedoInv ==
    ASSUME NEW ok \in BOOLEAN, Inv, Redo(ok)
    PROVE  Inv'
<1>1. TypeOK'
    BY DEF Redo, write_root_index, Goto, Abort, Inv, TypeOK, RecoverySound,
        Busy, Recovering, Record
<1>2. Loadable'
    BY DEF Redo, write_root_index, Inv, Loadable, all_chunks_exist, RecordOK,
        Swapped, Unswapped, RecoverySound
<1>3. RecordOK'
    BY DEF Redo, write_root_index, Inv, RecordOK, Swapped, RecoverySound
<1>4. PlanSound'
    BY DEF Redo, Goto, Abort, PlanSound, Saving
<1>5. RecoverySound'
    BY DEF Redo, write_root_index, Goto, Abort, Inv, Swapped, RecoverySound
<1> QED BY <1>1, <1>2, <1>3, <1>4, <1>5 DEF Inv

\* The superseded chunks are not among those of the root index in place.
LEMMA RedoOldInv ==
    ASSUME NEW c \in Chunk, NEW ok \in BOOLEAN, Inv, RedoOld(c, ok)
    PROVE  Inv'
<1>1. TypeOK'
    BY DEF RedoOld, delete_chunk, Goto, Abort, Inv, TypeOK
<1>2. Loadable'
    BY DEF RedoOld, delete_chunk, Inv, Loadable, all_chunks_exist, RecordOK,
        Swapped, RecoverySound
<1>3. RecordOK'
    BY DEF RedoOld, delete_chunk, Inv, RecordOK, Swapped, RecoverySound
<1>4. PlanSound'
    BY DEF RedoOld, Goto, Abort, PlanSound, Saving
<1>5. RecoverySound'
    BY DEF RedoOld, delete_chunk, Goto, Abort, Inv, Swapped, RecoverySound
<1> QED BY <1>1, <1>2, <1>3, <1>4, <1>5 DEF Inv

\* The record goes when nothing is left to do for it.
LEMMA ForgetInv ==
    ASSUME NEW ok \in BOOLEAN, Inv, Forget(ok)
    PROVE  Inv'
<1>1. TypeOK'
    BY DEF Forget, delete_commit_record, Goto, Abort, Inv, TypeOK, Busy
<1>2. Loadable'
    BY DEF Forget, delete_commit_record, Inv, Loadable, all_chunks_exist
<1>3. RecordOK'
    BY DEF Forget, delete_commit_record, RecordOK
<1>4. PlanSound'
    BY DEF Forget, Goto, Abort, Inv, TypeOK, PlanSound, Saving
<1>5. RecoverySound'
    BY DEF Forget, delete_commit_record, Goto, Abort, Inv, TypeOK, RecoverySound
<1> QED BY <1>1, <1>2, <1>3, <1>4, <1>5 DEF Inv

\* The session opens.
LEMMA LoadedInv ==
    ASSUME Inv, Loaded
    PROVE  Inv'
BY DEF Loaded, store, Inv, TypeOK, Loadable, all_chunks_exist, RecordOK,
    PlanSound, RecoverySound, Saving

\* A save starts from a safe plan.
LEMMA BeginInv ==
    ASSUME NEW p \in Plan, Inv, PlanOK(p), Begin(p)
    PROVE  Inv'
<1>1. TypeOK'
    BY DEF Begin, store, Inv, TypeOK, Saving, Busy, New
<1>2. Loadable'
    BY DEF Begin, store, Inv, Loadable, all_chunks_exist
<1>3. RecordOK'
    BY DEF Begin, store, Inv, RecordOK, RecoverySound
<1>4. PlanSound'
    BY DEF Begin, store, Inv, PlanSound, RecoverySound, PlanOK
<1>5. RecoverySound'
    BY DEF Begin, RecoverySound
<1> QED BY <1>1, <1>2, <1>3, <1>4, <1>5 DEF Inv

\* A save writes over no chunk of the root index.
LEMMA WriteChunkInv ==
    ASSUME NEW c \in Chunk, NEW ok \in BOOLEAN, Inv, WriteChunk(c, ok)
    PROVE  Inv'
<1>1. TypeOK'
    BY DEF WriteChunk, write_chunk, Goto, Abort, Inv, TypeOK, PlanSound, Busy,
        Recovering, Plan
<1>2. Loadable'
    BY DEF WriteChunk, write_chunk, Inv, Loadable, all_chunks_exist, PlanSound,
        New
<1>3. RecordOK'
    BY DEF WriteChunk, write_chunk, Inv, RecordOK, PlanSound
<1>4. PlanSound'
    BY DEF WriteChunk, write_chunk, Goto, Abort, Inv, TypeOK, PlanSound, Saving,
        PlanOK
<1>5. RecoverySound'
    BY DEF WriteChunk, Goto, Abort, RecoverySound
<1> QED BY <1>1, <1>2, <1>3, <1>4, <1>5 DEF Inv

\* The Staging record describes the plan, whose chunks are all written.
LEMMA WriteStagingInv ==
    ASSUME NEW ok \in BOOLEAN, Inv, WriteStaging(ok)
    PROVE  Inv'
<1>1. TypeOK'
    BY DEF WriteStaging, write_commit_record, Goto, Abort, Inv, TypeOK,
        PlanSound, Saving, Busy, Record, Plan, Phases, New, RecordOf
<1>2. Loadable'
    BY DEF WriteStaging, write_commit_record, Inv, Loadable, all_chunks_exist
<1>3. RecordOK'
    BY DEF WriteStaging, write_commit_record, Inv, RecordOK, Unswapped,
        PlanSound, PlanOK, RecordOf
<1>4. PlanSound'
    BY DEF WriteStaging, write_commit_record, Goto, Abort, Inv, PlanSound,
        Saving, PlanOK
<1>5. RecoverySound'
    BY DEF WriteStaging, Goto, Abort, RecoverySound
<1> QED BY <1>1, <1>2, <1>3, <1>4, <1>5 DEF Inv

\* So does the Committing record.
LEMMA WriteCommittingInv ==
    ASSUME NEW ok \in BOOLEAN, Inv, WriteCommitting(ok)
    PROVE  Inv'
<1>1. TypeOK'
    BY DEF WriteCommitting, write_commit_record, Goto, Abort, Inv, TypeOK,
        PlanSound, Saving, Busy, Record, Plan, Phases, New, RecordOf
<1>2. Loadable'
    BY DEF WriteCommitting, write_commit_record, Inv, Loadable, all_chunks_exist
<1>3. RecordOK'
    BY DEF WriteCommitting, write_commit_record, Inv, RecordOK, Unswapped,
        PlanSound, PlanOK, RecordOf
<1>4. PlanSound'
    BY DEF WriteCommitting, write_commit_record, Goto, Abort, Inv, PlanSound,
        Saving
<1>5. RecoverySound'
    BY DEF WriteCommitting, Goto, Abort, RecoverySound
<1> QED BY <1>1, <1>2, <1>3, <1>4, <1>5 DEF Inv

\* The new root index refers only to chunks that are on disk.
LEMMA WriteRootInv ==
    ASSUME NEW ok \in BOOLEAN, Inv, WriteRoot(ok)
    PROVE  Inv'
<1>1. TypeOK'
    BY DEF WriteRoot, write_root_index, Goto, Abort, Inv, TypeOK, PlanSound,
        Saving, Busy, Plan
<1>2. Loadable'
    BY NoRecAssumption DEF WriteRoot, write_root_index, Inv, Loadable,
        all_chunks_exist, RecordOK, Swapped, Unswapped, PlanSound, Saving,
        Record, Plan, Phases, New, RecordOf
<1>3. RecordOK'
    BY DEF WriteRoot, write_root_index, Inv, RecordOK, Swapped, PlanSound,
        RecordOf
<1>4. PlanSound'
    BY DEF WriteRoot, write_root_index, Goto, Abort, Inv, PlanSound, Saving
<1>5. RecoverySound'
    BY DEF WriteRoot, Goto, Abort, RecoverySound
<1> QED BY <1>1, <1>2, <1>3, <1>4, <1>5 DEF Inv

\* The record goes once the root index is in place.
LEMMA DeleteRecordInv ==
    ASSUME NEW ok \in BOOLEAN, Inv, DeleteRecord(ok)
    PROVE  Inv'
<1>1. TypeOK'
    BY DEF DeleteRecord, delete_commit_record, Goto, Abort, Inv, TypeOK,
        PlanSound, Saving, Busy, Plan
<1>2. Loadable'
    BY DEF DeleteRecord, delete_commit_record, Inv, Loadable, all_chunks_exist
<1>3. RecordOK'
    BY DEF DeleteRecord, delete_commit_record, RecordOK
<1>4. PlanSound'
    BY NoRecAssumption DEF DeleteRecord, delete_commit_record, Goto, Abort, Inv,
        RecordOK, PlanSound, Saving, Record, Plan, Phases, New, RecordOf
<1>5. RecoverySound'
    BY DEF DeleteRecord, Goto, Abort, RecoverySound
<1> QED BY <1>1, <1>2, <1>3, <1>4, <1>5 DEF Inv

\* What is superseded is not live.
LEMMA DeleteOldInv ==
    ASSUME NEW c \in Chunk, NEW ok \in BOOLEAN, Inv, DeleteOld(c, ok)
    PROVE  Inv'
<1>1. TypeOK'
    BY DEF DeleteOld, delete_chunk, Goto, Abort, Inv, TypeOK
<1>2. Loadable'
    BY DEF DeleteOld, delete_chunk, Inv, Loadable, all_chunks_exist, PlanSound
<1>3. RecordOK'
    BY DEF DeleteOld, delete_chunk, Inv, RecordOK, PlanSound
<1>4. PlanSound'
    BY DEF DeleteOld, delete_chunk, Goto, Abort, Inv, PlanSound, Saving
<1>5. RecoverySound'
    BY DEF DeleteOld, Goto, Abort, RecoverySound
<1> QED BY <1>1, <1>2, <1>3, <1>4, <1>5 DEF Inv

\* A save ends.
LEMMA FinishInv ==
    ASSUME NEW ok \in BOOLEAN, Inv, Finish(ok)
    PROVE  Inv'
BY DEF Finish, store, Goto, Abort, Inv, TypeOK, Loadable, all_chunks_exist,
    RecordOK, PlanSound, RecoverySound, Saving

\* A call fails without having acted.
LEMMA FailInv ==
    ASSUME Inv, Fail
    PROVE  Inv'
BY DEF Fail, store, Goto, Abort, Inv, TypeOK, Loadable, all_chunks_exist,
    RecordOK, Swapped, Unswapped, PlanSound, RecoverySound, Saving

\* A crash leaves the storage as it is.
LEMMA CrashInv ==
    ASSUME Inv, Crash
    PROVE  Inv'
BY DEF Crash, store, Inv, TypeOK, Loadable, all_chunks_exist, RecordOK, Swapped,
    Unswapped, PlanSound, RecoverySound, Saving

\* Garbage collection may delete the new chunks of an unfinished commit: recovery
\* then finds the record incomplete and undoes it.
LEMMA GcDeleteInv ==
    ASSUME NEW c \in Chunk, Inv, GcDelete(c)
    PROVE  Inv'
<1>1. TypeOK'
    BY DEF GcDelete, delete_chunk, Inv, TypeOK
<1>2. Loadable'
    BY DEF GcDelete, delete_chunk, Inv, Loadable, all_chunks_exist
<1>3. RecordOK'
    BY DEF GcDelete, delete_chunk, Inv, RecordOK, Swapped, Unswapped
<1>4. PlanSound'
    BY DEF GcDelete, PlanSound, Saving
<1>5. RecoverySound'
    BY DEF GcDelete, RecoverySound
<1> QED BY <1>1, <1>2, <1>3, <1>4, <1>5 DEF Inv

(***************************************************************************)
(* Invariance.                                                              *)
(***************************************************************************)
\* Inv is inductive: it holds in every state the protocol can reach.
THEOREM Invariance == Spec => []Inv
<1>1. Inv /\ [Next]_vars => Inv'
  <2> SUFFICES ASSUME Inv, [Next]_vars PROVE Inv'
      OBVIOUS
  <2>1. CASE UNCHANGED vars
        BY <2>1 DEF vars, Inv, TypeOK, Loadable, all_chunks_exist, RecordOK, Swapped,
            Unswapped, PlanSound, PlanOK, RecoverySound
  <2>2. CASE StartUnlock BY <2>2, StartUnlockInv
  <2>3. CASE StartSave BY <2>3, StartSaveInv
  <2>4. CASE ReadRecord BY <2>4, ReadRecordInv
  <2>5. CASE Loaded BY <2>5, LoadedInv
  <2>6. ASSUME NEW p \in Plan, PlanOK(p), Begin(p) PROVE Inv'
        BY <2>6, BeginInv
  <2>7. ASSUME NEW ok \in BOOLEAN, Progress(ok) PROVE Inv'
        BY <2>7, UndoInv, RedoInv, RedoOldInv, ForgetInv, WriteChunkInv, WriteStagingInv,
            WriteCommittingInv, WriteRootInv, DeleteRecordInv, DeleteOldInv, FinishInv
        DEF Progress
  <2>8. CASE Fail BY <2>8, FailInv
  <2>9. CASE Crash BY <2>9, CrashInv
  <2>10. ASSUME NEW c \in Chunk, GcDelete(c) PROVE Inv'
        BY <2>10, GcDeleteInv
  <2> QED BY <2>1, <2>2, <2>3, <2>4, <2>5, <2>6, <2>7, <2>8, <2>9, <2>10 DEF Next
<1> QED BY InitInv, <1>1, PTL DEF Spec

\* Type correctness.
THEOREM TypeCorrect == Spec => []TypeOK
<1>1. Inv => TypeOK BY DEF Inv
<1> QED BY <1>1, Invariance, PTL

\* No crash, error, recovery or garbage collection ever leaves the root index
\* with a missing chunk: try_load_sharded_catalog can always load the catalog.
THEOREM AlwaysLoadable == Spec => []Loadable
<1>1. Inv => Loadable BY DEF Inv
<1> QED BY <1>1, Invariance, PTL

\* When commit_root_index_update can only succeed, the root index on disk is the
\* one asked for and its new chunks hold what was written.
THEOREM SuccessIsDurable == Spec => []SavedInPlace
<1>1. Inv => SavedInPlace BY DEF Inv, PlanSound, SavedInPlace
<1> QED BY <1>1, Invariance, PTL

(***************************************************************************)
(* Refinement.  A step commits the pending catalog, abandons it, asks for   *)
(* one, or changes nothing that AtomicCatalog sees.                         *)
(***************************************************************************)
\* A step that leaves the durable catalog alone keeps or abandons the pending one.
LEMMA QuietStep ==
    ASSUME Durable' = Durable, Pending' \in {Pending, NoPlan}
    PROVE  [Abstract!Next]_(Abstract!vars)
BY DEF Abstract!Next, Abstract!Abandon, Abstract!vars

\* A step that makes the pending catalog the durable one.
LEMMA CommittingStep ==
    ASSUME Pending # NoPlan, Durable' = Pending, Pending' = NoPlan
    PROVE  [Abstract!Next]_(Abstract!vars)
BY DEF Abstract!Next, Abstract!Commit, Abstract!vars

\* What a recoverable record leads to is a catalog: each chunk is there.
LEMMA CatalogContent ==
    ASSUME Inv, rec # NoRec, all_chunks_exist(rec.new), rec.root # root
    PROVE  \E r \in Root : Content(disk, rec.root) \in [Refs(r) -> Val]
<1>1. rec \in Record BY DEF Inv, TypeOK
<1>2. \A c \in Refs(rec.root) : disk[c] \in Val
    BY <1>1, RefsAssumption DEF Inv, TypeOK, Loadable, all_chunks_exist, RecordOK, Swapped,
        Unswapped, Record
<1> QED BY <1>1, <1>2 DEF Content, Record

\* The initial states map to initial states.
LEMMA AbstractInit == Init => Abstract!Init
BY RootAssumption DEF Init, Abstract!Init, Durable, Content, Pending, Undecided

\* An unlock that starts is no step of the atomic catalog.
LEMMA StartUnlockRefines ==
    ASSUME Inv, StartUnlock
    PROVE  [Abstract!Next]_(Abstract!vars)
<1>1. Durable' = Durable
    BY DEF StartUnlock, store, Durable
<1>2. Pending' = Pending
    BY DEF StartUnlock, store, all_chunks_exist, Pending, Undecided
<1> QED BY <1>1, <1>2, QuietStep

\* Nor is the recovery a save starts with.
LEMMA StartSaveRefines ==
    ASSUME Inv, StartSave
    PROVE  [Abstract!Next]_(Abstract!vars)
<1>1. Durable' = Durable
    BY DEF StartSave, store, Durable
<1>2. Pending' = Pending
    BY DEF StartSave, store, all_chunks_exist, Pending, Undecided
<1> QED BY <1>1, <1>2, QuietStep

\* Nor is the decision to undo or to redo a record.
LEMMA ReadRecordRefines ==
    ASSUME Inv, ReadRecord
    PROVE  [Abstract!Next]_(Abstract!vars)
<1>1. Durable' = Durable
    BY DEF ReadRecord, store, Durable
<1>2. Pending' = Pending
    BY DEF ReadRecord, store, Inv, TypeOK, all_chunks_exist, Pending, Undecided
<1> QED BY <1>1, <1>2, QuietStep

\* Undoing deletes chunks that no catalog knows.
LEMMA UndoRefines ==
    ASSUME NEW c \in Chunk, NEW ok \in BOOLEAN, Inv, Undo(c, ok)
    PROVE  [Abstract!Next]_(Abstract!vars)
<1>1. Durable' = Durable
    BY DEF Undo, delete_chunk, Inv, Unswapped, RecoverySound, Durable, Content
<1>2. Pending' = Pending
    BY DEF Undo, delete_chunk, Goto, Abort, Inv, all_chunks_exist,
        RecoverySound, Pending, Undecided
<1> QED BY <1>1, <1>2, QuietStep

\* A redo makes the recorded catalog durable, unless it is already.
LEMMA RedoRefines ==
    ASSUME NEW ok \in BOOLEAN, Inv, Redo(ok)
    PROVE  [Abstract!Next]_(Abstract!vars)
<1>1. CASE rec.root = root
  <2>1. Durable' = Durable /\ Pending' = Pending
      BY <1>1 DEF Redo, write_root_index, Goto, Abort, Durable, Pending,
          Undecided
  <2> QED BY <2>1, QuietStep
<1>2. CASE rec.root # root
  <2>1. /\ Pending = Content(disk, rec.root)
        /\ Durable' = Content(disk, rec.root)
        /\ Pending' = NoPlan
      BY <1>2 DEF Redo, write_root_index, Goto, Abort, Inv, RecoverySound,
          Durable, Pending, Undecided
  <2>2. rec # NoRec /\ all_chunks_exist(rec.new)
      BY DEF Redo, Inv, RecoverySound
  <2>3. Content(disk, rec.root) # NoPlan
      BY <1>2, <2>2, NoPlanAssumption, CatalogContent
  <2> QED BY <2>1, <2>3, CommittingStep
<1> QED BY <1>1, <1>2

\* Deleting superseded chunks changes no catalog.
LEMMA RedoOldRefines ==
    ASSUME NEW c \in Chunk, NEW ok \in BOOLEAN, Inv, RedoOld(c, ok)
    PROVE  [Abstract!Next]_(Abstract!vars)
<1>1. Durable' = Durable
    BY DEF RedoOld, delete_chunk, Inv, RecordOK, Swapped, RecoverySound,
        Durable, Content
<1>2. Pending' = Pending
    BY DEF RedoOld, delete_chunk, Goto, Abort, Inv, Swapped, RecoverySound,
        Pending, Undecided
<1> QED BY <1>1, <1>2, QuietStep

\* Once recovery is done with it the record is not needed.
LEMMA ForgetRefines ==
    ASSUME NEW ok \in BOOLEAN, Inv, Forget(ok)
    PROVE  [Abstract!Next]_(Abstract!vars)
<1>1. Durable' = Durable
    BY DEF Forget, delete_commit_record, Durable
<1>2. Pending' = Pending
    BY DEF Forget, delete_commit_record, Goto, Abort, Inv, TypeOK, Swapped,
        RecoverySound, Pending, Undecided
<1> QED BY <1>1, <1>2, QuietStep

\* An opened session is no step of the atomic catalog.
LEMMA LoadedRefines ==
    ASSUME Inv, Loaded
    PROVE  [Abstract!Next]_(Abstract!vars)
<1>1. Durable' = Durable
    BY DEF Loaded, store, Durable
<1>2. Pending' = Pending
    BY DEF Loaded, store, all_chunks_exist, Pending, Undecided
<1> QED BY <1>1, <1>2, QuietStep

\* A plan becomes the pending save of the atomic catalog.
LEMMA BeginRefines ==
    ASSUME NEW p \in Plan, Inv, PlanOK(p), Begin(p)
    PROVE  [Abstract!Next]_(Abstract!vars)
<1>1. Pending = NoPlan /\ Durable' = Durable
    BY DEF Begin, store, Inv, RecoverySound, Durable, Pending, Undecided
<1>2. Pending' \in [Refs(p.root) -> Val]
    BY RefsAssumption DEF Begin, store, Inv, TypeOK, Loadable, all_chunks_exist,
        PlanOK, Plan, New, Pending
<1>3. p.root \in Root
    BY DEF Plan
<1> QED BY <1>1, <1>2, <1>3 DEF Abstract!Next, Abstract!Request, Abstract!vars

\* A new chunk is invisible until the root index names it.
LEMMA WriteChunkRefines ==
    ASSUME NEW c \in Chunk, NEW ok \in BOOLEAN, Inv, WriteChunk(c, ok)
    PROVE  [Abstract!Next]_(Abstract!vars)
<1>1. Durable' = Durable
    BY DEF WriteChunk, write_chunk, Inv, PlanSound, PlanOK, Durable, Content
<1>2. Pending' \in {Pending, NoPlan}
    BY DEF WriteChunk, write_chunk, Goto, Abort, Inv, PlanSound, Pending,
        Undecided
<1> QED BY <1>1, <1>2, QuietStep

\* A Staging record commits to nothing.
LEMMA WriteStagingRefines ==
    ASSUME NEW ok \in BOOLEAN, Inv, WriteStaging(ok)
    PROVE  [Abstract!Next]_(Abstract!vars)
<1>1. Durable' = Durable
    BY DEF WriteStaging, write_commit_record, Durable
<1>2. Pending' \in {Pending, NoPlan}
    BY DEF WriteStaging, write_commit_record, Goto, Abort, RecordOf, Pending,
        Undecided
<1> QED BY <1>1, <1>2, QuietStep

\* A Committing record leaves the pending save pending.
LEMMA WriteCommittingRefines ==
    ASSUME NEW ok \in BOOLEAN, Inv, WriteCommitting(ok)
    PROVE  [Abstract!Next]_(Abstract!vars)
<1>1. Durable' = Durable
    BY DEF WriteCommitting, write_commit_record, Durable
<1>2. Pending' \in {Pending, NoPlan}
    BY DEF WriteCommitting, write_commit_record, Goto, Abort, Inv, PlanSound,
        RecordOf, Content, Pending
<1> QED BY <1>1, <1>2, QuietStep

\* Writing the root index commits the pending save in one step.
LEMMA WriteRootRefines ==
    ASSUME NEW ok \in BOOLEAN, Inv, WriteRoot(ok)
    PROVE  [Abstract!Next]_(Abstract!vars)
<1>1. CASE rec.root = root
  <2>1. Durable' = Durable /\ Pending' = Pending
      BY <1>1 DEF WriteRoot, write_root_index, Goto, Abort, Inv, PlanSound,
          RecordOf, Durable, Pending, Undecided
  <2> QED BY <2>1, QuietStep
<1>2. CASE rec.root # root
  <2>1. /\ Pending = Content(disk, rec.root)
        /\ Durable' = Content(disk, rec.root)
        /\ Pending' = NoPlan
      BY <1>2, NoRecAssumption DEF WriteRoot, write_root_index, Goto, Abort,
          Inv, all_chunks_exist, PlanSound, Saving, Record, Plan, Phases, New,
          RecordOf, Durable, Pending, Undecided
  <2>2. rec # NoRec /\ all_chunks_exist(rec.new)
      BY NoRecAssumption DEF WriteRoot, Inv, TypeOK, PlanSound, Saving, Record, RecordOf, New,
          Plan, Phases, all_chunks_exist
  <2>3. Content(disk, rec.root) # NoPlan
      BY <1>2, <2>2, NoPlanAssumption, CatalogContent
  <2> QED BY <2>1, <2>3, CommittingStep
<1> QED BY <1>1, <1>2

\* Deleting the record leaves the committed catalog.
LEMMA DeleteRecordRefines ==
    ASSUME NEW ok \in BOOLEAN, Inv, DeleteRecord(ok)
    PROVE  [Abstract!Next]_(Abstract!vars)
<1>1. Durable' = Durable
    BY DEF DeleteRecord, delete_commit_record, Durable
<1>2. Pending' = Pending
    BY DEF DeleteRecord, delete_commit_record, Goto, Abort, Inv, PlanSound,
        RecordOf, Pending, Undecided
<1> QED BY <1>1, <1>2, QuietStep

\* Deleting superseded chunks after a commit changes no catalog.
LEMMA DeleteOldRefines ==
    ASSUME NEW c \in Chunk, NEW ok \in BOOLEAN, Inv, DeleteOld(c, ok)
    PROVE  [Abstract!Next]_(Abstract!vars)
<1>1. Durable' = Durable
    BY DEF DeleteOld, delete_chunk, Inv, PlanSound, Durable, Content
<1>2. Pending' = Pending
    BY DEF DeleteOld, delete_chunk, Goto, Abort, Inv, PlanSound, Pending,
        Undecided
<1> QED BY <1>1, <1>2, QuietStep

\* The end of a save is no step of the atomic catalog.
LEMMA FinishRefines ==
    ASSUME NEW ok \in BOOLEAN, Inv, Finish(ok)
    PROVE  [Abstract!Next]_(Abstract!vars)
<1>1. Durable' = Durable
    BY DEF Finish, store, Durable
<1>2. Pending' = Pending
    BY DEF Finish, store, Goto, Abort, all_chunks_exist, Pending, Undecided
<1> QED BY <1>1, <1>2, QuietStep

\* A failing call leaves the save pending or abandons it.
LEMMA FailRefines ==
    ASSUME Inv, Fail
    PROVE  [Abstract!Next]_(Abstract!vars)
<1>1. Durable' = Durable
    BY DEF Fail, store, Durable
<1>2. Pending' \in {Pending, NoPlan}
    BY DEF Fail, store, Goto, Abort, Inv, all_chunks_exist, PlanSound, RecordOf,
        Pending, Undecided
<1> QED BY <1>1, <1>2, QuietStep

\* So does a crash.
LEMMA CrashRefines ==
    ASSUME Inv, Crash
    PROVE  [Abstract!Next]_(Abstract!vars)
<1>1. Durable' = Durable
    BY DEF Crash, store, Durable
<1>2. Pending' \in {Pending, NoPlan}
    BY DEF Crash, store, Inv, all_chunks_exist, PlanSound, RecordOf, Pending,
        Undecided
<1> QED BY <1>1, <1>2, QuietStep

\* Garbage collection deletes no chunk of a catalog; at worst the pending save is abandoned.
LEMMA GcDeleteRefines ==
    ASSUME NEW c \in Chunk, Inv, GcDelete(c)
    PROVE  [Abstract!Next]_(Abstract!vars)
<1>1. Durable' = Durable
    BY DEF GcDelete, delete_chunk, Durable, Content
<1>2. Pending' \in {Pending, NoPlan}
    BY DEF GcDelete, delete_chunk, Inv, all_chunks_exist, RecordOK, Swapped,
        Unswapped, Content, Pending, Undecided
<1> QED BY <1>1, <1>2, QuietStep

\* Module CatalogCommit implements AtomicCatalog: the catalog an unlock would
\* load is replaced as a whole, by exactly what one save asked for.
THEOREM Refinement == Spec => AtomicCommit
<1>1. Inv /\ [Next]_vars => [Abstract!Next]_(Abstract!vars)
  <2> SUFFICES ASSUME Inv, [Next]_vars PROVE [Abstract!Next]_(Abstract!vars)
      OBVIOUS
  <2>1. CASE UNCHANGED vars
        BY <2>1 DEF vars, Abstract!vars, Durable, Content, Pending, Undecided, all_chunks_exist
  <2>2. CASE StartUnlock BY <2>2, StartUnlockRefines
  <2>3. CASE StartSave BY <2>3, StartSaveRefines
  <2>4. CASE ReadRecord BY <2>4, ReadRecordRefines
  <2>5. CASE Loaded BY <2>5, LoadedRefines
  <2>6. ASSUME NEW p \in Plan, PlanOK(p), Begin(p) PROVE [Abstract!Next]_(Abstract!vars)
        BY <2>6, BeginRefines
  <2>7. ASSUME NEW ok \in BOOLEAN, Progress(ok) PROVE [Abstract!Next]_(Abstract!vars)
        BY <2>7, UndoRefines, RedoRefines, RedoOldRefines, ForgetRefines, WriteChunkRefines,
            WriteStagingRefines, WriteCommittingRefines, WriteRootRefines,
            DeleteRecordRefines, DeleteOldRefines, FinishRefines
        DEF Progress
  <2>8. CASE Fail BY <2>8, FailRefines
  <2>9. CASE Crash BY <2>9, CrashRefines
  <2>10. ASSUME NEW c \in Chunk, GcDelete(c) PROVE [Abstract!Next]_(Abstract!vars)
        BY <2>10, GcDeleteRefines
  <2> QED BY <2>1, <2>2, <2>3, <2>4, <2>5, <2>6, <2>7, <2>8, <2>9, <2>10 DEF Next
<1> QED BY AbstractInit, <1>1, Invariance, PTL DEF Spec, AtomicCommit, Abstract!Spec
=============================================================================
