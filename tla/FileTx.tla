------------------------------- MODULE FileTx -------------------------------
(***************************************************************************)
(* The durable transactions that change the content of a file, and the     *)
(* storage garbage collection that runs next to them.                      *)
(*                                                                         *)
(*   - catalog:file:replace and catalog:file:patch write new chunks under  *)
(*     a Committing marker (catalog_streams/file_replace_tx.rs);           *)
(*   - the erase of a secret deletes the chunks under a marker of its own  *)
(*     (blob_io/erase_tx.rs);                                              *)
(*   - unlock recovers both markers, then the manifest of an interrupted   *)
(*     garbage collection (rpc/router/recovery.rs);                        *)
(*   - admin:storage:gc scans for unreachable chunks and deletes them      *)
(*     after a confirmation (storage_gc/).                                 *)
(*                                                                         *)
(* A chunk is a name and what it holds: the number of the operation that   *)
(* wrote it.  A version of a file is its source revision and the chunks it *)
(* consists of; revisions come from the clock, so that an operation's      *)
(* number serves as its revision.  The staged copies of the new chunks are *)
(* left out: recovery never reads them.  Left out too: a restore that      *)
(* fails after a failed write, and errors of the final clean-up.           *)
(*                                                                         *)
(* Replace and patch differ in what they do when the marker cannot be      *)
(* written: a replace puts everything back and removes the marker, a patch *)
(* deletes its backups and leaves the marker alone.  A write that keeps a  *)
(* chunk of the old version is a patch; one that does not may be either.   *)
(***************************************************************************)
EXTENDS Integers, FiniteSets

CONSTANTS
    NumFiles, MaxChunks,
    MaxOps,        \* operations on files
    MaxCrashes,
    Errors         \* which calls may fail: "write" (before the save), "save"

ASSUME FileTxAssumption ==
    /\ NumFiles \in Nat \ {0} /\ MaxChunks \in Nat \ {0} /\ MaxOps \in Nat /\ MaxCrashes \in Nat
    /\ Errors \subseteq {"write", "save"}

Files == 1..NumFiles
Idx == 1..MaxChunks
Ops == 1..MaxOps
Absent == -1
Held == {Absent} \cup 0..MaxOps          \* what may be under a chunk's name
Contents == [Idx -> Held]
Empty == [i \in Idx |-> Absent]
NoTx == [op |-> 0]
NoOp == [kind |-> "none"]

Canon(f, i) == <<"canon", f, i>>         \* blob_chunk_name
Bak(o, i) == <<"backup", o, i>>          \* fresh names for every operation
EraseMarker == <<"erasetx", 0, 0>>
Names == ({"canon"} \X Files \X Idx) \cup ({"backup"} \X Ops \X Idx)

VARIABLES
    disk,          \* the chunks, markers and manifest excepted
    replaceTx, eraseTx,   \* the two markers
    cat,           \* the durable catalog: the version of each file
    mem,           \* the catalog of the session
    session,       \* "locked", "unlocking" or "open"
    op,            \* the command or the step of the recovery under way
    nextOp,
    scan,          \* candidates of the garbage collection: names and contents
    manifest,      \* its delete manifest on disk
    crashes,
    unlockFailed,  \* the last unlock was refused
    stranded,      \* a marker was left without its backups: by a crash between the last
                   \* two steps of a rollback, or by a patch that gave up
    overlapped     \* a command started while a failed one's marker was there

txVars == <<replaceTx, eraseTx>>
gcVars == <<scan, manifest>>
faultVars == <<crashes, unlockFailed, stranded, overlapped>>
vars == <<disk, txVars, cat, mem, session, op, nextOp, gcVars, faultVars>>

-----------------------------------------------------------------------------
ContentOf(f) == [i \in Idx |-> disk[Canon(f, i)]]

\* disk with the chunks of indices S of file f holding c.
WithCanon(d, f, S, c) ==
    [n \in Names |-> IF n[1] = "canon" /\ n[2] = f /\ n[3] \in S THEN c[n[3]] ELSE d[n]]
WithBackups(d, o, S, c) ==
    [n \in Names |-> IF n[1] = "backup" /\ n[2] = o /\ n[3] \in S THEN c[n[3]] ELSE d[n]]
BackupsOf(o) == [i \in Idx |-> disk[Bak(o, i)]]

\* A content without holes.
Prefix(c) == \A i, j \in Idx : i < j /\ c[j] # Absent => c[i] # Absent

Least(S) == CHOOSE i \in S : \A j \in S : i <= j

Ready == session = "open" /\ op.kind = "none"

\* A transaction whose save failed waits for the recovery of the next unlock.
Pending == replaceTx # NoTx \/ (eraseTx # NoTx /\ eraseTx.phase = "committing")
Overlaps ==
    /\ overlapped' = (overlapped \/ Pending)
    /\ UNCHANGED <<crashes, unlockFailed, stranded>>

Init ==
    /\ cat = [f \in Files |-> [rev |-> 0, content |-> [i \in Idx |-> IF i = 1 THEN 0 ELSE Absent]]]
    /\ mem = cat
    /\ disk = [n \in Names |-> IF n[1] = "canon" /\ n[3] = 1 THEN 0 ELSE Absent]
    /\ replaceTx = NoTx /\ eraseTx = NoTx
    /\ session = "open" /\ op = NoOp /\ nextOp = 1
    /\ scan = {} /\ manifest = {}
    /\ crashes = 0 /\ unlockFailed = FALSE /\ stranded = FALSE
    /\ overlapped = FALSE

-----------------------------------------------------------------------------
(* Replace and patch.                                                      *)

\* The new version: every chunk of it is new (replace), or some are kept (patch).
NewContents(f) ==
    {c \in [Idx -> {Absent, nextOp} \cup {mem[f].content[i] : i \in Idx}] :
        /\ Prefix(c)
        /\ \A i \in Idx : c[i] \in {Absent, nextOp, mem[f].content[i]}
        /\ \E i \in Idx : c[i] # mem[f].content[i]}

Changed(f, c) == {i \in Idx : c[i] # mem[f].content[i]}

\* The old chunks are read and copied to backups.
BeginWrite(f, c) ==
    /\ Ready /\ nextOp <= MaxOps
    /\ LET idx == Changed(f, c) IN
       /\ disk' = WithBackups(disk, nextOp, idx, ContentOf(f))
       /\ op' = [kind |-> "write", pc |-> "marker", file |-> f, op |-> nextOp, content |-> c,
                 idx |-> idx, todo |-> idx, old |-> ContentOf(f), undo |-> FALSE]
    /\ nextOp' = nextOp + 1 /\ Overlaps
    /\ UNCHANGED <<txVars, cat, mem, session, gcVars>>

\* A write before the save fails: the old chunks are put back.
WriteFails == "write" \in Errors /\ op' = [op EXCEPT !.pc = "undo", !.undo = TRUE]

WriteTx == [op |-> op.op, file |-> op.file, idx |-> op.idx,
            had |-> {i \in op.idx : op.old[i] # Absent}]

\* A replace keeps no chunk of the old version; a patch may keep none either.
MayBeReplace == \A i \in Idx : op.content[i] \in {Absent, op.op}

\* A write before the marker fails; the backups are removed, except when a chunk
\* to be patched cannot be read.
StagingFails ==
    /\ "write" \in Errors /\ UNCHANGED replaceTx
    /\ op' \in {NoOp, [op EXCEPT !.pc = "giveUp"]}

\* write_file_replace_marker; a failing write may have published the marker.  A
\* replace then puts the old chunks back, a patch only removes the backups.
MarkWrite ==
    /\ op.kind = "write" /\ op.pc = "marker"
    /\ \/ replaceTx' = WriteTx /\ op' = [op EXCEPT !.pc = "copy"]
       \/ StagingFails
       \/ MayBeReplace /\ replaceTx' \in {replaceTx, WriteTx} /\ WriteFails
       \/ "write" \in Errors /\ replaceTx' = WriteTx /\ op' = [op EXCEPT !.pc = "giveUp"]
    /\ UNCHANGED <<disk, eraseTx, cat, mem, session, nextOp, gcVars, faultVars>>

\* cleanup_staged_chunks: the backups go, a published marker stays.
GiveUpWrite ==
    /\ op.kind = "write" /\ op.pc = "giveUp"
    /\ disk' = WithBackups(disk, op.op, Idx, Empty)
    /\ op' = NoOp
    /\ stranded' = (stranded \/ replaceTx = WriteTx)
    /\ UNCHANGED <<txVars, cat, mem, session, nextOp, gcVars, crashes, unlockFailed, overlapped>>

\* One canonical chunk is written, or deleted when the file became shorter.
CopyChunk ==
    /\ op.kind = "write" /\ op.pc = "copy"
    /\ \/ /\ op.todo # {}
          /\ disk' = WithCanon(disk, op.file, {Least(op.todo)}, op.content)
          /\ op' = [op EXCEPT !.todo = @ \ {Least(op.todo)}]
       \/ op.todo # {} /\ WriteFails /\ UNCHANGED disk
       \/ op.todo = {} /\ op' = [op EXCEPT !.pc = "save"] /\ UNCHANGED disk
    /\ UNCHANGED <<txVars, cat, mem, session, nextOp, gcVars, faultVars>>

\* restore_replace_failure: the chunks as they were read at the start.
UndoWrite ==
    /\ op.kind = "write" /\ op.pc = "undo"
    /\ disk' = WithCanon(disk, op.file, op.idx, op.old)
    /\ op' = [op EXCEPT !.pc = "clean"]
    /\ UNCHANGED <<txVars, cat, mem, session, nextOp, gcVars, faultVars>>

Saved == [mem EXCEPT ![op.file] = [rev |-> op.op, content |-> op.content]]

\* Mutant: a failed finalisation leaves the new version in the session.
SaveWriteNodeKept ==
    /\ op.kind = "write" /\ op.pc = "save"
    /\ \/ mem' = Saved /\ cat' = Saved /\ op' = [op EXCEPT !.pc = "clean"]
       \/ mem' = Saved /\ UNCHANGED cat /\ WriteFails
       \/ "save" \in Errors /\ mem' = Saved /\ cat' \in {cat, Saved} /\ op' = NoOp
    /\ UNCHANGED <<disk, txVars, session, nextOp, gcVars, faultVars>>

\* Finalisation and save.  A failed finalisation puts the chunks back.  A failed
\* save, which may have reached the disk, returns at once: the session keeps
\* the new version, and the marker stays.
SaveWrite ==
    /\ op.kind = "write" /\ op.pc = "save"
    /\ \/ mem' = Saved /\ cat' = Saved /\ op' = [op EXCEPT !.pc = "clean"]
       \/ UNCHANGED <<mem, cat>> /\ WriteFails
       \/ "save" \in Errors /\ mem' = Saved /\ cat' \in {cat, Saved} /\ op' = NoOp
    /\ UNCHANGED <<disk, txVars, session, nextOp, gcVars, faultVars>>

\* cleanup_file_replace_marker: the backups first, then the marker.
CleanWrite ==
    /\ op.kind = "write" /\ op.pc = "clean"
    /\ disk' = WithBackups(disk, op.op, Idx, Empty)
    /\ op' = [op EXCEPT !.pc = "drop"]
    /\ UNCHANGED <<txVars, cat, mem, session, nextOp, gcVars, faultVars>>

DropWrite ==
    /\ op.kind = "write" /\ op.pc = "drop"
    /\ replaceTx' = NoTx
    /\ op' = NoOp
    /\ UNCHANGED <<disk, eraseTx, cat, mem, session, nextOp, gcVars, faultVars>>

-----------------------------------------------------------------------------
(* Erase.                                                                  *)

\* collect_blob_chunk_names: the chunks up to the first missing one.
Existing(f) == {i \in Idx : \A j \in 1..i : disk[Canon(f, j)] # Absent}

BeginErase(f) ==
    /\ Ready /\ nextOp <= MaxOps
    /\ LET idx == Existing(f) IN
       /\ disk' = WithBackups(disk, nextOp, idx, ContentOf(f))
       /\ op' = [kind |-> "erase", pc |-> "stage", file |-> f, op |-> nextOp, content |-> Empty,
                 idx |-> idx, todo |-> idx, old |-> ContentOf(f), undo |-> FALSE]
    /\ nextOp' = nextOp + 1 /\ Overlaps
    /\ UNCHANGED <<txVars, cat, mem, session, gcVars>>

EraseTx(phase) == [op |-> op.op, file |-> op.file, idx |-> op.idx, phase |-> phase,
                   oldRev |-> mem[op.file].rev]

\* write_staging, then write_committing.  A failure removes the backups, and the
\* marker too once it was staged.
StageErase ==
    /\ op.kind = "erase" /\ op.pc = "stage"
    /\ \/ eraseTx' = EraseTx("staging") /\ op' = [op EXCEPT !.pc = "commit"]
       \/ /\ "write" \in Errors
          /\ eraseTx' \in {eraseTx, EraseTx("staging")}
          /\ op' = [op EXCEPT !.pc = "clean", !.undo = TRUE]
    /\ UNCHANGED <<disk, replaceTx, cat, mem, session, nextOp, gcVars, faultVars>>

CommitErase ==
    /\ op.kind = "erase" /\ op.pc = "commit"
    /\ \/ eraseTx' = EraseTx("committing") /\ op' = [op EXCEPT !.pc = "delete"]
       \/ /\ "write" \in Errors
          /\ eraseTx' \in {eraseTx, EraseTx("committing")}
          /\ op' = [op EXCEPT !.pc = "drop", !.undo = TRUE]
    /\ UNCHANGED <<disk, replaceTx, cat, mem, session, nextOp, gcVars, faultVars>>

EraseChunk ==
    /\ op.kind = "erase" /\ op.pc = "delete"
    /\ \/ /\ op.todo # {}
          /\ disk' = WithCanon(disk, op.file, {Least(op.todo)}, Empty)
          /\ op' = [op EXCEPT !.todo = @ \ {Least(op.todo)}]
       \/ op.todo # {} /\ WriteFails /\ UNCHANGED disk
       \/ op.todo = {} /\ op' = [op EXCEPT !.pc = "save"] /\ UNCHANGED disk
    /\ UNCHANGED <<txVars, cat, mem, session, nextOp, gcVars, faultVars>>

\* restore_blob_chunk_backups
UndoErase ==
    /\ op.kind = "erase" /\ op.pc = "undo"
    /\ disk' = WithCanon(disk, op.file, op.idx, BackupsOf(op.op))
    /\ op' = [op EXCEPT !.pc = "drop"]
    /\ UNCHANGED <<txVars, cat, mem, session, nextOp, gcVars, faultVars>>

\* A failed save puts chunks and node back; marker and backups stay.
SaveErase ==
    /\ op.kind = "erase" /\ op.pc = "save"
    /\ \/ mem' = Saved /\ cat' = Saved /\ op' = [op EXCEPT !.pc = "drop"] /\ UNCHANGED disk
       \/ UNCHANGED <<mem, cat, disk>> /\ WriteFails
       \/ /\ "save" \in Errors
          /\ disk' = WithCanon(disk, op.file, op.idx, BackupsOf(op.op))
          /\ cat' \in {cat, Saved} /\ mem' = mem /\ op' = NoOp
    /\ UNCHANGED <<txVars, session, nextOp, gcVars, faultVars>>

\* cleanup_blob_erase_transaction: the marker first, then the backups.
DropErase ==
    /\ op.kind = "erase" /\ op.pc = "drop"
    /\ eraseTx' = NoTx
    /\ op' = [op EXCEPT !.pc = "clean"]
    /\ UNCHANGED <<disk, replaceTx, cat, mem, session, nextOp, gcVars, faultVars>>

CleanErase ==
    /\ op.kind = "erase" /\ op.pc = "clean"
    /\ disk' = WithBackups(disk, op.op, Idx, Empty)
    /\ op' = NoOp
    /\ UNCHANGED <<txVars, cat, mem, session, nextOp, gcVars, faultVars>>

-----------------------------------------------------------------------------
(* Unlock and its recovery: replace marker, erase marker, manifest.        *)

RecoveryStep(kind, pc, todo) == [kind |-> kind, pc |-> pc, todo |-> todo]

\* The catalog is loaded before the recovery starts.
Unlock ==
    /\ session = "locked"
    /\ session' = "unlocking" /\ mem' = cat /\ unlockFailed' = FALSE
    /\ op' = RecoveryStep("recoverWrite", "decide", {})
    /\ UNCHANGED <<disk, txVars, cat, nextOp, gcVars, crashes, stranded, overlapped>>

\* An error of the recovery closes the session.
RefuseUnlock ==
    /\ session' = "locked" /\ op' = NoOp /\ unlockFailed' = TRUE
    /\ UNCHANGED <<crashes, stranded, overlapped>>

ReplaceCommitted == mem[replaceTx.file].rev >= replaceTx.op

DecideWrite ==
    /\ op.kind = "recoverWrite" /\ op.pc = "decide"
    /\ op' = IF replaceTx = NoTx THEN RecoveryStep("recoverErase", "decide", {})
             ELSE IF ReplaceCommitted THEN RecoveryStep("recoverWrite", "clean", {})
             ELSE RecoveryStep("recoverWrite", "restore", replaceTx.idx)
    /\ UNCHANGED <<disk, txVars, cat, mem, session, nextOp, gcVars, faultVars>>

\* restore_file_replace_marker_payload, a chunk at a time: from the backup, or
\* deleted when the chunk did not exist.  A missing backup is an error.
RestoreWrite ==
    /\ op.kind = "recoverWrite" /\ op.pc = "restore" /\ op.todo # {}
    /\ LET i == Least(op.todo) IN
       \/ /\ i \in replaceTx.had => disk[Bak(replaceTx.op, i)] # Absent
          /\ disk' = WithCanon(disk, replaceTx.file, {i},
                               IF i \in replaceTx.had THEN BackupsOf(replaceTx.op) ELSE Empty)
          /\ op' = [op EXCEPT !.todo = @ \ {i}]
          /\ UNCHANGED <<session, faultVars>>
       \/ i \in replaceTx.had /\ disk[Bak(replaceTx.op, i)] = Absent /\ RefuseUnlock /\ UNCHANGED disk
    /\ UNCHANGED <<txVars, cat, mem, nextOp, gcVars>>

\* recover_participant: the backups are removed, then the marker.
CleanRecoveredWrite ==
    /\ op.kind = "recoverWrite"
    /\ op.pc = "clean" \/ (op.pc = "restore" /\ op.todo = {})
    /\ disk' = WithBackups(disk, replaceTx.op, Idx, Empty)
    /\ op' = [op EXCEPT !.pc = "drop"]
    /\ UNCHANGED <<txVars, cat, mem, session, nextOp, gcVars, faultVars>>

DropRecoveredWrite ==
    /\ op.kind = "recoverWrite" /\ op.pc = "drop"
    /\ replaceTx' = NoTx
    /\ op' = RecoveryStep("recoverErase", "decide", {})
    /\ UNCHANGED <<disk, eraseTx, cat, mem, session, nextOp, gcVars, faultVars>>

\* Mutant: a revision later than the erase is expected.
EraseCommittedLater == mem[eraseTx.file].rev > eraseTx.op
EraseCommitted == mem[eraseTx.file] = [rev |-> eraseTx.op, content |-> Empty]
EraseNotSaved == mem[eraseTx.file].rev = eraseTx.oldRev

\* rollback_staging and recover_committing.
DecideErase ==
    /\ op.kind = "recoverErase" /\ op.pc = "decide"
    /\ \/ /\ eraseTx = NoTx
          /\ op' = RecoveryStep("recoverGc", "delete", manifest)
          /\ UNCHANGED <<session, faultVars>>
       \/ /\ eraseTx # NoTx /\ eraseTx.phase = "staging"
          /\ op' = [op EXCEPT !.pc = "clean"]
          /\ UNCHANGED <<session, faultVars>>
       \/ /\ eraseTx # NoTx /\ eraseTx.phase = "committing"
          /\ \/ EraseCommitted /\ op' = RecoveryStep("recoverErase", "delete", eraseTx.idx)
             \/ EraseNotSaved /\ op' = RecoveryStep("recoverErase", "restore", eraseTx.idx)
          /\ UNCHANGED <<session, faultVars>>
       \/ /\ eraseTx # NoTx /\ eraseTx.phase = "committing"
          /\ ~EraseCommitted /\ ~EraseNotSaved
          /\ RefuseUnlock
    /\ UNCHANGED <<disk, txVars, cat, mem, nextOp, gcVars>>

\* The erase is completed, or the chunks are put back.
RecoverEraseChunk ==
    /\ op.kind = "recoverErase" /\ op.pc \in {"delete", "restore"} /\ op.todo # {}
    /\ LET i == Least(op.todo)
           missing == op.pc = "restore" /\ disk[Bak(eraseTx.op, i)] = Absent
       IN \/ /\ ~missing
             /\ disk' = WithCanon(disk, eraseTx.file, {i},
                                  IF op.pc = "restore" THEN BackupsOf(eraseTx.op) ELSE Empty)
             /\ op' = [op EXCEPT !.todo = @ \ {i}]
             /\ UNCHANGED <<session, faultVars>>
          \/ missing /\ RefuseUnlock /\ UNCHANGED disk
    /\ UNCHANGED <<txVars, cat, mem, nextOp, gcVars>>

CleanRecoveredErase ==
    /\ op.kind = "recoverErase" /\ op.pc # "decide" /\ op.pc # "drop" /\ op.todo = {}
    /\ disk' = WithBackups(disk, eraseTx.op, Idx, Empty)
    /\ op' = [op EXCEPT !.pc = "drop"]
    /\ UNCHANGED <<txVars, cat, mem, session, nextOp, gcVars, faultVars>>

DropRecoveredErase ==
    /\ op.kind = "recoverErase" /\ op.pc = "drop"
    /\ eraseTx' = NoTx
    /\ op' = RecoveryStep("recoverGc", "delete", manifest)
    /\ UNCHANGED <<disk, replaceTx, cat, mem, session, nextOp, gcVars, faultVars>>

-----------------------------------------------------------------------------
(* Garbage collection.                                                     *)

Length(c) == Cardinality({i \in Idx : c[i] # Absent})
OrOne(n) == IF n = 0 THEN 1 ELSE n

\* Mutant: the last chunk of a file is forgotten.
LiveButLast == {Canon(f, i) : f \in Files, i \in Idx} \ {Canon(f, Length(mem[f].content)) : f \in Files}

\* StorageGcLiveSetService::collect: the chunks of the files of the session's
\* catalog.  Neither backups nor the marker of an erase are among them.
Live == UNION {{Canon(f, i) : i \in 1..OrOne(Length(mem[f].content))} : f \in Files}

\* What is under a name: the marker of an erase can be listed as well.
At(n) == IF n = EraseMarker THEN (IF eraseTx = NoTx THEN Absent ELSE eraseTx.op) ELSE disk[n]

Unreachable == {[name |-> n, held |-> At(n)] : n \in
                  {m \in Names \cup {EraseMarker} : m \notin Live /\ At(m) # Absent}}

GcScan ==
    /\ Ready
    /\ scan' = Unreachable
    /\ UNCHANGED <<disk, txVars, cat, mem, session, op, nextOp, manifest, faultVars>>

\* candidate_matches_for_delete
Deletable(c) == c.name \notin Live /\ At(c.name) # Absent /\ At(c.name) = c.held

\* delete_scan: the candidates are checked again and written to the manifest.
GcDelete ==
    /\ Ready /\ scan # {}
    /\ manifest' = {c \in scan : Deletable(c)}
    /\ op' = RecoveryStep("gc", "delete", {c \in scan : Deletable(c)}) /\ Overlaps
    /\ UNCHANGED <<disk, txVars, cat, mem, session, nextOp, scan>>

DeleteAt(n) ==
    /\ disk' = IF n = EraseMarker THEN disk ELSE [disk EXCEPT ![n] = Absent]
    /\ eraseTx' = IF n = EraseMarker THEN NoTx ELSE eraseTx

\* One deletion; the recovery of a manifest checks every candidate first.
GcDeleteOne ==
    /\ op.kind \in {"gc", "recoverGc"}
    /\ \E c \in op.todo :
          /\ IF op.kind = "gc" \/ Deletable(c) THEN DeleteAt(c.name) ELSE UNCHANGED <<disk, eraseTx>>
          /\ op' = [op EXCEPT !.todo = @ \ {c}]
    /\ UNCHANGED <<replaceTx, cat, mem, session, nextOp, gcVars, faultVars>>

\* The manifest is removed; after a recovery the session is open.
GcDone ==
    /\ op.kind \in {"gc", "recoverGc"} /\ op.todo = {}
    /\ manifest' = {}
    /\ scan' = IF op.kind = "gc" THEN {} ELSE scan
    /\ op' = NoOp /\ session' = "open"
    /\ stranded' = (op.kind = "gc" /\ stranded)
    /\ UNCHANGED <<disk, txVars, cat, mem, nextOp, crashes, unlockFailed, overlapped>>

-----------------------------------------------------------------------------
(* Lock, crash.                                                            *)

\* vault:lock saves the catalog; the scans survive in the router.
Lock ==
    /\ Ready
    /\ session' = "locked" /\ cat' = mem
    /\ UNCHANGED <<disk, txVars, mem, op, nextOp, gcVars, faultVars>>

\* A rollback has put the chunks back and removed the backups, but its marker
\* is still there.
InRollbackTail ==
    \/ op.kind = "write" /\ op.pc = "drop" /\ op.undo
    \/ op.kind = "recoverWrite" /\ op.pc = "drop" /\ ~ReplaceCommitted
    \/ op.kind = "recoverErase" /\ op.pc = "drop" /\ eraseTx.phase = "committing" /\ EraseNotSaved

Crash ==
    /\ session # "locked" /\ crashes < MaxCrashes
    /\ crashes' = crashes + 1
    /\ session' = "locked" /\ op' = NoOp /\ mem' = cat /\ scan' = {}
    /\ stranded' = (stranded \/ InRollbackTail)
    /\ UNCHANGED <<disk, txVars, cat, nextOp, manifest, unlockFailed, overlapped>>

Write == MarkWrite \/ GiveUpWrite \/ CopyChunk \/ UndoWrite \/ SaveWrite \/ CleanWrite \/ DropWrite
Erase == StageErase \/ CommitErase \/ EraseChunk \/ UndoErase \/ SaveErase \/ DropErase \/ CleanErase
Recover == DecideWrite \/ RestoreWrite \/ CleanRecoveredWrite \/ DropRecoveredWrite
           \/ DecideErase \/ RecoverEraseChunk \/ CleanRecoveredErase \/ DropRecoveredErase
Gc == GcScan \/ GcDelete \/ GcDeleteOne \/ GcDone

Next ==
    \/ \E f \in Files : (\E c \in NewContents(f) : BeginWrite(f, c)) \/ BeginErase(f)
    \/ Write \/ Erase \/ Unlock \/ Recover \/ Gc \/ Lock \/ Crash

Spec == Init /\ [][Next]_vars

-----------------------------------------------------------------------------
(* Properties.                                                             *)

Versions == [rev : 0..MaxOps, content : Contents]

\* Every variable has its type.
TypeOK ==
    /\ disk \in [Names -> Held]
    /\ cat \in [Files -> Versions] /\ mem \in [Files -> Versions]
    /\ session \in {"locked", "unlocking", "open"}
    /\ (session = "unlocking") <=> op.kind \in {"recoverWrite", "recoverErase", "recoverGc"}
    /\ session = "locked" => op = NoOp
    /\ replaceTx.op \in 0..MaxOps /\ eraseTx.op \in 0..MaxOps
    /\ nextOp \in 1..(MaxOps + 1) /\ crashes \in 0..MaxCrashes
    /\ \A c \in scan \cup manifest : c.name \in Names \cup {EraseMarker} /\ c.held \in Held \ {Absent}
    /\ unlockFailed \in BOOLEAN /\ stranded \in BOOLEAN /\ overlapped \in BOOLEAN

\* Between two commands, when no failed save is pending, the chunks of every file
\* are the ones its catalog entry describes and the catalog is on disk: whatever
\* was interrupted, undone or collected left the old file or the new one.
ContentMatchesCatalog ==
    Ready /\ ~Pending /\ ~overlapped =>
        mem = cat /\ \A f \in Files : ContentOf(f) = mem[f].content

\* What recovery would make of file f if the process stopped now.
Recovered(f) ==
    IF replaceTx # NoTx /\ replaceTx.file = f /\ cat[f].rev < replaceTx.op
    THEN [i \in Idx |-> IF i \in replaceTx.had THEN disk[Bak(replaceTx.op, i)]
                        ELSE IF i \in replaceTx.idx THEN Absent ELSE disk[Canon(f, i)]]
    ELSE IF eraseTx # NoTx /\ eraseTx.file = f /\ eraseTx.phase = "committing"
    THEN [i \in Idx |-> IF i \notin eraseTx.idx THEN disk[Canon(f, i)]
                        ELSE IF cat[f].rev = eraseTx.op THEN Absent ELSE disk[Bak(eraseTx.op, i)]]
    ELSE ContentOf(f)

\* At every instant, the steps of an unlock and of a garbage collection
\* included, marker and backups suffice to bring back the version the durable
\* catalog describes - except in the last step of a rollback and after a patch
\* that could not write its marker, where a marker without backups is on disk: the
\* chunks are then in place.  A failed save keeps its marker, and is harmless as
\* long as no other command starts.
AlwaysRecoverable ==
    \/ overlapped
    \/ \A f \in Files : \/ Recovered(f) = cat[f].content
                        \/ (InRollbackTail \/ stranded) /\ ContentOf(f) = cat[f].content

\* An unlock is refused only when a marker was left without its backups in one of
\* those two ways, or after commands that followed a failed save.
UnlockSucceeds == unlockFailed => stranded \/ overlapped

\* The vault can be unlocked after every crash (core_fault_injection/file_replace.rs).
UnlockAlwaysSucceeds == ~unlockFailed

\* After a recovery a file has as many chunks as its catalog entry says: all of
\* the original or all of the replacement can be read
\* (core_fault_injection/file_replace.rs).
AllOfOneVersion ==
    Ready /\ ~Pending => \A f \in Files : Length(ContentOf(f)) = Length(mem[f].content)

=============================================================================
