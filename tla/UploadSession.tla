--------------------------- MODULE UploadSession ----------------------------
(***************************************************************************)
(* catalog:upload in parts, and the readers of files next to it.           *)
(*                                                                         *)
(* An upload is one durable transaction over many commands: every part is  *)
(* written to temporary chunks and recorded in a Staging marker; the last  *)
(* one backs up the chunks of the file, writes a Committing marker, the    *)
(* canonical chunks and the catalog (catalog_streams/file_streams/upload). *)
(* Between two parts other commands run; here, the replacement of a file,  *)
(* whose own transaction is the subject of FileTx: a crash in it undoes it.*)
(* Readers (blob_range_reader.rs) run in threads of their own and fill the *)
(* cache of decrypted chunks while commands change the file.               *)
(*                                                                         *)
(* File 1 exists, file 2 is created by its first upload.  A part is one    *)
(* chunk; a chunk holds the number of the operation that wrote it, and a   *)
(* version is its source revision and its chunks.  Left out: the merging   *)
(* of parts that end inside a chunk, chunk sizes, and a second failure, in *)
(* the roll-back that follows a failed save or catalog update.             *)
(***************************************************************************)
EXTENDS ChunkCache, Integers, FiniteSets

CONSTANTS
    MaxChunks,
    MaxOps,        \* bound on uploads, their commits and replacements
    MaxCrashes,
    MaxReaders,    \* readers opened in a behaviour
    Errors         \* which calls fail: "write", "batch" (the commit's batch), "save"

ASSUME UploadAssumption ==
    /\ MaxChunks \in Nat \ {0} /\ MaxOps \in Nat /\ MaxCrashes \in Nat /\ MaxReaders \in Nat
    /\ Errors \subseteq {"write", "batch", "save"}

Files == {1, 2}
Idx == 1..MaxChunks
Absent == -1
Held == {Absent} \cup 1..(MaxOps + 1)
Empty == [i \in Idx |-> Absent]
NoNode == [rev |-> 0, content |-> Empty]     \* not in the catalog
Unknown == 0                                 \* total_size not given yet
NoTx == [phase |-> "none"]
NoOp == [kind |-> "none"]
NoReader == [pc |-> "closed"]

VARIABLES
    canon, temp,   \* the chunks of a file, and those uploaded so far
    backup,        \* the copies made by the last commit of each file
    tx,            \* the marker of the upload
    cat, mem,      \* the durable catalog and the session's
    open,          \* the vault is unlocked
    op,            \* the command under way
    reader,        \* the reader under way
    opened,        \* readers opened so far
    nextOp, crashes,
    refused,       \* the last unlock failed
    faults         \* what the properties except: see Faults

diskVars == <<canon, temp, backup>>
catVars == <<cat, mem>>
readVars == <<reader, opened>>
boundVars == <<nextOp, crashes>>
faultVars == <<refused, faults>>
vars == <<diskVars, tx, catVars, open, op, readVars, boundVars, faultVars, cacheVars>>

\* "stale": an upload committed over a version other than the one it began with;
\* "batch": the batch that writes the canonical chunks failed half-way;
\* "save": a save that reported an error took effect;
\* "cut": a crash hit a rollback between its last two steps.
Faults == {"stale", "batch", "save", "cut"}

Length(c) == Cardinality({i \in Idx : c[i] # Absent})
Least(S) == CHOOSE i \in S : \A j \in S : i <= j
Over(c, S, d) == [i \in Idx |-> IF i \in S THEN d[i] ELSE c[i]]
All(v) == [i \in Idx |-> v]

Ready == open /\ op.kind = "none"

Init ==
    /\ mem = [f \in Files |-> IF f = 1 THEN [rev |-> 1, content |-> All(1)] ELSE NoNode]
    /\ cat = mem
    /\ canon = [f \in Files |-> mem[f].content]
    /\ temp = [f \in Files |-> Empty] /\ backup = [f \in Files |-> Empty]
    /\ tx = NoTx /\ open = TRUE /\ op = NoOp
    /\ reader = NoReader /\ opened = 0
    /\ nextOp = 2 /\ crashes = 0 /\ refused = FALSE /\ faults = {}
    /\ CacheInit

-----------------------------------------------------------------------------
(* A part of an upload.                                                    *)

NewTx(f, total) ==
    [phase |-> "staging", file |-> f, op |-> nextOp, isNew |-> (mem[f] = NoNode), total |-> total,
     uploaded |-> 0, oldLen |-> Length(mem[f].content), oldRev |-> mem[f].rev,
     temps |-> {}, baks |-> {}, rev |-> 0]

\* total_size: given, unknown, or by default the size of the file.
Totals(f) == {Unknown} \cup Idx

\* resolve_upload_target, begin_*_upload_transaction: the Staging marker.
BeginUpload(f, total) ==
    /\ Ready /\ tx = NoTx /\ nextOp <= MaxOps
    /\ tx' = NewTx(f, total)
    /\ op' = [kind |-> "upload", pc |-> "temp", tx |-> NewTx(f, total)]
    /\ nextOp' = nextOp + 1
    /\ UNCHANGED <<diskVars, catVars, open, readVars, crashes, faultVars, cacheVars>>

\* The next part of the pending upload.
ContinueUpload ==
    /\ Ready /\ tx # NoTx /\ tx.uploaded < MaxChunks
    /\ op' = [kind |-> "upload", pc |-> "temp", tx |-> tx]
    /\ UNCHANGED <<diskVars, tx, catVars, open, readVars, boundVars, faultVars, cacheVars>>

\* A part at another offset (a part sent twice, or lost) aborts the upload, as
\* does catalog:upload:abort.
AbortUpload ==
    /\ Ready /\ tx # NoTx
    /\ op' = [kind |-> "upload", pc |-> "abort", tx |-> tx]
    /\ UNCHANGED <<diskVars, tx, catVars, open, readVars, boundVars, faultVars, cacheVars>>

Go(pc) == op' = [op EXCEPT !.pc = pc]
WriteFails == "write" \in Errors /\ Go("abort")

\* write_upload_content: the next chunk goes to its temporary name.
WriteTemp ==
    /\ op.kind = "upload" /\ op.pc = "temp"
    /\ LET i == op.tx.uploaded + 1 IN
       \/ /\ i <= MaxChunks /\ (op.tx.total # Unknown => i <= op.tx.total)
          /\ temp' = [temp EXCEPT ![op.tx.file][i] = op.tx.op]
          /\ op' = [op EXCEPT !.pc = "stage", !.tx.temps = @ \cup {i}, !.tx.uploaded = i]
       \/ WriteFails /\ UNCHANGED temp
    /\ UNCHANGED <<canon, backup, tx, catVars, open, readVars, boundVars, faultVars, cacheVars>>

\* The marker records the part.  The request may finish the upload, which also
\* ends when the declared size is reached.
StageUpload ==
    /\ op.kind = "upload" /\ op.pc = "stage"
    /\ \/ \E total \in IF op.tx.total = Unknown THEN {Unknown, op.tx.uploaded} ELSE {op.tx.total} :
             LET t == [op.tx EXCEPT !.total = total] IN
             /\ tx' = t
             /\ op' = IF t.uploaded = total THEN [op EXCEPT !.pc = "backup", !.tx = t] ELSE NoOp
       \/ WriteFails /\ tx' \in {tx, op.tx}
    /\ UNCHANGED <<diskVars, catVars, open, readVars, boundVars, faultVars, cacheVars>>

Stale(t) == ~t.isNew /\ (Length(mem[t.file].content) # t.oldLen \/ mem[t.file].rev # t.oldRev)

\* backup_existing_chunks: as many chunks as the file had when the upload began.
BackupUpload ==
    /\ op.kind = "upload" /\ op.pc = "backup" /\ nextOp <= MaxOps + 1
    /\ LET f == op.tx.file
           S == {i \in 1..op.tx.oldLen : canon[f][i] # Absent}
       IN \/ /\ backup' = [backup EXCEPT ![f] = Over(Empty, S, canon[f])]
             /\ op' = [op EXCEPT !.pc = "commit", !.tx.baks = S, !.tx.rev = nextOp,
                                 !.tx.phase = "committing"]
             /\ nextOp' = nextOp + 1
             /\ faults' = faults \cup (IF Stale(op.tx) THEN {"stale"} ELSE {})
          \/ WriteFails /\ UNCHANGED <<backup, nextOp, faults>>
    /\ UNCHANGED <<canon, temp, tx, catVars, open, readVars, crashes, refused, cacheVars>>

\* Mutant: the Committing marker is not written.
CommitMarkerSkipped ==
    /\ op.kind = "upload" /\ op.pc = "commit"
    /\ op' = [op EXCEPT !.pc = "canon", !.tx.temps = 1..op.tx.uploaded]
    /\ UNCHANGED <<diskVars, tx, catVars, open, readVars, boundVars, faultVars, cacheVars>>

CommitMarker ==
    /\ op.kind = "upload" /\ op.pc = "commit"
    /\ \/ tx' = op.tx /\ Go("canon")
       \/ WriteFails /\ tx' \in {tx, op.tx}
    /\ UNCHANGED <<diskVars, catVars, open, readVars, boundVars, faultVars, cacheVars>>

NotYet == {i \in op.tx.temps : canon[op.tx.file][i] # op.tx.op}

\* write_canonical_upload_chunks: the temporary chunks are read and written in a
\* batch, whose chunks are renamed one by one.
\* When a rename, or the sync that follows, fails, those already in place are
\* deleted, and nothing puts the old ones back.
WriteCanon ==
    /\ op.kind = "upload" /\ op.pc = "canon"
    /\ LET f == op.tx.file IN
       \/ /\ NotYet # {}
          /\ canon' = [canon EXCEPT ![f] = Over(@, {Least(NotYet)}, temp[f])]
          /\ UNCHANGED <<op, faults>>
       \/ NotYet = {} /\ Go("finalize") /\ UNCHANGED <<canon, faults>>
       \/ /\ "batch" \in Errors
          /\ canon' = [canon EXCEPT ![f] = Over(@, op.tx.temps \ NotYet, Empty)]
          /\ faults' = faults \cup (IF NotYet = op.tx.temps THEN {} ELSE {"batch"})
          /\ Go("abort")
    /\ UNCHANGED <<temp, backup, tx, catVars, open, readVars, boundVars, refused, cacheVars>>

Uploaded == [mem EXCEPT ![op.tx.file] =
               [rev |-> op.tx.rev, content |-> Over(Empty, op.tx.temps, All(op.tx.op))]]

\* apply_upload_catalog_update: the cache is invalidated first.
FinalizeUpload ==
    /\ op.kind = "upload" /\ op.pc = "finalize"
    /\ \/ mem' = Uploaded /\ Go("save")
       \/ "write" \in Errors /\ Go("undo") /\ UNCHANGED mem
    /\ InvalidateNode(op.tx.file)
    /\ UNCHANGED <<diskVars, tx, cat, open, readVars, boundVars, faultVars>>

\* restore_upload_payload: the backups, and nothing where there was none.
Restored(t) == [canon EXCEPT ![t.file] =
                  Over(Over(@, t.temps \ t.baks, Empty), t.baks, backup[t.file])]

\* Mutant: a failed save leaves the entry of the session.
SaveUploadEntryKept ==
    /\ op.kind = "upload" /\ op.pc = "save"
    /\ \/ cat' = mem /\ Go("clean") /\ UNCHANGED <<canon, mem, faults>>
       \/ /\ "save" \in Errors
          /\ canon' = Restored(op.tx)
          /\ UNCHANGED <<cat, mem, faults>>
          /\ Go("abort")
    /\ UNCHANGED <<temp, backup, tx, open, readVars, boundVars, refused, cacheVars>>

\* A failed save puts the chunks and the entry back.
SaveUpload ==
    /\ op.kind = "upload" /\ op.pc = "save"
    /\ \/ cat' = mem /\ Go("clean") /\ UNCHANGED <<canon, mem, faults>>
       \/ /\ "save" \in Errors
          /\ canon' = Restored(op.tx)
          /\ mem' = [mem EXCEPT ![op.tx.file] = cat[op.tx.file]]
          /\ \/ UNCHANGED <<cat, faults>>
             \/ cat' = mem /\ faults' = faults \cup {"save"}
          /\ Go("abort")
    /\ UNCHANGED <<temp, backup, tx, open, readVars, boundVars, refused, cacheVars>>

\* cleanup_upload_marker(committed): temporary chunks, backups, the old tail.
CleanUpload ==
    /\ op.kind = "upload" /\ op.pc = "clean"
    /\ temp' = [temp EXCEPT ![op.tx.file] = Over(@, op.tx.temps, Empty)]
    /\ backup' = [backup EXCEPT ![op.tx.file] = Empty]
    /\ canon' = [canon EXCEPT ![op.tx.file] =
                   Over(@, (op.tx.uploaded + 1)..op.tx.oldLen, Empty)]
    /\ Go("drop")
    /\ UNCHANGED <<tx, catVars, open, readVars, boundVars, faultVars, cacheVars>>

\* The catalog update failed: chunks back, then the clean-up with the backups.
\* Failures of these steps are ignored by the code, and left out here.
UndoUpload ==
    /\ op.kind = "upload" /\ op.pc \in {"undo", "undone"}
    /\ \/ op.pc = "undo" /\ canon' = Restored(op.tx) /\ Go("undone") /\ UNCHANGED <<temp, backup>>
       \/ /\ op.pc = "undone"
          /\ temp' = [temp EXCEPT ![op.tx.file] = Over(@, op.tx.temps, Empty)]
          /\ backup' = [backup EXCEPT ![op.tx.file] = Empty]
          /\ Go("rollback") /\ UNCHANGED canon
    /\ UNCHANGED <<tx, catVars, open, readVars, boundVars, faultVars, cacheVars>>

\* An error of the command: the temporary chunks go, the backups of a commit,
\* of which the caller knows nothing, stay.
CleanAborted ==
    /\ op.kind = "upload" /\ op.pc = "abort"
    /\ temp' = [temp EXCEPT ![op.tx.file] = Over(@, op.tx.temps, Empty)]
    /\ Go("drop")
    /\ UNCHANGED <<canon, backup, tx, catVars, open, readVars, boundVars, faultVars, cacheVars>>

DropUpload ==
    /\ op.kind = "upload" /\ op.pc \in {"drop", "rollback"}
    /\ tx' = NoTx /\ op' = NoOp
    /\ UNCHANGED <<diskVars, catVars, open, readVars, boundVars, faultVars, cacheVars>>

-----------------------------------------------------------------------------
(* The replacement of a file, from the point of view of uploads and readers. *)

BeginReplace(n) ==
    /\ Ready /\ mem[1] # NoNode /\ nextOp <= MaxOps
    /\ op' = [kind |-> "replace", op |-> nextOp, old |-> canon[1],
              new |-> Over(Empty, 1..n, All(nextOp)), todo |-> Idx]
    /\ nextOp' = nextOp + 1
    /\ InvalidateNode(1)
    /\ UNCHANGED <<diskVars, tx, catVars, open, readVars, crashes, faultVars>>

ReplaceChunk ==
    /\ op.kind = "replace" /\ op.todo # {}
    /\ canon' = [canon EXCEPT ![1] = Over(@, {Least(op.todo)}, op.new)]
    /\ op' = [op EXCEPT !.todo = @ \ {Least(op.todo)}]
    /\ UNCHANGED <<temp, backup, tx, catVars, open, readVars, boundVars, faultVars, cacheVars>>

\* finalize_blob_write and save, or a failure that puts the chunks back.
EndReplace ==
    /\ op.kind = "replace"
    /\ \/ /\ op.todo = {}
          /\ mem' = [mem EXCEPT ![1] = [rev |-> op.op, content |-> op.new]] /\ cat' = mem'
          /\ InvalidateNode(1) /\ UNCHANGED canon
       \/ /\ "write" \in Errors /\ canon' = [canon EXCEPT ![1] = op.old]
          /\ UNCHANGED <<catVars, cacheVars>>
    /\ op' = NoOp
    /\ UNCHANGED <<temp, backup, tx, open, readVars, boundVars, faultVars>>

-----------------------------------------------------------------------------
(* Readers.                                                                *)

\* open_range: the revision and the generation of the moment.
OpenReader(f) ==
    /\ Ready /\ reader = NoReader /\ opened < MaxReaders
    /\ mem[f] # NoNode /\ mem[f].content[1] # Absent
    /\ reader' = [pc |-> "get", file |-> f, rev |-> mem[f].rev, gen |-> generation,
                  idx |-> 1, len |-> Length(mem[f].content), data |-> Absent, cached |-> TRUE]
    /\ opened' = opened + 1
    /\ UNCHANGED <<diskVars, tx, catVars, open, op, boundVars, faultVars, cacheVars>>

ReaderKey == Key(reader.file, reader.rev, reader.idx)
NextChunk == IF reader.idx = reader.len THEN NoReader
             ELSE [reader EXCEPT !.idx = @ + 1, !.pc = "get", !.data = Absent]

ReaderGet ==
    /\ reader.pc = "get"
    /\ IF reader.cached THEN Touch(ReaderKey) ELSE UNCHANGED cacheVars
    /\ reader' = IF reader.cached /\ Hit(ReaderKey) THEN NextChunk ELSE [reader EXCEPT !.pc = "read"]
    /\ UNCHANGED <<diskVars, tx, catVars, open, op, opened, boundVars, faultVars>>

\* The canonical chunk as it is on disk now; a missing one ends the reader.
ReaderRead ==
    /\ reader.pc = "read"
    /\ reader' = IF canon[reader.file][reader.idx] = Absent THEN NoReader
                 ELSE [reader EXCEPT !.pc = "insert", !.data = canon[reader.file][reader.idx]]
    /\ UNCHANGED <<diskVars, tx, catVars, open, op, opened, boundVars, faultVars, cacheVars>>

ReaderInsert ==
    /\ reader.pc = "insert"
    /\ IF reader.cached THEN Insert(reader.gen, ReaderKey, reader.data) ELSE UNCHANGED cacheVars
    /\ reader' = NextChunk
    /\ UNCHANGED <<diskVars, tx, catVars, open, op, opened, boundVars, faultVars>>

-----------------------------------------------------------------------------
(* Lock, unlock, crash.                                                    *)

\* The readers keep the cache of the session that is gone, which nobody reads again.
Detached == IF reader = NoReader THEN NoReader ELSE [reader EXCEPT !.cached = FALSE]

Lock ==
    /\ Ready
    /\ open' = FALSE /\ cat' = mem /\ reader' = Detached
    /\ FreshCache
    /\ UNCHANGED <<diskVars, tx, mem, op, opened, boundVars, faultVars>>

InRollbackTail ==
    \/ op.kind = "upload" /\ op.pc = "rollback" /\ op.tx.baks # {}
    \/ op.kind = "recover" /\ op.pc = "drop" /\ op.back /\ tx.baks # {}

\* The recovery of FileTx undoes the replacement.
Crash ==
    /\ open \/ op.kind = "recover"
    /\ crashes < MaxCrashes /\ crashes' = crashes + 1
    /\ open' = FALSE /\ op' = NoOp /\ mem' = cat /\ reader' = NoReader
    /\ canon' = IF op.kind = "replace" THEN [canon EXCEPT ![1] = op.old] ELSE canon
    /\ faults' = faults \cup (IF InRollbackTail THEN {"cut"} ELSE {})
    /\ FreshCache
    /\ UNCHANGED <<temp, backup, tx, cat, opened, nextOp, refused>>

Unlock ==
    /\ ~open /\ op = NoOp
    /\ mem' = cat /\ refused' = FALSE
    /\ \/ tx = NoTx /\ open' = TRUE /\ UNCHANGED op
       \/ tx # NoTx /\ op' = [kind |-> "recover", pc |-> "chunks", back |-> FALSE] /\ UNCHANGED open
    /\ UNCHANGED <<diskVars, tx, cat, readVars, boundVars, faults, cacheVars>>

\* upload_catalog_state_matches
Matches == Length(mem[tx.file].content) = tx.total /\ mem[tx.file].rev = tx.rev

BackupMissing == \E i \in tx.baks : backup[tx.file][i] = Absent

\* recover_committing; a missing backup refuses the unlock.
RecoverChunks ==
    /\ op.kind = "recover" /\ op.pc = "chunks"
    /\ LET back == tx.phase = "committing" /\ ~Matches IN
       \/ ~back /\ Go("clean") /\ UNCHANGED <<canon, refused>>
       \/ /\ back /\ ~BackupMissing
          /\ canon' = Restored(tx)
          /\ op' = [op EXCEPT !.pc = "clean", !.back = TRUE] /\ UNCHANGED refused
       \/ back /\ BackupMissing /\ op' = NoOp /\ refused' = TRUE /\ UNCHANGED canon
    /\ UNCHANGED <<temp, backup, tx, catVars, open, readVars, boundVars, faults, cacheVars>>

\* cleanup; the old tail only when the upload is in the catalog.
RecoverClean ==
    /\ op.kind = "recover" /\ op.pc = "clean"
    /\ temp' = [temp EXCEPT ![tx.file] = Over(@, tx.temps, Empty)]
    /\ backup' = [backup EXCEPT ![tx.file] = Over(@, tx.baks, Empty)]
    /\ canon' = IF tx.phase = "committing" /\ ~op.back
                THEN [canon EXCEPT ![tx.file] = Over(@, (tx.uploaded + 1)..tx.oldLen, Empty)]
                ELSE canon
    /\ Go("drop")
    /\ UNCHANGED <<tx, catVars, open, readVars, boundVars, faultVars, cacheVars>>

RecoverDrop ==
    /\ op.kind = "recover" /\ op.pc = "drop"
    /\ tx' = NoTx /\ op' = NoOp /\ open' = TRUE
    /\ UNCHANGED <<diskVars, catVars, readVars, boundVars, faultVars, cacheVars>>

Upload ==
    \/ ContinueUpload \/ AbortUpload \/ WriteTemp \/ StageUpload \/ BackupUpload \/ CommitMarker
    \/ WriteCanon \/ FinalizeUpload \/ SaveUpload \/ CleanUpload \/ UndoUpload \/ CleanAborted
    \/ DropUpload

Next ==
    \/ \E f \in Files : (\E total \in Totals(f) : BeginUpload(f, total)) \/ OpenReader(f)
    \/ Upload
    \/ (\E n \in Idx : BeginReplace(n)) \/ ReplaceChunk \/ EndReplace
    \/ ReaderGet \/ ReaderRead \/ ReaderInsert
    \/ Lock \/ Crash \/ Unlock \/ RecoverChunks \/ RecoverClean \/ RecoverDrop

Spec == Init /\ [][Next]_vars

-----------------------------------------------------------------------------
(* Properties.                                                             *)

Versions == [rev : 0..(MaxOps + 1), content : [Idx -> Held]]
Uploads == [phase : {"staging", "committing"}, file : Files, op : 1..(MaxOps + 1),
            isNew : BOOLEAN, total : 0..MaxChunks, uploaded : 0..MaxChunks,
            oldLen : 0..MaxChunks, oldRev : 0..(MaxOps + 1),
            temps : SUBSET Idx, baks : SUBSET Idx, rev : 0..(MaxOps + 1)]
UploadOps == [kind : {"upload"}, tx : Uploads,
              pc : {"temp", "stage", "backup", "commit", "canon", "finalize", "save", "clean",
                    "undo", "undone", "rollback", "abort", "drop"}]
ReplaceOps == [kind : {"replace"}, op : 1..(MaxOps + 1), old : [Idx -> Held],
               new : [Idx -> Held], todo : SUBSET Idx]
RecoverOps == [kind : {"recover"}, pc : {"chunks", "clean", "drop"}, back : BOOLEAN]
Readers == [pc : {"get", "read", "insert"}, file : Files, rev : 0..(MaxOps + 1), gen : Nat,
            idx : Idx, len : Idx, data : Held, cached : BOOLEAN]
Entries == [key : Files \X (0..(MaxOps + 1)) \X Idx, data : Held, last_access : Nat]

\* Every variable has its type.
TypeOK ==
    /\ canon \in [Files -> [Idx -> Held]] /\ temp \in [Files -> [Idx -> Held]]
    /\ backup \in [Files -> [Idx -> Held]]
    /\ cat \in [Files -> Versions] /\ mem \in [Files -> Versions]
    /\ tx \in Uploads \cup {NoTx}
    /\ open \in BOOLEAN /\ refused \in BOOLEAN /\ faults \subseteq Faults
    /\ op \in UploadOps \cup ReplaceOps \cup RecoverOps \cup {NoOp}
    /\ op.kind \in {"upload", "replace"} => open
    /\ op.kind = "recover" => ~open /\ tx # NoTx
    /\ nextOp \in 2..(MaxOps + 2) /\ crashes \in 0..MaxCrashes /\ opened \in 0..MaxReaders
    /\ reader \in Readers \cup {NoReader} /\ (reader # NoReader => reader.idx <= reader.len)
    /\ cache \subseteq Entries /\ generation \in Nat /\ access_counter \in Nat

\* Between two commands, an upload under way or not, every file has the chunks its
\* catalog entry describes, and the catalog is on disk.
FilesIntact ==
    Ready /\ faults = {} => mem = cat /\ \A f \in Files : canon[f] = mem[f].content

\* What the recovery of the next unlock would make of file f.
Recovered(f) ==
    IF tx = NoTx \/ tx.file # f \/ tx.phase # "committing" THEN canon[f]
    ELSE IF Length(cat[f].content) = tx.total /\ cat[f].rev = tx.rev
    THEN Over(canon[f], (tx.uploaded + 1)..tx.oldLen, Empty)
    ELSE Restored(tx)[f]

\* At every step of an upload, of its abort and of its recovery, a crash leaves
\* what is needed for the version the durable catalog describes.
UploadRecoverable ==
    faults = {} /\ ~InRollbackTail /\ op.kind # "replace" =>
        \A f \in Files : Recovered(f) = cat[f].content

\* An unlock is refused only after a crash between the last two steps of a rollback.
UnlockSucceeds == refused => "cut" \in faults

\* The cache stays within its limit and, whatever a reader did while the file
\* changed, an entry of the cache under the current revision of a file is the chunk
\* of that revision: a reader opened now never gets bytes that were replaced, or
\* bytes of a change that was undone.
CacheIsTrue ==
    /\ Cardinality(cache) <= MaxEntries
    /\ Ready /\ faults = {} =>
        \A e \in cache :
            e.key[2] = mem[e.key[1]].rev => e.data = mem[e.key[1]].content[e.key[3]]

\* The catalog never points to missing chunks (core_fault_injection/upload.rs).
NeverMissingChunks ==
    Ready => \A f \in Files : \A i \in 1..Length(mem[f].content) : canon[f][i] # Absent

=============================================================================
