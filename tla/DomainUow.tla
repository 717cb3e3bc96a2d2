----------------------------- MODULE DomainUow -----------------------------
(***************************************************************************)
(* A domain unit of work (rpc/router/domain_uow): the password manager and  *)
(* the wallet change files and the catalog in one transaction.  The chunks  *)
(* a unit overwrites are backed up, one durable marker records the unit,    *)
(* the files are replaced in place, the catalog is saved, and only then the *)
(* marker and the backups go.  The recovery that runs at unlock decides by  *)
(* the catalog it finds whether the unit happened.                          *)
(*                                                                         *)
(* The catalog is the one AtomicCatalog promises: a save takes effect as a  *)
(* whole, or its outcome is decided by a later save or unlock.  A file is   *)
(* known by its revision; the catalog says which revision a file has.       *)
(*                                                                         *)
(* A unit here writes files.  What else it may stage (deleting, renaming and *)
(* moving nodes) changes the catalog only: it backs up and writes no chunk.  *)
(***************************************************************************)
EXTENDS Naturals, FiniteSets

CONSTANTS
    Domain,         \* the top-level directories that are transaction domains
    File,           \* the files of a domain
    MaxRevision,    \* bound on revisions, and so on units of work
    IoErrors,       \* whether storage calls may fail: the answers considered
    Gc,             \* whether garbage collection is run
    None

ASSUME IoErrorsAssumption == IoErrors \subseteq BOOLEAN

Revision == 1..MaxRevision
NoFile == 0

VARIABLES
    cat,        \* the durable catalog: domain -> file -> revision or NoFile
    pend,       \* the catalog of a save whose outcome is undecided, or None
    mem,        \* the session's catalog, or None while the vault is locked
    blob,       \* the file chunks on disk: domain -> file -> revision or NoFile
    backup,     \* the backup chunks on disk: unit -> file -> revision or NoFile
    marker,     \* the durable marker, or None
    unit,       \* the payload of the running unit or recovery, or None
    todo,       \* the files a loop has not reached
    rev,        \* the last revision given out (the wall clock)
    ioErrors,   \* whether storage calls may fail in this behaviour
    pc

catalog == <<cat, pend, mem>>
vars == <<cat, pend, mem, blob, backup, marker, unit, todo, rev, pc, ioErrors>>

Root == [File -> Revision \cup {NoFile}]

Payload == [tx : Revision, dom : Domain, old : Root, new : Root,
            files : SUBSET File, backed : SUBSET File]

Marker == [phase : {"Staging", "Committing"}, payload : Payload]

ASSUME NoneAssumption == None \notin [Domain -> Root] \cup Payload \cup Marker
ASSUME BoundAssumption == MaxRevision \in Nat

BackupOf(p, f) == backup[p.tx][f]

cleanup_domain_backups(p) ==
    backup' = [backup EXCEPT ![p.tx] = [f \in File |-> IF f \in p.backed THEN NoFile ELSE @[f]]]

Goto(label) == pc' = label

\* The command is over; the session stays open.
Return == unit' = None /\ todo' = {} /\ pc' = "idle"

(***************************************************************************)
(* Unlock: the catalog is recovered and loaded, then the marker is handled. *)
(***************************************************************************)
\* An undecided save is redone or dropped.
Settled == {cat} \cup (IF pend = None THEN {} ELSE {pend})

Unlock ==
    /\ pc = "locked"
    /\ \E c \in Settled : cat' = c /\ mem' = c
    /\ pend' = None
    /\ Goto("recover")
    /\ UNCHANGED <<blob, backup, marker, unit, todo, rev, ioErrors>>

recover_domain_record ==
    /\ pc = "recover" /\ marker # None
    /\ LET p == marker.payload
           here == mem[p.dom]
       IN /\ unit' = p
          /\ \/ /\ marker.phase = "Staging" \/ here = p.old
                /\ todo' = p.files /\ Goto("undo")
             \/ /\ marker.phase = "Committing" /\ here = p.new
                /\ todo' = {} /\ Goto("forget")
             \/ /\ marker.phase = "Committing" /\ here \notin {p.old, p.new}
                /\ IF \A f \in p.files : blob[p.dom][f] # NoFile
                   THEN todo' = {} /\ Goto("rewriteNew")
                   ELSE todo' = p.files /\ Goto("undo")
    /\ UNCHANGED <<catalog, blob, backup, marker, rev, ioErrors>>

\* Mutant: the file is deleted whether or not it has a backup.
UndoDeletes(f) ==
    /\ pc = "undo" /\ f \in todo
    /\ f \in unit.backed => BackupOf(unit, f) # NoFile
    /\ blob' = [blob EXCEPT ![unit.dom][f] = NoFile]
    /\ todo' = todo \ {f}
    /\ UNCHANGED <<catalog, backup, marker, unit, rev, pc, ioErrors>>

\* rollback_domain_chunks: the backup is copied back, a new file is deleted.
Undo(f) ==
    /\ pc = "undo" /\ f \in todo
    /\ f \in unit.backed => BackupOf(unit, f) # NoFile
    /\ blob' = [blob EXCEPT ![unit.dom][f] = IF f \in unit.backed THEN BackupOf(unit, f) ELSE NoFile]
    /\ todo' = todo \ {f}
    /\ UNCHANGED <<catalog, backup, marker, unit, rev, pc, ioErrors>>

\* A backup that is gone fails the unlock: the router drops the session.
UndoFails ==
    /\ pc = "undo"
    /\ \E f \in todo \cap unit.backed : BackupOf(unit, f) = NoFile
    /\ mem' = None /\ unit' = None /\ todo' = {} /\ Goto("locked")
    /\ UNCHANGED <<cat, pend, blob, backup, marker, rev, ioErrors>>

\* The catalog is neither the unit's old nor its new one: it is overwritten.
Rewrite(r) ==
    /\ cat' = [mem EXCEPT ![unit.dom] = r] /\ mem' = cat'
    /\ Goto("forget")
    /\ UNCHANGED <<pend, blob, backup, marker, unit, todo, rev, ioErrors>>

UndoDone ==
    /\ pc = "undo" /\ todo = {}
    /\ \/ /\ marker.phase = "Staging" \/ mem[unit.dom] = unit.old
          /\ Goto("forget")
          /\ UNCHANGED <<catalog, blob, backup, marker, unit, todo, rev, ioErrors>>
       \/ /\ marker.phase = "Committing" /\ mem[unit.dom] # unit.old
          /\ Rewrite(unit.old)

RewriteNew == pc = "rewriteNew" /\ Rewrite(unit.new)

ForgetBackups ==
    /\ pc = "forget"
    /\ cleanup_domain_backups(unit)
    /\ Goto("forgetMarker")
    /\ UNCHANGED <<catalog, blob, marker, unit, todo, rev, ioErrors>>

ForgetMarker ==
    /\ pc = "forgetMarker"
    /\ marker' = None /\ unit' = None
    /\ Goto("opened")
    /\ UNCHANGED <<catalog, blob, backup, todo, rev, ioErrors>>

NothingToRecover ==
    /\ pc = "recover" /\ marker = None
    /\ Goto("opened")
    /\ UNCHANGED <<catalog, blob, backup, marker, unit, todo, rev, ioErrors>>

Opened ==
    /\ pc = "opened" /\ Goto("idle")
    /\ UNCHANGED <<catalog, blob, backup, marker, unit, todo, rev, ioErrors>>

(***************************************************************************)
(* A unit of work.                                                          *)
(***************************************************************************)
\* begin, the stage_* calls, and backup_existing_chunks.  Backup names are
\* never used twice, so backups of a batch cut short are only garbage.
Begin(d, fs) ==
    /\ pc = "idle" /\ rev < MaxRevision
    /\ rev' = rev + 1
    /\ LET v == rev + 1
           p == [tx |-> v, dom |-> d, old |-> mem[d],
                 new |-> [f \in File |-> IF f \in fs THEN v ELSE mem[d][f]],
                 files |-> fs, backed |-> {f \in fs : blob[d][f] # NoFile}]
       IN /\ unit' = p
          /\ backup' = [backup EXCEPT ![v] = [f \in File |-> IF f \in p.backed THEN blob[d][f] ELSE @[f]]]
    /\ todo' = {} /\ Goto("stage")
    /\ UNCHANGED <<catalog, blob, marker, ioErrors>>

WriteStaging ==
    /\ pc = "stage"
    /\ marker' = [phase |-> "Staging", payload |-> unit]
    /\ Goto("mark")
    /\ UNCHANGED <<catalog, blob, backup, unit, todo, rev, ioErrors>>

WriteCommitting ==
    /\ pc = "mark"
    /\ marker' = [phase |-> "Committing", payload |-> unit]
    /\ todo' = unit.files /\ Goto("write")
    /\ UNCHANGED <<catalog, blob, backup, unit, rev, ioErrors>>

\* The batch renames its files into place one by one.
WriteFile(f) ==
    /\ pc = "write" /\ f \in todo
    /\ blob' = [blob EXCEPT ![unit.dom][f] = unit.tx]
    /\ todo' = todo \ {f}
    /\ UNCHANGED <<catalog, backup, marker, unit, rev, pc, ioErrors>>

\* Mutant: the catalog is saved before the last file is in place.
SaveCatalogEarly ==
    /\ pc = "write"
    /\ mem' = [mem EXCEPT ![unit.dom] = unit.new]
    /\ \E c \in Settled : cat' = c /\ pend' = [c EXCEPT ![unit.dom] = unit.new]
    /\ Goto("swap")
    /\ UNCHANGED <<blob, backup, marker, unit, todo, rev, ioErrors>>

\* session.save: the save settles an earlier one, then replaces the shard of
\* the domain; the shards it has no delta for stay as they are on disk.
SaveCatalog ==
    /\ pc = "write" /\ todo = {}
    /\ mem' = [mem EXCEPT ![unit.dom] = unit.new]
    /\ \E c \in Settled : cat' = c /\ pend' = [c EXCEPT ![unit.dom] = unit.new]
    /\ Goto("swap")
    /\ UNCHANGED <<blob, backup, marker, unit, todo, rev, ioErrors>>

SaveCommits ==
    /\ pc = "swap"
    /\ cat' = pend /\ pend' = None
    /\ Goto("unmark")
    /\ UNCHANGED <<mem, blob, backup, marker, unit, todo, rev, ioErrors>>


DeleteMarker ==
    /\ pc = "unmark"
    /\ marker' = None
    /\ Goto("clean")
    /\ UNCHANGED <<catalog, blob, backup, unit, todo, rev, ioErrors>>

CleanBackups ==
    /\ pc = "clean"
    /\ cleanup_domain_backups(unit)
    /\ Return
    /\ UNCHANGED <<catalog, blob, marker, rev, ioErrors>>

(***************************************************************************)
(* Errors.  A failing call may have acted before it failed.                 *)
(***************************************************************************)
StagingFails ==
    /\ pc = "stage"
    /\ marker' \in {marker, [phase |-> "Staging", payload |-> unit]}
    /\ cleanup_domain_backups(unit)
    /\ Return
    /\ UNCHANGED <<catalog, blob, rev, ioErrors>>

\* The rollback has nothing to undo yet; deleting the marker may fail too.
CommittingFails ==
    /\ pc = "mark"
    /\ marker' \in {marker, [phase |-> "Committing", payload |-> unit], None}
    /\ Return
    /\ UNCHANGED <<catalog, blob, backup, rev, ioErrors>>

\* What was renamed is deleted and the backups are copied back, all of it as
\* far as the storage lets it; the marker stays.
WriteFails ==
    /\ pc = "write"
    /\ \E done \in SUBSET unit.files :
         blob' = [blob EXCEPT ![unit.dom] = [f \in File |->
                    CASE f \in done \cap unit.backed -> BackupOf(unit, f)
                      [] f \in unit.files \ (todo \cup (done \cap unit.backed)) -> NoFile
                      [] OTHER -> @[f]]]
    /\ Return
    /\ UNCHANGED <<catalog, backup, marker, rev, ioErrors>>

\* The session gets its old catalog back; the marker and the files stay.
SaveFails ==
    /\ pc = "swap"
    /\ mem' = [mem EXCEPT ![unit.dom] = unit.old]
    /\ \/ UNCHANGED cat /\ pend' \in {pend, None}
       \/ cat' = pend /\ pend' = None
    /\ Return
    /\ UNCHANGED <<blob, backup, marker, rev, ioErrors>>

DeleteMarkerFails ==
    /\ pc = "unmark"
    /\ marker' \in {marker, None}
    /\ Return
    /\ UNCHANGED <<catalog, blob, backup, rev, ioErrors>>

Error ==
    ioErrors /\ (StagingFails \/ CommittingFails \/ WriteFails \/ SaveFails \/ DeleteMarkerFails)

Crash ==
    /\ pc # "locked"
    /\ mem' = None /\ unit' = None /\ todo' = {} /\ pc' = "locked"
    /\ UNCHANGED <<cat, pend, blob, backup, marker, rev, ioErrors>>

\* Garbage collection keeps the files of the session's catalog and the marker,
\* and not the backups the marker names.
GcBackups ==
    /\ Gc /\ pc = "idle"
    /\ backup' = [t \in Revision |-> [f \in File |-> NoFile]]
    /\ backup' # backup
    /\ UNCHANGED <<catalog, blob, marker, unit, todo, rev, pc, ioErrors>>

GcFiles ==
    /\ Gc /\ pc = "idle"
    /\ blob' = [d \in Domain |-> [f \in File |-> IF mem[d][f] = NoFile THEN NoFile ELSE blob[d][f]]]
    /\ blob' # blob
    /\ UNCHANGED <<catalog, backup, marker, unit, todo, rev, pc, ioErrors>>

NoFiles == [d \in Domain |-> [f \in File |-> NoFile]]

Init ==
    /\ cat = NoFiles /\ pend = None /\ mem = None
    /\ blob = NoFiles /\ backup = [t \in Revision |-> [f \in File |-> NoFile]]
    /\ marker = None /\ unit = None /\ todo = {} /\ rev = 0 /\ pc = "locked"
    /\ ioErrors \in IoErrors

Recovery ==
    \/ recover_domain_record \/ NothingToRecover \/ UndoDone \/ RewriteNew
    \/ ForgetBackups \/ ForgetMarker \/ Opened
    \/ \E f \in File : Undo(f)

Commit ==
    \/ WriteStaging \/ WriteCommitting \/ SaveCatalog \/ SaveCommits
    \/ DeleteMarker \/ CleanBackups
    \/ \E f \in File : WriteFile(f)

Next ==
    \/ Unlock \/ Recovery \/ UndoFails \/ Commit
    \/ \E d \in Domain, fs \in (SUBSET File) \ {{}} : Begin(d, fs)
    \/ Error \/ Crash \/ GcBackups \/ GcFiles

Spec == Init /\ [][Next]_vars

(***************************************************************************)
(* Properties.                                                              *)
(***************************************************************************)
\* Every variable stays in its domain.
TypeOK ==
    /\ {cat, blob} \subseteq [Domain -> Root]
    /\ {pend, mem} \subseteq [Domain -> Root] \cup {None}
    /\ backup \in [Revision -> Root]
    /\ marker \in Marker \cup {None} /\ unit \in Payload \cup {None}
    /\ todo \subseteq File /\ rev \in 0..MaxRevision

Agree(c) == \A d \in Domain, f \in File : c[d][f] # NoFile => blob[d][f] = c[d][f]

\* Whenever no unit is running, every file has the revision the session's
\* catalog gives it: over any crashes, files and catalog change together.
FilesMatchCatalog == pc = "idle" /\ ~ioErrors => Agree(mem)

\* When recovery has opened the session, after crashes and errors alike, files
\* and catalog agree: the domain is the one before the unit or the one after it.
OldOrNewRoot == pc = "opened" => Agree(mem)

\* A unit about to report success is complete: the durable catalog has its root
\* and its files have their new revision, whatever failed before.
SuccessIsComplete ==
    pc = "clean" =>
        /\ cat[unit.dom] = unit.new /\ mem[unit.dom] = unit.new
        /\ \A f \in unit.files : blob[unit.dom][f] = unit.tx

\* Recovery can always run: no backup it needs is missing.
RecoveryPossible ==
    marker # None /\ (marker.phase = "Staging" \/ cat[marker.payload.dom] = marker.payload.old) =>
        \A f \in marker.payload.backed : BackupOf(marker.payload, f) # NoFile
=============================================================================
