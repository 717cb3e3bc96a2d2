----------------------------- MODULE VaultRekey -----------------------------
(***************************************************************************)
(* Changing the password of a vault (vault/rekey).  A password derives a    *)
(* key, and a key derives the names of all chunks of its vault: several     *)
(* vaults live side by side in one storage.  A rekey copies every chunk     *)
(* under the names of the new key, with a marker that is first Staging and  *)
(* then Committing, switches the session to the new key, deletes the old    *)
(* chunks and removes the marker.  The storage has one marker for all its   *)
(* vaults, readable with the old and with the new key; an unlock with       *)
(* either of them, and the next rekey, first undo or finish what it says.   *)
(*                                                                         *)
(* A vault is its catalog, which is a root index and the shard snapshots,   *)
(* and its blobs.  A chunk is known by the vault and the revision that its  *)
(* plaintext belongs to, and the files the catalog has at that revision.    *)
(***************************************************************************)
EXTENDS Naturals, FiniteSets

CONSTANTS
    Key,            \* the keys of the passwords in use
    Blob,           \* the blobs of a vault
    MaxRevision,    \* bound on revisions, and so on writes
    IoErrors,       \* whether storage calls may fail: the answers considered
    None            \* no chunk, no marker, no session

ASSUME IoErrorsAssumption == IoErrors \subseteq BOOLEAN

Catalog == {"root", "shard"}
Part == Catalog \cup Blob
Revision == 1..MaxRevision
Content == [vault : 0..MaxRevision, rev : 0..MaxRevision, files : SUBSET Blob]
Empty == [vault |-> 0, rev |-> 0, files |-> {}]

ASSUME BoundAssumption == MaxRevision \in Nat
ASSUME BlobAssumption == Blob \cap Catalog = {}

VARIABLES
    chunk,      \* key -> part -> content or None
    marker,     \* the rekey transaction on disk, or None
    sess,       \* the session: its key and the catalog it holds, or None
    tx,         \* the transaction being run or recovered, or None
    todo,       \* the parts a loop has not reached
    rev,        \* the last revision given out
    acked,      \* vault -> part -> the content last reported as written, or None
    back,       \* what a recovery is part of: "open" or "rekey"
    ioErrors,   \* whether storage calls may fail in this behaviour
    replaced,   \* a rekey has replaced the marker of another vault
    pc

vars == <<chunk, marker, sess, tx, todo, rev, acked, back, pc, ioErrors, replaced>>
disk == <<chunk, marker>>

Transaction ==
    [phase : {"Staging", "Committing"}, old : Key, new : Key,
     oldParts : SUBSET Part, newParts : SUBSET Part]

ASSUME NoneAssumption ==
    None \notin Content \cup Transaction \cup [key : Key, mem : Content]

Delete(k, p) == chunk' = [chunk EXCEPT ![k][p] = None]

\* load_rekey_marker_for_key: the marker, if the key can decrypt it.
MarkerFor(k) == IF marker # None /\ k \in {marker.old, marker.new} THEN marker ELSE None

all_new_exist(c, t) == \A p \in t.newParts : c[t.new][p] # None

\* The command ends and the session goes on as it is.
Return == pc' = "idle" /\ tx' = None /\ todo' = {}

\* A failed unlock leaves no session; after a failed command it stays.
Abort == IF back = "open" THEN "locked" ELSE "idle"

Failed ==
    /\ pc' = Abort /\ tx' = None /\ todo' = {}
    /\ sess' = IF back = "open" THEN None ELSE sess

(***************************************************************************)
(* Unlocking, and recovering an interrupted rekey.                          *)
(***************************************************************************)
Unlock(k) ==
    /\ pc = "locked"
    /\ sess' = [key |-> k, mem |-> Empty]
    /\ back' = "open" /\ pc' = "recover"
    /\ UNCHANGED <<disk, tx, todo, rev, acked, ioErrors, replaced>>

\* Mutant: every interrupted rekey is undone.
RecoverUndoes ==
    /\ pc = "recover"
    /\ LET t == MarkerFor(sess.key)
       IN IF t = None
          THEN pc' = back /\ UNCHANGED <<tx, todo>>
          ELSE tx' = t /\ todo' = t.newParts /\ pc' = "undo"
    /\ UNCHANGED <<disk, sess, rev, acked, back, ioErrors, replaced>>

\* Staging is undone; Committing is finished, once every new chunk is there.
Recover ==
    /\ pc = "recover"
    /\ LET t == MarkerFor(sess.key)
       IN \/ /\ t = None
             /\ pc' = back
             /\ UNCHANGED <<tx, todo, sess>>
          \/ /\ t # None /\ t.phase = "Staging"
             /\ tx' = t /\ todo' = t.newParts /\ pc' = "undo"
             /\ UNCHANGED sess
          \/ /\ t # None /\ t.phase = "Committing"
             /\ IF all_new_exist(chunk, t)
                THEN tx' = t /\ todo' = t.oldParts /\ pc' = "finish" /\ UNCHANGED sess
                ELSE Failed
    /\ UNCHANGED <<disk, rev, acked, back, ioErrors, replaced>>

\* rollback_staged_chunks goes on when a chunk cannot be deleted.
Undo(p) ==
    /\ pc = "undo" /\ p \in todo
    /\ Delete(tx.new, p) \/ (ioErrors /\ UNCHANGED chunk)
    /\ todo' = todo \ {p}
    /\ UNCHANGED <<marker, sess, tx, rev, acked, back, pc, ioErrors, replaced>>

FinishOld(p) ==
    /\ pc = "finish" /\ p \in todo
    /\ Delete(tx.old, p)
    /\ todo' = todo \ {p}
    /\ UNCHANGED <<marker, sess, tx, rev, acked, back, pc, ioErrors, replaced>>

Forget ==
    /\ pc \in {"undo", "finish"} /\ todo = {}
    /\ marker' = None /\ tx' = None
    /\ pc' = back
    /\ UNCHANGED <<chunk, sess, todo, rev, acked, back, ioErrors, replaced>>

\* The catalog is loaded.  A key without a root index opens an empty vault; a
\* root index without its shards is corruption, and the unlock fails.
Open ==
    /\ pc = "open"
    /\ LET root == chunk[sess.key]["root"]
       IN \/ /\ root = None \/ chunk[sess.key]["shard"] = root
             /\ sess' = [sess EXCEPT !.mem = IF root = None THEN Empty ELSE root]
             /\ Return
          \/ /\ root # None /\ chunk[sess.key]["shard"] # root
             /\ Failed
    /\ UNCHANGED <<disk, rev, acked, back, ioErrors, replaced>>

(***************************************************************************)
(* Using the vault: a command writes a blob and saves the catalog, which is *)
(* atomic (module CatalogCommit), and reports success.                      *)
(***************************************************************************)
Put(b) ==
    /\ pc = "idle" /\ rev < MaxRevision
    /\ rev' = rev + 1
    /\ LET v == IF sess.mem = Empty THEN rev + 1 ELSE sess.mem.vault
           new == [vault |-> v, rev |-> rev + 1, files |-> sess.mem.files \cup {b}]
       IN /\ sess' = [sess EXCEPT !.mem = new]
          /\ chunk' = [chunk EXCEPT ![sess.key] =
                         [p \in Part |-> IF p \in Catalog \cup {b} THEN new ELSE @[p]]]
          /\ acked' = [acked EXCEPT ![v] =
                         [p \in Part |-> IF p \in Catalog \cup {b} THEN new ELSE @[p]]]
    /\ UNCHANGED <<marker, tx, todo, back, pc, ioErrors, replaced>>

(***************************************************************************)
(* rekey_password.                                                          *)
(***************************************************************************)
\* recover_rekey_transaction comes first.
StartRekey ==
    /\ pc = "idle"
    /\ back' = "rekey" /\ pc' = "recover"
    /\ UNCHANGED <<disk, sess, tx, todo, rev, acked, ioErrors, replaced>>

\* build_manifest: the chunks of the root index on disk, and the blobs of the
\* catalog in memory that are there.
Manifest(n) ==
    LET blobs == {b \in sess.mem.files : chunk[sess.key][b] # None}
    IN [phase |-> "Staging", old |-> sess.key, new |-> n,
        oldParts |-> blobs \cup {p \in Catalog : /\ chunk[sess.key]["root"] # None
                                                /\ chunk[sess.key][p] # None},
        newParts |-> blobs \cup Catalog]

\* reject_existing_target_vault, the manifest and the Staging marker.
WriteStaging(n) ==
    /\ pc = "rekey" /\ n # sess.key
    /\ chunk[n]["root"] = None
    /\ marker' = Manifest(n) /\ tx' = Manifest(n)
    /\ todo' = Manifest(n).newParts /\ pc' = "copy"
    /\ replaced' = (replaced \/ marker # None)
    /\ UNCHANGED <<chunk, sess, rev, acked, back, ioErrors>>

Reject(n) ==
    /\ pc = "rekey" /\ n # sess.key
    /\ chunk[n]["root"] # None
    /\ Return
    /\ UNCHANGED <<disk, sess, rev, acked, back, ioErrors, replaced>>

\* The shards, then the root index, then the blobs.
Rank(p) == CASE p = "shard" -> 0 [] p = "root" -> 1 [] OTHER -> 2

CopyPart(p) ==
    /\ pc = "copy" /\ p \in todo
    /\ \A q \in todo : Rank(p) <= Rank(q)
    /\ chunk' = [chunk EXCEPT ![tx.new][p] =
                   IF p \in Catalog THEN sess.mem ELSE chunk[tx.old][p]]
    /\ todo' = todo \ {p}
    /\ UNCHANGED <<marker, sess, tx, rev, acked, back, pc, ioErrors, replaced>>

\* The user cancels, which is noticed before the catalog and after each blob.
Cancel ==
    /\ pc = "copy" /\ todo \cap Catalog \in {{}, Catalog}
    /\ todo' = tx.newParts /\ pc' = "rollback"
    /\ UNCHANGED <<disk, sess, tx, rev, acked, back, ioErrors, replaced>>

Rollback(p) ==
    /\ pc = "rollback" /\ p \in todo
    /\ Delete(tx.new, p) \/ (ioErrors /\ UNCHANGED chunk)
    /\ todo' = todo \ {p}
    /\ UNCHANGED <<marker, sess, tx, rev, acked, back, pc, ioErrors, replaced>>

RolledBack ==
    /\ pc = "rollback" /\ todo = {}
    /\ marker' = None \/ (ioErrors /\ UNCHANGED marker)
    /\ Return
    /\ UNCHANGED <<chunk, sess, rev, acked, back, ioErrors, replaced>>

\* Mutant: the last chunks are not waited for.
WriteCommittingEarly ==
    /\ pc = "copy"
    /\ marker' = [tx EXCEPT !.phase = "Committing"]
    /\ sess' = [sess EXCEPT !.key = tx.new]
    /\ todo' = tx.oldParts /\ pc' = "clean"
    /\ UNCHANGED <<chunk, tx, rev, acked, back, ioErrors, replaced>>

\* The new catalog has been validated; the session moves to the new key.
WriteCommitting ==
    /\ pc = "copy" /\ todo = {}
    /\ marker' = [tx EXCEPT !.phase = "Committing"]
    /\ sess' = [sess EXCEPT !.key = tx.new]
    /\ todo' = tx.oldParts /\ pc' = "clean"
    /\ UNCHANGED <<chunk, tx, rev, acked, back, ioErrors, replaced>>

CleanOld(p) ==
    /\ pc = "clean" /\ p \in todo
    /\ Delete(tx.old, p)
    /\ todo' = todo \ {p}
    /\ UNCHANGED <<marker, sess, tx, rev, acked, back, pc, ioErrors, replaced>>


DeleteMarker ==
    /\ pc = "clean" /\ todo = {}
    /\ marker' = None /\ pc' = "done"
    /\ UNCHANGED <<chunk, sess, tx, todo, rev, acked, back, ioErrors, replaced>>

Done == pc = "done" /\ Return /\ UNCHANGED <<disk, sess, rev, acked, back, ioErrors, replaced>>

(***************************************************************************)
(* Errors and crashes.  A failing call may have acted before it failed.     *)
(***************************************************************************)
StagingFails ==
    /\ pc = "rekey"
    /\ \E n \in Key \ {sess.key} :
         chunk[n]["root"] = None /\ marker' \in {marker, Manifest(n)}
    /\ replaced' = (replaced \/ marker \notin {None, marker'})
    /\ Return
    /\ UNCHANGED <<chunk, sess, rev, acked, back, ioErrors>>

\* A failed copy is rolled back.
CopyFails ==
    /\ pc = "copy" /\ todo # {}
    /\ todo' = tx.newParts /\ pc' = "rollback"
    /\ UNCHANGED <<disk, sess, tx, rev, acked, back, ioErrors, replaced>>

\* A failed validation, or a failed Committing marker, returns at once.
CommittingFails ==
    /\ pc = "copy" /\ todo = {}
    /\ marker' \in {marker, [tx EXCEPT !.phase = "Committing"]}
    /\ Return
    /\ UNCHANGED <<chunk, sess, rev, acked, back, ioErrors, replaced>>

\* So does a failure once the session has the new key.
CleanFails ==
    /\ pc = "clean"
    /\ \/ UNCHANGED disk
       \/ todo = {} /\ marker' = None /\ UNCHANGED chunk
       \/ \E p \in todo : Delete(tx.old, p) /\ UNCHANGED marker
    /\ Return
    /\ UNCHANGED <<sess, rev, acked, back, ioErrors, replaced>>

RecoveryFails ==
    /\ pc \in {"undo", "finish"}
    /\ \/ UNCHANGED disk
       \/ todo = {} /\ marker' = None /\ UNCHANGED chunk
    /\ Failed
    /\ UNCHANGED <<rev, acked, back, ioErrors, replaced>>

Error ==
    ioErrors /\ (StagingFails \/ CopyFails \/ CommittingFails \/ CleanFails \/ RecoveryFails)

\* The process dies, or the vault is locked.
Crash ==
    /\ pc # "locked"
    /\ pc' = "locked" /\ sess' = None /\ tx' = None /\ todo' = {}
    /\ UNCHANGED <<disk, rev, acked, back, ioErrors, replaced>>

Init ==
    /\ chunk = [k \in Key |-> [p \in Part |-> None]]
    /\ marker = None /\ sess = None /\ tx = None /\ todo = {}
    /\ rev = 0 /\ acked = [v \in Revision |-> [p \in Part |-> None]]
    /\ back = "open" /\ pc = "locked"
    /\ ioErrors \in IoErrors /\ replaced = FALSE

Recovery ==
    \/ Recover \/ Forget \/ Open
    \/ \E p \in Part : Undo(p) \/ FinishOld(p)

Rekey ==
    \/ \E n \in Key : WriteStaging(n) \/ Reject(n)
    \/ \E p \in Part : CopyPart(p) \/ Rollback(p) \/ CleanOld(p)
    \/ Cancel \/ RolledBack \/ WriteCommitting \/ DeleteMarker \/ Done

Next ==
    \/ \E k \in Key : Unlock(k)
    \/ StartRekey
    \/ \E b \in Blob : Put(b)
    \/ Recovery \/ Rekey \/ Error \/ Crash

Spec == Init /\ [][Next]_vars

(***************************************************************************)
(* Properties.                                                              *)
(***************************************************************************)
\* Every variable stays in its domain.
TypeOK ==
    /\ chunk \in [Key -> [Part -> Content \cup {None}]]
    /\ marker \in Transaction \cup {None} /\ tx \in Transaction \cup {None}
    /\ sess \in [key : Key, mem : Content] \cup {None}
    /\ todo \subseteq Part /\ rev \in 0..MaxRevision /\ back \in {"open", "rekey"}
    /\ acked \in [Revision -> [Part -> Content \cup {None}]]
    /\ ioErrors \in BOOLEAN /\ replaced \in BOOLEAN

\* What the storage becomes when an unlock with k has run the recovery.
Recovered(k) ==
    LET t == MarkerFor(k)
    IN CASE t = None -> chunk
         [] t # None /\ t.phase = "Staging" ->
              [chunk EXCEPT ![t.new] = [p \in Part |-> IF p \in t.newParts THEN None ELSE @[p]]]
         [] OTHER ->
              [chunk EXCEPT ![t.old] = [p \in Part |-> IF p \in t.oldParts THEN None ELSE @[p]]]

CanUnlock(k) ==
    MarkerFor(k) # None /\ marker.phase = "Committing" => all_new_exist(chunk, marker)

Reads(k, v) ==
    /\ CanUnlock(k)
    /\ \A p \in Part : acked[v][p] # None => Recovered(k)[k][p] = acked[v][p]

\* If the process stopped here, exactly one password would read everything a
\* vault has reported as written: a rekey neither loses data nor leaves a
\* second copy readable with the other password.
OneValidPassword ==
    \A v \in Revision : acked[v]["root"] # None =>
        Cardinality({k \in Key : Reads(k, v)}) = 1

\* The same over any crashes, with a storage whose calls do not fail, as long as no
\* rekey of one vault has replaced the marker of another.
CrashKeepsOnePassword == ~ioErrors /\ ~replaced => OneValidPassword

\* The session never goes over to a new key before every chunk its catalog has
\* under the old one is there under the new one, with the same content.
SwitchKeepsContent ==
    [][sess # None /\ sess' # None /\ sess'.key # sess.key =>
         \A p \in Catalog \cup sess.mem.files :
             chunk[sess.key]["root"] # None /\ chunk[sess.key][p] # None =>
                 chunk'[sess'.key][p] = chunk[sess.key][p]]_vars
=============================================================================
