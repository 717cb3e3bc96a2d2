------------------------- MODULE VaultRekeyProofs -------------------------
(***************************************************************************)
(* Proofs about VaultRekey, for any keys, blobs and number of writes: the   *)
(* session moves to a new key only when everything is there under it, and   *)
(* over any crashes exactly one password reads everything acknowledged.     *)
(***************************************************************************)
EXTENDS VaultRekey, FiniteSetTheorems, TLAPS

(***************************************************************************)
(* What holds with failing calls too.                                       *)
(***************************************************************************)
Recovering == {"recover", "undo", "finish"}
Rekeying == {"copy", "rollback", "clean", "done"}
Labels == {"locked", "idle", "open", "rekey"} \cup Recovering \cup Rekeying

\* The session has loaded its catalog.
Loaded == pc \in {"idle", "rekey"} \cup Rekeying \/ (pc \in Recovering /\ back = "rekey")

Typed ==
    /\ TypeOK /\ pc \in Labels
    /\ pc = "locked" <=> sess = None
    /\ pc \in Rekeying \cup {"undo", "finish"} => tx # None
    /\ pc \in {"open", "rekey"} => back = pc

\* The catalog of the session is the one under its key, as far as that is there.
SessionOK ==
    Loaded /\ chunk[sess.key]["root"] # None =>
        chunk[sess.key]["root"] = sess.mem /\ chunk[sess.key]["shard"] \in {None, sess.mem}

\* What a copied part is under the new key.
Copied(p) == IF p \in Catalog THEN sess.mem ELSE chunk[tx.old][p]

CopyOK ==
    /\ pc \in {"copy", "rollback"} => tx.old = sess.key /\ tx.new # sess.key
    /\ pc = "copy" =>
          /\ todo \subseteq tx.newParts
          /\ tx.newParts = Catalog \cup {b \in sess.mem.files : chunk[sess.key][b] # None}
          /\ \A p \in tx.newParts \ todo : chunk[tx.new][p] = Copied(p)

SwitchInv == Typed /\ SessionOK /\ CopyOK

(***************************************************************************)
(* Without failing calls, and with every marker recovered before the next   *)
(* one: under each key there is nothing, a vault without files, or all that *)
(* was acknowledged of one vault.  The exception is the one key that the    *)
(* marker gives up: the new one while Staging, the old one while Committing.*)
(***************************************************************************)
Vacant(k) == \A p \in Part : chunk[k][p] = None

Blank(k) == \A p \in Part : chunk[k][p] = IF p \in Catalog THEN Empty ELSE None

Holds(k, v) == acked[v]["root"] # None /\ chunk[k] = acked[v]

GivenUp(k) ==
    /\ marker # None
    /\ k = IF marker.phase = "Staging" THEN marker.new ELSE marker.old

\* The acknowledged parts of a vault belong together.
AckedOK ==
    \A v \in Revision :
        LET root == acked[v]["root"]
        IN /\ root = None => \A p \in Part : acked[v][p] = None
           /\ root # None =>
                /\ v <= rev /\ root.vault = v /\ acked[v]["shard"] = root
                /\ root.files = {b \in Blob : acked[v][b] # None}

KeysOK ==
    /\ \A k \in Key : GivenUp(k) \/ Vacant(k) \/ Blank(k) \/ \E v \in Revision : Holds(k, v)
    /\ \A v \in Revision : acked[v]["root"] # None => \E k \in Key : ~GivenUp(k) /\ Holds(k, v)
    /\ \A v \in Revision, k, l \in Key :
          Holds(k, v) /\ Holds(l, v) /\ ~GivenUp(k) /\ ~GivenUp(l) => k = l

MarkerOK ==
    marker # None =>
        /\ marker.old # marker.new /\ "root" \in marker.newParts
        /\ marker.phase = "Staging" =>
              \A p \in Part : chunk[marker.new][p] # None => p \in marker.newParts
        /\ marker.phase = "Committing" =>
              /\ all_new_exist(chunk, marker)
              /\ \A p \in Part : chunk[marker.old][p] # None => p \in marker.oldParts

\* The session's catalog is the one under its key, and no marker concerns that key
\* unless a rekey is under way.
OwnOK ==
    /\ Loaded /\ pc \notin {"clean", "done"} =>
          sess.mem = IF chunk[sess.key]["root"] = None THEN Empty ELSE chunk[sess.key]["root"]
    /\ pc \in {"idle", "rekey", "open"} \/ (pc = "recover" /\ back = "rekey") =>
          MarkerFor(sess.key) = None
    /\ pc \in {"undo", "finish"} => back = "open" /\ marker = tx /\ sess.key \in {tx.old, tx.new}
    /\ pc = "undo" => tx.phase = "Staging"
          /\ \A p \in Part \ todo : chunk[tx.new][p] = None
    /\ pc = "finish" => tx.phase = "Committing"
          /\ \A p \in Part \ todo : chunk[tx.old][p] = None
    /\ pc \in {"copy", "rollback"} =>
          /\ marker = tx /\ tx.phase = "Staging"
          /\ tx.oldParts = {p \in Part : chunk[tx.old][p] # None}
    /\ pc = "rollback" => \A p \in Part \ todo : chunk[tx.new][p] = None
    /\ pc = "clean" =>
          /\ marker = [tx EXCEPT !.phase = "Committing"] /\ sess.key = tx.new
          /\ \A p \in Part \ todo : chunk[tx.old][p] = None
    /\ pc \in {"clean", "done"} => sess.mem = chunk[sess.key]["root"]
    /\ pc = "done" => MarkerFor(sess.key) = None

OverCrashes == ~ioErrors /\ ~replaced => AckedOK /\ KeysOK /\ MarkerOK /\ OwnOK

Inv == SwitchInv /\ OverCrashes

(***************************************************************************)
(* Facts about the operators of the model.                                  *)
(***************************************************************************)
\* The contents of the storage.
Storage == [Key -> [Part -> Content \cup {None}]]

\* The storage with one chunk written or deleted.
LEMMA SetChunk ==
    ASSUME NEW c \in Storage, NEW k \in Key, NEW p \in Part, NEW x \in Content \cup {None}
    PROVE  /\ [c EXCEPT ![k][p] = x] \in Storage
           /\ \A l \in Key, q \in Part :
                [c EXCEPT ![k][p] = x][l][q] = IF l = k /\ q = p THEN x ELSE c[l][q]
           /\ \A l \in Key \ {k} : [c EXCEPT ![k][p] = x][l] = c[l]
BY DEF Storage

\* The parts of a transaction.
LEMMA TransactionParts ==
    ASSUME NEW t \in Transaction
    PROVE  /\ t.old \in Key /\ t.new \in Key /\ t.oldParts \subseteq Part /\ t.newParts \subseteq Part
           /\ t.phase \in {"Staging", "Committing"}
BY DEF Transaction

\* The parts of a session.
LEMMA SessionParts ==
    ASSUME NEW s \in [key : Key, mem : Content]
    PROVE  s.key \in Key /\ s.mem \in Content /\ s.mem.files \subseteq Blob
BY DEF Content

\* Root and shard are parts.
LEMMA CatalogParts == "root" \in Part /\ "shard" \in Part /\ Catalog \subseteq Part
BY DEF Part, Catalog

\* The contents of an empty vault.
LEMMA EmptyContent == Empty \in Content /\ Empty # None
BY NoneAssumption, BoundAssumption DEF Empty, Content

\* A manifest is a transaction.
LEMMA ManifestType ==
    ASSUME Typed, sess # None, NEW n \in Key
    PROVE  Manifest(n) \in Transaction
BY SessionParts DEF Typed, TypeOK, Manifest, Transaction, Part, Catalog

\* The storage after one chunk has been deleted.
LEMMA DeleteChunk ==
    ASSUME Typed, NEW k \in Key, NEW p \in Part, Delete(k, p)
    PROVE  /\ chunk' \in Storage
           /\ \A l \in Key, q \in Part : chunk'[l][q] = IF l = k /\ q = p THEN None ELSE chunk[l][q]
           /\ \A l \in Key \ {k} : chunk'[l] = chunk[l]
<1>1. chunk \in Storage
    BY DEF Typed, TypeOK, Storage
<1> QED BY <1>1 DEF Delete, Storage

\* Deleting chunks does not make the session's catalog wrong.
LEMMA LessChunks ==
    ASSUME Typed, SessionOK, UNCHANGED sess, Loaded' => Loaded,
           \A l \in Key, q \in Part : chunk'[l][q] \in {None, chunk[l][q]}
    PROVE  SessionOK'
<1>1. Loaded => sess.key \in Key
    BY SessionParts DEF Typed, TypeOK, Loaded, Recovering, Rekeying
<1> QED BY <1>1, CatalogParts DEF SessionOK

\* What is on disk is sound.
DiskOK == AckedOK /\ KeysOK /\ MarkerOK

\* What is on disk stays as sound as it was while nothing is written.
LEMMA DiskUnchanged ==
    ASSUME DiskOK, UNCHANGED <<chunk, marker, acked, rev>>
    PROVE  DiskOK'
BY DEF DiskOK, AckedOK, KeysOK, MarkerOK, GivenUp, Vacant, Blank, Holds, all_new_exist

\* A key holds one vault at most, and none if it has nothing or no files.
LEMMA HoldsOne ==
    ASSUME AckedOK, NEW k \in Key, NEW v \in Revision, Holds(k, v)
    PROVE  /\ ~Vacant(k) /\ ~Blank(k)
           /\ \A w \in Revision : Holds(k, w) => w = v
<1>1. chunk[k]["root"] # None /\ chunk[k]["root"].vault = v
    BY DEF AckedOK, Holds
<1>2. v # 0
    BY DEF Revision
<1> QED BY <1>1, <1>2, CatalogParts DEF AckedOK, Holds, Vacant, Blank, Empty, Catalog

\* A key that is given up may lose its chunks.
LEMMA DeleteGivenUp ==
    ASSUME Typed, DiskOK, NEW k \in Key, NEW p \in Part, GivenUp(k), Delete(k, p),
           UNCHANGED <<marker, acked, rev>>
    PROVE  DiskOK'
<1>2. /\ chunk' \in Storage
      /\ \A l \in Key, q \in Part : chunk'[l][q] = IF l = k /\ q = p THEN None ELSE chunk[l][q]
      /\ \A l \in Key \ {k} : chunk'[l] = chunk[l]
    BY DeleteChunk
<1>3. AckedOK'
    BY DEF DiskOK, AckedOK
<1>4. \A l \in Key : GivenUp(l)' = GivenUp(l)
    BY DEF GivenUp
<1>5. KeysOK'
    BY <1>2, <1>4 DEF DiskOK, KeysOK, Vacant, Blank, Holds
<1>6. MarkerOK'
    <2>1. marker \in Transaction
        BY DEF GivenUp, Typed, TypeOK
    <2> QED BY <1>2, <2>1, TransactionParts
            DEF DiskOK, MarkerOK, GivenUp, all_new_exist
<1> QED BY <1>2, <1>3, <1>5, <1>6 DEF DiskOK

\* A key that was given up and has no chunks left is a key like any other.
LEMMA ForgetGivenUp ==
    ASSUME Typed, DiskOK, \A k \in Key : GivenUp(k) => Vacant(k),
           marker' = None, UNCHANGED <<chunk, acked, rev>>
    PROVE  DiskOK'
<1>1. AckedOK' /\ MarkerOK'
    BY DEF DiskOK, AckedOK, MarkerOK
<1>2. \A k \in Key : ~GivenUp(k)' /\ (Vacant(k)' = Vacant(k)) /\ (Blank(k)' = Blank(k))
    BY DEF GivenUp, Vacant, Blank
<1>3. \A k \in Key, v \in Revision : Holds(k, v)' = Holds(k, v)
    BY DEF Holds
<1>4. \A k \in Key, v \in Revision : Holds(k, v) => ~Vacant(k)
    BY CatalogParts DEF Holds, Vacant
<1>5. KeysOK'
    BY <1>2, <1>3, <1>4 DEF DiskOK, KeysOK
<1> QED BY <1>1, <1>5 DEF DiskOK

(***************************************************************************)
(* Each action preserves the invariant.                                     *)
(***************************************************************************)
\* The invariant holds on a storage without vaults.
LEMMA InitInv == Init => Inv
<1> SUFFICES ASSUME Init PROVE Inv
    OBVIOUS
<1>0. ioErrors \in BOOLEAN /\ replaced \in BOOLEAN
    BY IoErrorsAssumption DEF Init
<1>1. Typed
    <2>1. /\ chunk \in [Key -> [Part -> Content \cup {None}]]
          /\ acked \in [Revision -> [Part -> Content \cup {None}]]
        BY DEF Init
    <2>2. rev \in 0..MaxRevision
        BY BoundAssumption DEF Init
    <2> QED BY <1>0, <2>1, <2>2 DEF Init, Typed, TypeOK, Labels, Recovering, Rekeying
<1>2. SessionOK /\ CopyOK
    BY DEF Init, SessionOK, CopyOK, Loaded, Recovering, Rekeying
<1>3. AckedOK /\ MarkerOK
    BY CatalogParts DEF Init, AckedOK, MarkerOK
<1>4. KeysOK
    BY CatalogParts DEF Init, KeysOK, Vacant, Holds
<1>5. OwnOK
    BY DEF Init, OwnOK, Loaded, Recovering, Rekeying
<1> QED BY <1>1, <1>2, <1>3, <1>4, <1>5 DEF Inv, SwitchInv, OverCrashes

\* An unlock starts with the recovery.
LEMMA UnlockInv ==
    ASSUME NEW k \in Key, Inv, Unlock(k)
    PROVE  Inv'
<1> USE NoneAssumption, CatalogParts
<1>1. Typed'
    BY TransactionParts, SessionParts, EmptyContent DEF Unlock, disk, Inv, SwitchInv,
        Typed, TypeOK, Labels, Recovering, Rekeying
<1>2. SessionOK' /\ CopyOK'
    BY TransactionParts, SessionParts DEF Unlock, disk, Inv, SwitchInv, Typed,
        TypeOK, SessionOK, CopyOK, Copied, Loaded, Labels, Recovering, Rekeying,
        Transaction
<1>3. ASSUME ~ioErrors', ~replaced' PROVE DiskOK'
    BY <1>3, DiskUnchanged, DeleteGivenUp, ForgetGivenUp, TransactionParts DEF
        Unlock, disk, Inv, SwitchInv, Typed, TypeOK, OverCrashes, DiskOK, MarkerOK,
        OwnOK, GivenUp
<1>4. ASSUME ~ioErrors', ~replaced' PROVE OwnOK'
    BY <1>4, TransactionParts, SessionParts DEF Unlock, disk, Inv, SwitchInv, Typed,
        TypeOK, OverCrashes, MarkerOK, OwnOK, SessionOK, CopyOK, MarkerFor, Loaded,
        Recovering, Rekeying
<1> QED BY <1>1, <1>2, <1>3, <1>4 DEF Inv, SwitchInv, OverCrashes, DiskOK

\* The marker says what is given up.
LEMMA RecoverInv ==
    ASSUME Inv, Recover
    PROVE  Inv'
<1> USE NoneAssumption, CatalogParts
<1>1. Typed'
    BY TransactionParts, SessionParts, EmptyContent DEF Recover, Failed, Abort,
        MarkerFor, disk, Inv, SwitchInv, Typed, TypeOK, Labels, Recovering, Rekeying
<1>2. SessionOK' /\ CopyOK'
    BY TransactionParts, SessionParts DEF Recover, Failed, Abort, MarkerFor, disk,
        Inv, SwitchInv, Typed, TypeOK, SessionOK, CopyOK, Copied, Loaded, Labels,
        Recovering, Rekeying, Transaction
<1>3. ASSUME ~ioErrors', ~replaced' PROVE DiskOK'
    BY <1>3, DiskUnchanged, DeleteGivenUp, ForgetGivenUp, TransactionParts DEF
        Recover, Failed, Abort, MarkerFor, disk, Inv, SwitchInv, Typed, TypeOK,
        OverCrashes, DiskOK, MarkerOK, OwnOK, GivenUp
<1>4. ASSUME ~ioErrors', ~replaced' PROVE OwnOK'
    BY <1>4, TransactionParts, SessionParts DEF Recover, Failed, Abort, MarkerFor,
        disk, Inv, SwitchInv, Typed, TypeOK, OverCrashes, MarkerOK, OwnOK, SessionOK,
        CopyOK, MarkerFor, Loaded, Recovering, Rekeying
<1> QED BY <1>1, <1>2, <1>3, <1>4 DEF Inv, SwitchInv, OverCrashes, DiskOK

\* The new key has been given up.
LEMMA UndoInv ==
    ASSUME NEW p \in Part, Inv, Undo(p)
    PROVE  Inv'
<1>0. tx \in Transaction /\ tx.new \in Key /\ tx.old \in Key
    BY TransactionParts DEF Undo, Inv, SwitchInv, Typed, TypeOK
<1>a. chunk' \in Storage /\ \A l \in Key, q \in Part : chunk'[l][q] \in {None, chunk[l][q]}
    BY <1>0, DeleteChunk DEF Undo, Inv, SwitchInv, Typed, TypeOK, Storage
<1>1. Typed'
    BY <1>a DEF Undo, Inv, SwitchInv, Typed, TypeOK, Storage
<1>2. SessionOK' /\ CopyOK'
    BY <1>a, LessChunks DEF Undo, Inv, SwitchInv, CopyOK, Loaded
<1>3. ASSUME ~ioErrors', ~replaced' PROVE DiskOK' /\ OwnOK'
    <2>1. /\ DiskOK /\ OwnOK /\ Delete(tx.new, p) /\ pc = "undo" /\ p \in todo
          /\ marker = tx /\ tx.phase = "Staging" /\ todo' = todo \ {p}
          /\ UNCHANGED <<marker, sess, tx, rev, acked, back, pc>>
        BY <1>3 DEF Undo, Inv, OverCrashes, DiskOK, OwnOK
    <2>2. GivenUp(tx.new)
        BY <1>0, <2>1, NoneAssumption DEF GivenUp
    <2>3. DiskOK'
        BY <1>0, <2>1, <2>2, DeleteGivenUp DEF Inv, SwitchInv
    <2>4. OwnOK'
        BY <1>0, <2>1, DeleteChunk DEF OwnOK, Loaded, Recovering, Rekeying, Inv, SwitchInv
    <2> QED BY <2>3, <2>4
<1> QED BY <1>1, <1>2, <1>3 DEF Inv, SwitchInv, OverCrashes, DiskOK

\* The old key has been given up.
LEMMA FinishOldInv ==
    ASSUME NEW p \in Part, Inv, FinishOld(p)
    PROVE  Inv'
<1>0. tx \in Transaction /\ tx.new \in Key /\ tx.old \in Key
    BY TransactionParts DEF FinishOld, Inv, SwitchInv, Typed, TypeOK
<1>a. chunk' \in Storage /\ \A l \in Key, q \in Part : chunk'[l][q] \in {None, chunk[l][q]}
    BY <1>0, DeleteChunk DEF FinishOld, Inv, SwitchInv
<1>1. Typed'
    BY <1>a DEF FinishOld, Inv, SwitchInv, Typed, TypeOK, Storage
<1>2. SessionOK' /\ CopyOK'
    BY <1>a, LessChunks DEF FinishOld, Inv, SwitchInv, CopyOK, Loaded
<1>3. ASSUME ~ioErrors', ~replaced' PROVE DiskOK' /\ OwnOK'
    <2>1. /\ DiskOK /\ OwnOK /\ Delete(tx.old, p) /\ pc = "finish" /\ p \in todo
          /\ marker = tx /\ tx.phase = "Committing" /\ todo' = todo \ {p}
          /\ UNCHANGED <<marker, sess, tx, rev, acked, back, pc>>
        BY <1>3 DEF FinishOld, Inv, OverCrashes, DiskOK, OwnOK
    <2>2. GivenUp(tx.old)
        BY <1>0, <2>1, NoneAssumption DEF GivenUp
    <2>3. DiskOK'
        BY <1>0, <2>1, <2>2, DeleteGivenUp DEF Inv, SwitchInv
    <2>4. OwnOK'
        BY <1>0, <2>1, DeleteChunk DEF OwnOK, Loaded, Recovering, Rekeying, Inv, SwitchInv
    <2> QED BY <2>3, <2>4
<1> QED BY <1>1, <1>2, <1>3 DEF Inv, SwitchInv, OverCrashes, DiskOK

\* Nothing is left under the key that was given up.
LEMMA ForgetInv ==
    ASSUME Inv, Forget
    PROVE  Inv'
<1> USE NoneAssumption, CatalogParts
<1>1. Typed'
    BY DEF Forget, Inv, SwitchInv, Typed, TypeOK, Labels, Recovering, Rekeying
<1>2. SessionOK' /\ CopyOK'
    BY DEF Forget, Inv, SwitchInv, Typed, TypeOK, SessionOK, CopyOK, Loaded,
        Recovering, Rekeying
<1>3. ASSUME ~ioErrors', ~replaced' PROVE DiskOK'
    <2>1. DiskOK /\ OwnOK /\ marker' = None /\ UNCHANGED <<chunk, acked, rev>>
        BY <1>3 DEF Forget, Inv, OverCrashes, DiskOK
    <2>2. \A k \in Key : GivenUp(k) => Vacant(k)
        BY <2>1 DEF Forget, OwnOK, GivenUp, Vacant
    <2> QED BY <2>1, <2>2, ForgetGivenUp DEF Inv, SwitchInv
<1>4. ASSUME ~ioErrors', ~replaced' PROVE OwnOK'
    BY <1>4 DEF Forget, Inv, SwitchInv, Typed, TypeOK, OverCrashes, OwnOK, MarkerFor,
        Loaded, Recovering, Rekeying
<1> QED BY <1>1, <1>2, <1>3, <1>4 DEF Inv, SwitchInv, OverCrashes, DiskOK

\* The catalog under the key is the one of the session.
LEMMA OpenInv ==
    ASSUME Inv, Open
    PROVE  Inv'
<1> USE NoneAssumption, CatalogParts
<1>0. /\ sess \in [key : Key, mem : Content] /\ sess.key \in Key /\ pc = "open" /\ back = "open"
      /\ chunk[sess.key]["root"] \in Content \cup {None}
    BY SessionParts DEF Open, Inv, SwitchInv, Typed, TypeOK
<1>a. \/ pc' = "locked" /\ sess' = None
      \/ /\ pc' = "idle" /\ sess' \in [key : Key, mem : Content] /\ sess'.key = sess.key
         /\ sess'.mem = IF chunk[sess.key]["root"] = None THEN Empty ELSE chunk[sess.key]["root"]
         /\ chunk[sess.key]["root"] # None => chunk[sess.key]["shard"] = chunk[sess.key]["root"]
    BY <1>0, EmptyContent DEF Open, Failed, Abort, Return
<1>b. /\ UNCHANGED <<chunk, marker, rev, acked, back, ioErrors, replaced>>
      /\ tx' = None /\ todo' = {}
    BY DEF Open, Failed, Return, disk
<1>1. Typed'
    BY <1>0, <1>a, <1>b DEF Inv, SwitchInv, Typed, TypeOK, Labels, Rekeying
<1>2. SessionOK' /\ CopyOK'
    BY <1>a, <1>b DEF SessionOK, CopyOK, Loaded, Recovering, Rekeying
<1>3. ASSUME ~ioErrors', ~replaced' PROVE DiskOK'
    BY <1>3, <1>b, DiskUnchanged DEF Inv, OverCrashes, DiskOK
<1>4. ASSUME ~ioErrors', ~replaced' PROVE OwnOK'
    BY <1>4, <1>0, <1>a, <1>b DEF Inv, OverCrashes, OwnOK, MarkerFor, Loaded, Recovering, Rekeying
<1> QED BY <1>1, <1>2, <1>3, <1>4 DEF Inv, SwitchInv, OverCrashes, DiskOK

\* The session's vault goes on under its key.
LEMMA PutInv ==
    ASSUME NEW b \in Blob, Inv, Put(b)
    PROVE  Inv'
<1> USE CatalogParts
<1> DEFINE written == Catalog \cup {b}
<1>k. PICK k : k = sess.key
    OBVIOUS
<1>v. PICK v : v = IF sess.mem = Empty THEN rev + 1 ELSE sess.mem.vault
    OBVIOUS
<1>n. PICK new : new = [vault |-> v, rev |-> rev + 1, files |-> sess.mem.files \cup {b}]
    OBVIOUS
<1>0. /\ Typed /\ sess \in [key : Key, mem : Content] /\ k \in Key
      /\ sess.mem \in Content /\ sess.mem.files \subseteq Blob
      /\ chunk \in Storage /\ acked \in [Revision -> [Part -> Content \cup {None}]]
    BY <1>k, SessionParts DEF Put, Inv, SwitchInv, Typed, TypeOK, Storage
<1>a. /\ pc = "idle" /\ rev < MaxRevision /\ rev' = rev + 1
      /\ sess' = [sess EXCEPT !.mem = new]
      /\ chunk' = [chunk EXCEPT ![k] = [p \in Part |-> IF p \in written THEN new ELSE @[p]]]
      /\ acked' = [acked EXCEPT ![v] = [p \in Part |-> IF p \in written THEN new ELSE @[p]]]
      /\ UNCHANGED <<marker, tx, todo, back, pc, ioErrors, replaced>>
    BY <1>k, <1>v, <1>n DEF Put
<1>b. rev \in Nat /\ rev + 1 \in Revision
    BY <1>0, <1>a, BoundAssumption DEF Typed, TypeOK, Revision
<1>c. new \in Content /\ new # None /\ new # Empty /\ v \in 0..MaxRevision
    <2>1. v \in 0..MaxRevision
        BY <1>0, <1>b, <1>v DEF Content, Revision
    <2>2. rev + 1 \in 0..MaxRevision /\ sess.mem.files \cup {b} \subseteq Blob
        BY <1>0, <1>b DEF Revision
    <2>3. new \in Content
        BY <2>1, <2>2, <1>n DEF Content
    <2> QED BY <2>1, <2>3, <1>b, <1>n, NoneAssumption DEF Empty
<1>d. /\ sess'.key = k /\ sess'.mem = new /\ sess' \in [key : Key, mem : Content]
    BY <1>0, <1>a, <1>c, <1>k
<1>e. /\ \A l \in Key \ {k} : chunk'[l] = chunk[l]
      /\ \A p \in Part : chunk'[k][p] = IF p \in written THEN new ELSE chunk[k][p]
      /\ chunk' \in Storage
    BY <1>0, <1>a, <1>c DEF Storage
<1>f. acked' \in [Revision -> [Part -> Content \cup {None}]]
    BY <1>0, <1>a, <1>c
<1> HIDE DEF written
<1>1. Typed'
    <2>1. rev' \in 0..MaxRevision
        BY <1>a, <1>b DEF Revision
    <2> QED BY <1>0, <1>a, <1>d, <1>e, <1>f, <2>1, NoneAssumption
            DEF Typed, TypeOK, Storage, Rekeying
<1>2. SessionOK' /\ CopyOK'
    BY <1>a, <1>d, <1>e DEF SessionOK, CopyOK, written, Catalog
<1>3. ASSUME ~ioErrors', ~replaced' PROVE DiskOK' /\ OwnOK'
    <2>1. AckedOK /\ KeysOK /\ MarkerOK /\ OwnOK
        BY <1>3, <1>a DEF Inv, OverCrashes
    <2>2. /\ MarkerFor(k) = None
          /\ sess.mem = IF chunk[k]["root"] = None THEN Empty ELSE chunk[k]["root"]
        BY <1>a, <2>1, <1>k DEF OwnOK, Loaded
    <2>3. marker # None => marker \in Transaction /\ k # marker.old /\ k # marker.new
        BY <1>0, <2>2 DEF MarkerFor, Typed, TypeOK
    <2>4. ~GivenUp(k) /\ \A l \in Key : GivenUp(l)' = GivenUp(l)
        BY <1>a, <2>3 DEF GivenUp
    \* The vault is new, or the one under the key.
    <2>5. /\ v \in Revision
          /\ \/ v = rev + 1 /\ acked[v]["root"] = None /\ (Vacant(k) \/ Blank(k))
             \/ Holds(k, v)
          /\ \A p \in Part \ written : chunk[k][p] = acked[v][p]
          /\ new.files = {c \in Blob : c = b \/ acked[v][c] # None}
        <3>1. CASE Vacant(k) \/ Blank(k)
            <4>1. sess.mem = Empty
                BY <3>1, <2>2 DEF Vacant, Blank, Catalog
            <4>2. v = rev + 1 /\ v \in Revision /\ new.files = {b}
                BY <4>1, <1>b, <1>v, <1>n DEF Empty
            <4>3. acked[v]["root"] = None
                BY <4>2, <1>b, <2>1 DEF AckedOK
            <4>4. \A p \in Part : acked[v][p] = None
                BY <4>2, <4>3, <2>1 DEF AckedOK
            <4>5. \A p \in Part \ written : chunk[k][p] = None
                BY <3>1 DEF Vacant, Blank, written
            <4>6. Blob \subseteq Part
                BY DEF Part
            <4> QED BY <3>1, <4>2, <4>3, <4>4, <4>5, <4>6
        <3>2. CASE \E w \in Revision : Holds(k, w)
            <4>1. PICK w \in Revision : Holds(k, w)
                BY <3>2
            <4>2. /\ sess.mem = acked[w]["root"] /\ sess.mem.vault = w
                  /\ sess.mem.files = {c \in Blob : acked[w][c] # None} /\ chunk[k] = acked[w]
                BY <4>1, <2>1, <2>2 DEF Holds, AckedOK
            <4>3. v = w
                BY <4>2, <1>v DEF Empty, Revision
            <4>4. new.files = sess.mem.files \cup {b}
                BY <1>n
            <4> QED BY <4>1, <4>2, <4>3, <4>4
        <3> QED BY <3>1, <3>2, <1>0, <2>1, <2>4 DEF KeysOK
    <2>6. /\ \A u \in Revision \ {v} : acked'[u] = acked[u]
          /\ \A p \in Part : acked'[v][p] = IF p \in written THEN new ELSE acked[v][p]
        BY <1>0, <1>a, <2>5
    <2>7. chunk'[k] = acked'[v] /\ acked'[v]["root"] = new /\ acked'[v]["shard"] = new
        <3>1. chunk'[k] \in [Part -> Content \cup {None}]
            BY <1>0, <1>e DEF Storage
        <3>2. acked'[v] \in [Part -> Content \cup {None}]
            BY <2>5, <1>f
        <3>3. \A p \in Part : chunk'[k][p] = acked'[v][p]
            BY <1>e, <2>5, <2>6
        <3>4. chunk'[k] = acked'[v]
            BY <3>1, <3>2, <3>3
        <3> QED BY <3>4, <2>6 DEF written, Catalog
    <2>8. Holds(k, v)' /\ \A l \in Key, u \in Revision : Holds(l, u)' <=>
              acked'[u]["root"] # None /\ chunk'[l] = acked'[u]
        BY <1>c, <1>a, <2>7 DEF Holds
    <2>9. AckedOK'
        <3>1. ASSUME NEW u \in Revision \ {v}
              PROVE  /\ acked'[u]["root"] = None => \A p \in Part : acked'[u][p] = None
                     /\ acked'[u]["root"] # None =>
                          /\ u <= rev' /\ acked'[u]["root"].vault = u
                          /\ acked'[u]["shard"] = acked'[u]["root"]
                          /\ acked'[u]["root"].files = {c \in Blob : acked'[u][c] # None}
            <4>1. acked'[u] = acked[u] /\ u \in Revision
                BY <2>6
            <4>2. u <= rev => u <= rev'
                BY <1>a, <1>b DEF Revision
            <4> QED BY <4>1, <4>2, <2>1 DEF AckedOK
        <3>2. /\ v <= rev' /\ new.vault = v
            <4>1. v <= rev + 1
                BY <2>1, <2>5, <1>b DEF AckedOK, Holds, Revision
            <4> QED BY <4>1, <1>a, <1>n
        <3>3. new.files = {c \in Blob : acked'[v][c] # None}
            <4>1. Blob \subseteq Part /\ Blob \cap Catalog = {}
                BY BlobAssumption DEF Part
            <4>2. \A c \in Blob : acked'[v][c] # None <=> c = b \/ acked[v][c] # None
                BY <4>1, <1>c, <2>6 DEF written
            <4> QED BY <4>2, <2>5
        <3> QED BY <3>1, <3>2, <3>3, <1>c, <2>7 DEF AckedOK
    \* Another key does not hold the vault, and the key does not hold another vault.
    <2>10. \A l \in Key \ {k} : ~GivenUp(l) => ~Holds(l, v)
        BY <1>0, <2>1, <2>4, <2>5 DEF KeysOK, Holds
    <2>11. \A u \in Revision \ {v} : ~Holds(k, u)
        <3>1. CASE Vacant(k) \/ Blank(k)
            BY <3>1, <1>0, <2>1, HoldsOne
        <3>2. CASE Holds(k, v)
            BY <3>2, <2>1, <2>5, <1>0, HoldsOne
        <3> QED BY <3>1, <3>2, <2>5
    <2>12. \A l \in Key \ {k}, u \in Revision \ {v} : Holds(l, u)' = Holds(l, u)
        BY <1>e, <2>6, <2>8 DEF Holds
    <2>13. \A l \in Key \ {k} : Vacant(l)' = Vacant(l) /\ Blank(l)' = Blank(l)
        BY <1>e DEF Vacant, Blank
    <2>14. ASSUME NEW l \in Key \ {k}, ~GivenUp(l) PROVE ~Holds(l, v)'
        <3> SUFFICES ASSUME Holds(l, v)' PROVE FALSE
            OBVIOUS
        <3>1. chunk[l]["root"] = new /\ new.vault = v
            BY <1>e, <2>5, <2>7, <2>8, <1>n
        <3>2. \A w \in Revision : Holds(l, w) => w = v
            BY <3>1, <2>1 DEF Holds, AckedOK
        <3>3. ~Vacant(l) /\ ~Blank(l)
            BY <3>1, <1>c DEF Vacant, Blank, Catalog
        <3> QED BY <3>2, <3>3, <2>1, <2>10, <2>14 DEF KeysOK
    <2>15. KeysOK'
        <3>1. ASSUME NEW l \in Key
              PROVE  (GivenUp(l) \/ Vacant(l) \/ Blank(l) \/ \E u \in Revision : Holds(l, u))'
            BY <2>1, <2>4, <2>5, <2>8, <2>10, <2>12, <2>13 DEF KeysOK
        <3>2. ASSUME NEW u \in Revision, acked'[u]["root"] # None
              PROVE  \E l \in Key : ~GivenUp(l)' /\ Holds(l, u)'
            <4>1. CASE u = v
                BY <4>1, <1>0, <2>4, <2>8
            <4>2. CASE u # v
                BY <4>2, <3>2, <2>1, <2>4, <2>6, <2>11, <2>12 DEF KeysOK
            <4> QED BY <4>1, <4>2
        <3>3. ASSUME NEW u \in Revision, NEW l \in Key, NEW m \in Key,
                     Holds(l, u)', Holds(m, u)', ~GivenUp(l)', ~GivenUp(m)'
              PROVE  l = m
            <4>1. CASE u = v
                BY <4>1, <3>3, <2>4, <2>14
            <4>2. CASE u # v
                <5>1. ~Holds(k, u)'
                    BY <4>2, <1>0, <2>5, <2>8, <2>9, HoldsOne DEF AckedOK, Holds
                <5> QED BY <4>2, <5>1, <3>3, <2>1, <2>4, <2>12 DEF KeysOK
            <4> QED BY <4>1, <4>2
        <3> QED BY <3>1, <3>2, <3>3 DEF KeysOK
    <2>16. MarkerOK'
        <3>1. marker # None =>
                 /\ chunk'[marker.old] = chunk[marker.old] /\ chunk'[marker.new] = chunk[marker.new]
            BY <1>e, <2>3, TransactionParts
        <3> QED BY <3>1, <2>1, <1>a DEF MarkerOK, all_new_exist
    <2>17. OwnOK'
        <3>1. MarkerFor(k)' = None
            BY <1>a, <1>d, <2>2, <1>k DEF MarkerFor
        <3>2. chunk'[k]["root"] = new
            BY <1>e DEF written, Catalog
        <3> QED BY <1>a, <1>c, <1>d, <3>1, <3>2 DEF OwnOK, MarkerFor, Loaded, Recovering, Rekeying
    <2> QED BY <2>9, <2>15, <2>16, <2>17 DEF DiskOK
<1> QED BY <1>1, <1>2, <1>3 DEF Inv, SwitchInv, OverCrashes, DiskOK

\* A rekey starts with the recovery.
LEMMA StartRekeyInv ==
    ASSUME Inv, StartRekey
    PROVE  Inv'
<1> USE NoneAssumption, CatalogParts
<1>1. Typed'
    BY TransactionParts, SessionParts, EmptyContent DEF StartRekey, disk, Inv,
        SwitchInv, Typed, TypeOK, Labels, Recovering, Rekeying
<1>2. SessionOK' /\ CopyOK'
    BY TransactionParts, SessionParts DEF StartRekey, disk, Inv, SwitchInv, Typed,
        TypeOK, SessionOK, CopyOK, Copied, Loaded, Labels, Recovering, Rekeying,
        Transaction
<1>3. ASSUME ~ioErrors', ~replaced' PROVE DiskOK'
    BY <1>3, DiskUnchanged, DeleteGivenUp, ForgetGivenUp, TransactionParts DEF
        StartRekey, disk, Inv, SwitchInv, Typed, TypeOK, OverCrashes, DiskOK,
        MarkerOK, OwnOK, GivenUp
<1>4. ASSUME ~ioErrors', ~replaced' PROVE OwnOK'
    BY <1>4, TransactionParts, SessionParts DEF StartRekey, disk, Inv, SwitchInv,
        Typed, TypeOK, OverCrashes, MarkerOK, OwnOK, SessionOK, CopyOK, MarkerFor,
        Loaded, Recovering, Rekeying
<1> QED BY <1>1, <1>2, <1>3, <1>4 DEF Inv, SwitchInv, OverCrashes, DiskOK

\* The target of a rekey is given up until all is copied.
LEMMA WriteStagingInv ==
    ASSUME NEW n \in Key, Inv, WriteStaging(n)
    PROVE  Inv'
<1> USE CatalogParts
<1> DEFINE k == sess.key
           m == Manifest(n)
           blobs == {b \in sess.mem.files : chunk[k][b] # None}
<1>0. /\ sess \in [key : Key, mem : Content] /\ k \in Key /\ sess.mem.files \subseteq Blob
      /\ chunk \in Storage
    BY SessionParts DEF WriteStaging, Inv, SwitchInv, Typed, TypeOK, Storage
<1>m. /\ m \in Transaction /\ m # None
      /\ m.phase = "Staging" /\ m.old = k /\ m.new = n /\ m.newParts = blobs \cup Catalog
      /\ m.oldParts = blobs \cup {p \in Catalog : /\ chunk[k]["root"] # None
                                                 /\ chunk[k][p] # None}
    <2>1. m \in Transaction
        BY <1>0, ManifestType, NoneAssumption DEF Inv, SwitchInv
    <2> QED BY <2>1, NoneAssumption DEF Manifest
<1>a. /\ marker' = m /\ tx' = m /\ todo' = m.newParts /\ pc = "rekey" /\ pc' = "copy"
      /\ n # k /\ chunk[n]["root"] = None /\ replaced' = (replaced \/ marker # None)
      /\ UNCHANGED <<chunk, sess, rev, acked, back, ioErrors>>
    BY DEF WriteStaging
<1> HIDE DEF m
<1>1. Typed'
    <2>1. TypeOK /\ sess # None
        BY <1>a DEF Inv, SwitchInv, Typed
    <2>2. todo' \subseteq Part
        BY <1>a, <1>m, TransactionParts
    <2> QED BY <1>a, <1>m, <2>1, <2>2 DEF Typed, TypeOK, Labels, Rekeying
<1>2. SessionOK' /\ CopyOK'
    <2>1. SessionOK
        BY DEF Inv, SwitchInv
    <2>2. SessionOK'
        BY <2>1, <1>a DEF SessionOK, Loaded, Recovering, Rekeying
    <2> QED BY <2>2, <1>a, <1>m DEF CopyOK
<1>3. ASSUME ~ioErrors', ~replaced' PROVE DiskOK' /\ OwnOK'
    <2>1. marker = None /\ AckedOK /\ KeysOK /\ OwnOK
        BY <1>3, <1>a DEF Inv, OverCrashes
    <2>2. \A l \in Key : ~GivenUp(l) /\ (GivenUp(l)' <=> l = n)
        BY <2>1, <1>a, <1>m DEF GivenUp
    <2>3. \A l \in Key, v \in Revision : Holds(l, v)' = Holds(l, v)
        BY <1>a DEF Holds
    <2>4. \A l \in Key : Vacant(l)' = Vacant(l) /\ Blank(l)' = Blank(l)
        BY <1>a DEF Vacant, Blank
    <2>5. Vacant(n) /\ \A v \in Revision : ~Holds(n, v)
        BY <1>a, <2>1, <2>2, EmptyContent DEF KeysOK, Vacant, Blank, Holds, Catalog
    <2>6. KeysOK'
        BY <1>a, <2>1, <2>2, <2>3, <2>4, <2>5 DEF KeysOK
    <2>7. AckedOK'
        BY <2>1, <1>a DEF AckedOK
    <2>8. MarkerOK'
        BY <1>0, <1>a, <1>m, <2>5 DEF MarkerOK, Vacant, Catalog
    <2>9. sess.mem = IF chunk[k]["root"] = None THEN Empty ELSE chunk[k]["root"]
        BY <1>a, <2>1 DEF OwnOK, Loaded
    <2>10. m.oldParts = {p \in Part : chunk[k][p] # None}
        <3>1. CASE Vacant(k)
            BY <3>1, <1>m, <2>9 DEF Vacant, Empty
        <3>2. CASE Blank(k)
            <4>1. sess.mem.files = {}
                BY <3>2, <2>9, EmptyContent DEF Blank, Empty, Catalog
            <4>2. \A p \in Part : chunk[k][p] # None <=> p \in Catalog
                BY <3>2, EmptyContent DEF Blank
            <4> QED BY <4>1, <4>2, <1>m DEF Catalog
        <3>3. CASE \E v \in Revision : Holds(k, v)
            <4>1. PICK v \in Revision : Holds(k, v)
                BY <3>3
            <4>2. /\ sess.mem = acked[v]["root"] /\ sess.mem.files = {b \in Blob : acked[v][b] # None}
                  /\ acked[v]["shard"] # None /\ acked[v]["root"] # None /\ chunk[k] = acked[v]
                BY <4>1, <2>1, <2>9 DEF Holds, AckedOK
            <4> QED BY <4>2, <1>m DEF Part, Catalog
        <3> QED BY <3>1, <3>2, <3>3, <1>0, <2>1, <2>2 DEF KeysOK
    <2>11. OwnOK'
        BY <1>a, <1>m, <2>9, <2>10 DEF OwnOK, Loaded, Recovering, Rekeying
    <2> QED BY <2>6, <2>7, <2>8, <2>11 DEF DiskOK
<1> QED BY <1>1, <1>2, <1>3 DEF Inv, SwitchInv, OverCrashes, DiskOK

\* Nothing is written.
LEMMA RejectInv ==
    ASSUME NEW n \in Key, Inv, Reject(n)
    PROVE  Inv'
<1> USE NoneAssumption, CatalogParts
<1>1. Typed'
    BY TransactionParts, SessionParts, EmptyContent DEF Reject, Return, disk, Inv,
        SwitchInv, Typed, TypeOK, Labels, Recovering, Rekeying
<1>2. SessionOK' /\ CopyOK'
    BY TransactionParts, SessionParts DEF Reject, Return, disk, Inv, SwitchInv,
        Typed, TypeOK, SessionOK, CopyOK, Copied, Loaded, Labels, Recovering,
        Rekeying, Transaction
<1>3. ASSUME ~ioErrors', ~replaced' PROVE DiskOK'
    BY <1>3, DiskUnchanged, DeleteGivenUp, ForgetGivenUp, TransactionParts DEF
        Reject, Return, disk, Inv, SwitchInv, Typed, TypeOK, OverCrashes, DiskOK,
        MarkerOK, OwnOK, GivenUp
<1>4. ASSUME ~ioErrors', ~replaced' PROVE OwnOK'
    BY <1>4, TransactionParts, SessionParts DEF Reject, Return, disk, Inv, SwitchInv,
        Typed, TypeOK, OverCrashes, MarkerOK, OwnOK, SessionOK, CopyOK, MarkerFor,
        Loaded, Recovering, Rekeying
<1> QED BY <1>1, <1>2, <1>3, <1>4 DEF Inv, SwitchInv, OverCrashes, DiskOK

\* A part is copied to the key given up.
LEMMA CopyPartInv ==
    ASSUME NEW p \in Part, Inv, CopyPart(p)
    PROVE  Inv'
<1> USE CatalogParts
<1> DEFINE x == IF p \in Catalog THEN sess.mem ELSE chunk[tx.old][p]
<1>0. /\ Typed /\ CopyOK /\ tx \in Transaction /\ tx.new \in Key /\ tx.old \in Key
      /\ sess.mem \in Content /\ chunk \in Storage
    BY SessionParts, TransactionParts
    DEF CopyPart, Inv, SwitchInv, Typed, TypeOK, Rekeying, Storage
<1>a. /\ pc = "copy" /\ p \in todo /\ todo' = todo \ {p}
      /\ chunk' = [chunk EXCEPT ![tx.new][p] = x]
      /\ UNCHANGED <<marker, sess, tx, rev, acked, back, pc, ioErrors, replaced>>
    BY DEF CopyPart
<1>b. x \in Content \cup {None}
    BY <1>0 DEF Storage
<1>c. /\ chunk' \in Storage /\ \A l \in Key \ {tx.new} : chunk'[l] = chunk[l]
      /\ \A q \in Part : chunk'[tx.new][q] = IF q = p THEN x ELSE chunk[tx.new][q]
    <2> HIDE DEF x
    <2> QED BY <1>0, <1>a, <1>b DEF Storage
<1>d. /\ tx.old = sess.key /\ tx.new # tx.old /\ todo \subseteq tx.newParts
      /\ chunk'[tx.old] = chunk[tx.old]
    BY <1>0, <1>a, <1>c DEF CopyOK
<1>1. Typed'
    BY <1>0, <1>a, <1>c DEF Typed, TypeOK, Storage
<1>2. SessionOK'
    BY <1>a, <1>d DEF Inv, SwitchInv, SessionOK, Loaded, Recovering, Rekeying
<1>3. CopyOK'
    <2>1. \A q \in tx.newParts \ todo' : chunk'[tx.new][q] = Copied(q)'
        <3> SUFFICES ASSUME NEW q \in tx.newParts \ todo' PROVE chunk'[tx.new][q] = Copied(q)'
            OBVIOUS
        <3>1. Copied(q)' = Copied(q) /\ q \in Part
            BY <1>0, <1>a, <1>d, TransactionParts DEF Copied
        <3>2. q = p \/ chunk[tx.new][q] = Copied(q)
            BY <1>0, <1>a DEF CopyOK
        <3> QED BY <3>1, <3>2, <1>c DEF Copied
    <2> QED BY <2>1, <1>0, <1>a, <1>d DEF CopyOK
<1>4. ASSUME ~ioErrors', ~replaced' PROVE DiskOK' /\ OwnOK'
    <2>1. AckedOK /\ KeysOK /\ MarkerOK /\ OwnOK /\ marker = tx /\ tx.phase = "Staging"
        BY <1>4, <1>a DEF Inv, OverCrashes, OwnOK
    <2>2. \A l \in Key : GivenUp(l)' = GivenUp(l) /\ (GivenUp(l) <=> l = tx.new)
        BY <1>0, <1>a, <2>1, NoneAssumption DEF GivenUp
    <2>3. \A l \in Key \ {tx.new} : /\ Vacant(l)' = Vacant(l) /\ Blank(l)' = Blank(l)
                                    /\ \A v \in Revision : Holds(l, v)' = Holds(l, v)
        BY <1>a, <1>c DEF Vacant, Blank, Holds
    <2>4. KeysOK'
        BY <1>a, <2>1, <2>2, <2>3 DEF KeysOK
    <2>5. AckedOK'
        BY <1>a, <2>1 DEF AckedOK
    <2>6. MarkerOK'
        BY <1>0, <1>a, <1>c, <1>d, <2>1 DEF MarkerOK
    <2>7. OwnOK'
        BY <1>0, <1>a, <1>d, <2>1 DEF OwnOK, Loaded, Recovering, Rekeying
    <2> QED BY <2>4, <2>5, <2>6, <2>7 DEF DiskOK
<1> QED BY <1>1, <1>2, <1>3, <1>4 DEF Inv, SwitchInv, OverCrashes, DiskOK

\* The copy will be deleted.
LEMMA CancelInv ==
    ASSUME Inv, Cancel
    PROVE  Inv'
<1> USE NoneAssumption, CatalogParts
<1>1. Typed'
    BY TransactionParts, SessionParts, EmptyContent DEF Cancel, disk, Inv, SwitchInv,
        Typed, TypeOK, Labels, Recovering, Rekeying
<1>2. SessionOK' /\ CopyOK'
    BY TransactionParts, SessionParts DEF Cancel, disk, Inv, SwitchInv, Typed,
        TypeOK, SessionOK, CopyOK, Copied, Loaded, Labels, Recovering, Rekeying,
        Transaction
<1>3. ASSUME ~ioErrors', ~replaced' PROVE DiskOK'
    BY <1>3, DiskUnchanged, DeleteGivenUp, ForgetGivenUp, TransactionParts DEF
        Cancel, disk, Inv, SwitchInv, Typed, TypeOK, OverCrashes, DiskOK, MarkerOK,
        OwnOK, GivenUp
<1>4. ASSUME ~ioErrors', ~replaced' PROVE OwnOK'
    BY <1>4, TransactionParts, SessionParts DEF Cancel, disk, Inv, SwitchInv, Typed,
        TypeOK, OverCrashes, MarkerOK, OwnOK, SessionOK, CopyOK, MarkerFor, Loaded,
        Recovering, Rekeying
<1> QED BY <1>1, <1>2, <1>3, <1>4 DEF Inv, SwitchInv, OverCrashes, DiskOK

\* The new key has been given up.
LEMMA RollbackInv ==
    ASSUME NEW p \in Part, Inv, Rollback(p)
    PROVE  Inv'
<1>0. tx \in Transaction /\ tx.new \in Key /\ tx.old \in Key
    BY TransactionParts DEF Rollback, Inv, SwitchInv, Typed, TypeOK, Rekeying
<1>a. chunk' \in Storage /\ \A l \in Key, q \in Part : chunk'[l][q] \in {None, chunk[l][q]}
    BY <1>0, DeleteChunk DEF Rollback, Inv, SwitchInv, Typed, TypeOK, Storage
<1>1. Typed'
    BY <1>a DEF Rollback, Inv, SwitchInv, Typed, TypeOK, Storage
<1>2. SessionOK' /\ CopyOK'
    BY <1>a, LessChunks DEF Rollback, Inv, SwitchInv, CopyOK, Loaded
<1>3. ASSUME ~ioErrors', ~replaced' PROVE DiskOK' /\ OwnOK'
    <2>1. /\ DiskOK /\ OwnOK /\ Delete(tx.new, p) /\ pc = "rollback" /\ p \in todo
          /\ marker = tx /\ tx.phase = "Staging" /\ todo' = todo \ {p}
          /\ tx.old = sess.key /\ tx.new # sess.key
          /\ UNCHANGED <<marker, sess, tx, rev, acked, back, pc>>
        BY <1>3 DEF Rollback, Inv, SwitchInv, CopyOK, OverCrashes, DiskOK, OwnOK
    <2>2. GivenUp(tx.new)
        BY <1>0, <2>1, NoneAssumption DEF GivenUp
    <2>3. DiskOK'
        BY <1>0, <2>1, <2>2, DeleteGivenUp DEF Inv, SwitchInv
    <2>4. /\ \A q \in Part : chunk'[tx.new][q] = IF q = p THEN None ELSE chunk[tx.new][q]
          /\ chunk'[tx.old] = chunk[tx.old]
        BY <1>0, <2>1, DeleteChunk DEF Inv, SwitchInv
    <2>5. OwnOK'
        BY <1>0, <2>1, <2>4, CatalogParts DEF OwnOK, Loaded, Recovering, Rekeying
    <2> QED BY <2>3, <2>5
<1> QED BY <1>1, <1>2, <1>3 DEF Inv, SwitchInv, OverCrashes, DiskOK

\* Nothing is left under the new key.
LEMMA RolledBackInv ==
    ASSUME Inv, RolledBack
    PROVE  Inv'
<1> USE NoneAssumption, CatalogParts
<1>1. Typed'
    BY DEF RolledBack, Return, Inv, SwitchInv, Typed, TypeOK, Labels, Recovering,
        Rekeying
<1>2. SessionOK' /\ CopyOK'
    BY DEF RolledBack, Return, Inv, SwitchInv, SessionOK, CopyOK, Loaded, Recovering,
        Rekeying
<1>3. ASSUME ~ioErrors', ~replaced' PROVE DiskOK'
    <2>1. DiskOK /\ OwnOK /\ marker' = None /\ UNCHANGED <<chunk, acked, rev>>
        BY <1>3 DEF RolledBack, Inv, OverCrashes, DiskOK
    <2>2. \A k \in Key : GivenUp(k) => Vacant(k)
        BY <2>1 DEF RolledBack, OwnOK, GivenUp, Vacant
    <2> QED BY <2>1, <2>2, ForgetGivenUp DEF Inv, SwitchInv
<1>4. ASSUME ~ioErrors', ~replaced' PROVE OwnOK'
    BY <1>4 DEF RolledBack, Return, Inv, OverCrashes, OwnOK, MarkerFor, Loaded,
        Recovering, Rekeying
<1> QED BY <1>1, <1>2, <1>3, <1>4 DEF Inv, SwitchInv, OverCrashes, DiskOK

\* From the new key to the old one: what is under them is the same.
LEMMA WriteCommittingInv ==
    ASSUME Inv, WriteCommitting
    PROVE  Inv'
<1> USE CatalogParts
<1> DEFINE o == tx.old
           n == tx.new
<1>0. /\ Typed /\ SessionOK /\ CopyOK /\ tx \in Transaction /\ n \in Key /\ o \in Key
      /\ tx.oldParts \subseteq Part /\ tx.newParts \subseteq Part
      /\ sess \in [key : Key, mem : Content] /\ sess.mem \in Content /\ chunk \in Storage
    BY SessionParts, TransactionParts
    DEF WriteCommitting, Inv, SwitchInv, Typed, TypeOK, Rekeying, Storage
<1>a. /\ pc = "copy" /\ todo = {} /\ todo' = tx.oldParts /\ pc' = "clean"
      /\ marker' = [tx EXCEPT !.phase = "Committing"] /\ sess' = [sess EXCEPT !.key = n]
      /\ UNCHANGED <<chunk, tx, rev, acked, back, ioErrors, replaced>>
    BY DEF WriteCommitting
<1>b. /\ marker' \in Transaction /\ marker' # None /\ marker'.phase = "Committing"
      /\ marker'.old = o /\ marker'.new = n
      /\ marker'.oldParts = tx.oldParts /\ marker'.newParts = tx.newParts
    <2>1. marker' \in Transaction
        BY <1>0, <1>a DEF Transaction
    <2> QED BY <2>1, <1>0, <1>a, NoneAssumption DEF Transaction
<1>c. sess' \in [key : Key, mem : Content] /\ sess' # None /\ sess'.key = n /\ sess'.mem = sess.mem
    <2>1. sess' \in [key : Key, mem : Content]
        BY <1>0, <1>a
    <2> QED BY <2>1, <1>0, <1>a, NoneAssumption
<1>d. /\ o = sess.key /\ n # o
      /\ tx.newParts = Catalog \cup {b \in sess.mem.files : chunk[o][b] # None}
      /\ \A p \in tx.newParts : chunk[n][p] = IF p \in Catalog THEN sess.mem ELSE chunk[o][p]
    BY <1>0, <1>a DEF CopyOK, Copied
<1>1. Typed'
    BY <1>0, <1>a, <1>b, <1>c DEF Typed, TypeOK, Labels, Rekeying
<1>2. SessionOK' /\ CopyOK'
    BY <1>a, <1>c, <1>d DEF SessionOK, CopyOK, Catalog
<1>3. ASSUME ~ioErrors', ~replaced' PROVE DiskOK' /\ OwnOK'
    <2>1. /\ AckedOK /\ KeysOK /\ MarkerOK /\ OwnOK
        BY <1>3, <1>a DEF Inv, OverCrashes
    <2>2. /\ marker = tx /\ tx.phase = "Staging"
          /\ tx.oldParts = {p \in Part : chunk[o][p] # None}
          /\ sess.mem = IF chunk[o]["root"] = None THEN Empty ELSE chunk[o]["root"]
        BY <1>a, <1>d, <2>1 DEF OwnOK, Loaded, Rekeying
    <2>3. \A p \in Part : chunk[n][p] # None => p \in tx.newParts
        BY <1>0, <2>1, <2>2, NoneAssumption DEF MarkerOK
    <2>4. \A l \in Key : (GivenUp(l) <=> l = n) /\ (GivenUp(l)' <=> l = o)
        BY <1>0, <1>b, <2>2, NoneAssumption DEF GivenUp
    <2>5. \A l \in Key : /\ Vacant(l)' = Vacant(l) /\ Blank(l)' = Blank(l)
                         /\ \A v \in Revision : Holds(l, v)' = Holds(l, v)
        BY <1>a DEF Vacant, Blank, Holds
    \* The new key has a copy of what is under the old one.
    <2>6. \/ Blank(n) /\ \A v \in Revision : ~Holds(o, v)
          \/ chunk[n] = chunk[o] /\ \E v \in Revision : Holds(o, v)
        <3>1. CASE Vacant(o) \/ Blank(o)
            <4>1. sess.mem = Empty
                BY <3>1, <2>2 DEF Vacant, Blank, Catalog
            <4>2. tx.newParts = Catalog
                BY <4>1, <1>d DEF Empty
            <4>3. Blank(n)
                BY <4>1, <4>2, <1>d, <2>3 DEF Blank
            <4> QED BY <4>3, <3>1, <2>1, HoldsOne, <1>0
        <3>2. CASE \E v \in Revision : Holds(o, v)
            <4>1. PICK v \in Revision : Holds(o, v)
                BY <3>2
            <4>2. /\ sess.mem = chunk[o]["root"] /\ sess.mem = chunk[o]["shard"]
                  /\ sess.mem.files = {b \in Blob : chunk[o][b] # None}
                BY <4>1, <2>1, <2>2 DEF Holds, AckedOK
            <4>3. tx.newParts = Catalog \cup {b \in Blob : chunk[o][b] # None}
                BY <4>2, <1>d
            <4>4. \A p \in Part : chunk[n][p] = chunk[o][p]
                <5> SUFFICES ASSUME NEW p \in Part PROVE chunk[n][p] = chunk[o][p]
                    OBVIOUS
                <5>1. CASE p \in Catalog
                    BY <5>1, <4>2, <1>d DEF Catalog
                <5>2. CASE p \in Blob
                    BY <5>2, <4>3, <1>d, <2>3, BlobAssumption
                <5> QED BY <5>1, <5>2 DEF Part
            <4>5. chunk[n] = chunk[o]
                BY <4>4, <1>0 DEF Storage
            <4> QED BY <4>1, <4>5
        <3> QED BY <3>1, <3>2, <1>0, <1>d, <2>1, <2>4 DEF KeysOK
    <2>7. KeysOK'
        <3>1. ASSUME NEW l \in Key
              PROVE  (GivenUp(l) \/ Vacant(l) \/ Blank(l) \/ \E v \in Revision : Holds(l, v))'
            <4>1. CASE l = n
                BY <4>1, <1>0, <2>5, <2>6 DEF Holds
            <4> QED BY <4>1, <2>1, <2>4, <2>5 DEF KeysOK
        <3>2. ASSUME NEW v \in Revision, acked'[v]["root"] # None
              PROVE  \E l \in Key : ~GivenUp(l)' /\ Holds(l, v)'
            <4>1. PICK h \in Key : ~GivenUp(h) /\ Holds(h, v)
                BY <3>2, <1>a, <2>1 DEF KeysOK
            <4>2. CASE h = o
                BY <4>1, <4>2, <1>0, <1>d, <2>4, <2>5, <2>6 DEF Holds
            <4> QED BY <4>1, <4>2, <2>4, <2>5
        <3>3. \A v \in Revision : Holds(n, v) => Holds(o, v)
            <4>1. CASE Blank(n)
                BY <4>1, <2>1, <1>0, HoldsOne
            <4>2. CASE chunk[n] = chunk[o]
                BY <4>2 DEF Holds
            <4> QED BY <4>1, <4>2, <2>6
        <3>4. ASSUME NEW v \in Revision, NEW l \in Key, NEW m \in Key,
                     Holds(l, v)', Holds(m, v)', ~GivenUp(l)', ~GivenUp(m)'
              PROVE  l = m
            <4>1. Holds(l, v) /\ Holds(m, v) /\ l # o /\ m # o
                BY <3>4, <2>4, <2>5
            <4>2. ~Holds(o, v) \/ (l = n /\ m = n)
                BY <4>1, <1>0, <1>d, <2>1, <2>4 DEF KeysOK
            <4> QED BY <4>1, <4>2, <3>3, <2>1, <2>4 DEF KeysOK
        <3> QED BY <3>1, <3>2, <3>4 DEF KeysOK
    <2>8. AckedOK'
        BY <1>a, <2>1 DEF AckedOK
    <2>9. MarkerOK'
        <3>1. \A p \in tx.newParts : chunk[n][p] # None
            BY <1>0, <1>d, NoneAssumption
        <3> QED BY <3>1, <1>a, <1>b, <1>d, <2>2 DEF MarkerOK, all_new_exist, Catalog
    <2>10. OwnOK'
        <3>1. chunk[n]["root"] = sess.mem
            BY <1>d DEF Catalog
        <3> QED BY <3>1, <1>a, <1>c, <2>2 DEF OwnOK, Loaded, Recovering, Rekeying
    <2> QED BY <2>7, <2>8, <2>9, <2>10 DEF DiskOK
<1> QED BY <1>1, <1>2, <1>3 DEF Inv, SwitchInv, OverCrashes, DiskOK

\* The old key has been given up.
LEMMA CleanOldInv ==
    ASSUME NEW p \in Part, Inv, CleanOld(p)
    PROVE  Inv'
<1>0. tx \in Transaction /\ tx.new \in Key /\ tx.old \in Key
    BY TransactionParts DEF CleanOld, Inv, SwitchInv, Typed, TypeOK, Rekeying
<1>a. chunk' \in Storage /\ \A l \in Key, q \in Part : chunk'[l][q] \in {None, chunk[l][q]}
    BY <1>0, DeleteChunk DEF CleanOld, Inv, SwitchInv
<1>1. Typed'
    BY <1>a DEF CleanOld, Inv, SwitchInv, Typed, TypeOK, Storage
<1>2. SessionOK' /\ CopyOK'
    BY <1>a, LessChunks DEF CleanOld, Inv, SwitchInv, CopyOK, Loaded
<1>3. ASSUME ~ioErrors', ~replaced' PROVE DiskOK' /\ OwnOK'
    <2>1. /\ DiskOK /\ OwnOK /\ Delete(tx.old, p) /\ pc = "clean" /\ p \in todo
          /\ marker = [tx EXCEPT !.phase = "Committing"] /\ todo' = todo \ {p}
          /\ sess.key = tx.new
          /\ UNCHANGED <<marker, sess, tx, rev, acked, back, pc>>
        BY <1>3 DEF CleanOld, Inv, OverCrashes, DiskOK, OwnOK
    <2>2. marker \in Transaction /\ marker.old = tx.old /\ marker.new = tx.new
          /\ marker.phase = "Committing"
        BY <1>0, <2>1 DEF Transaction
    <2>3. GivenUp(tx.old) /\ tx.old # tx.new
        BY <2>1, <2>2, NoneAssumption DEF GivenUp, DiskOK, MarkerOK
    <2>4. DiskOK'
        BY <1>0, <2>1, <2>3, DeleteGivenUp DEF Inv, SwitchInv
    <2>5. /\ \A q \in Part : chunk'[tx.old][q] = IF q = p THEN None ELSE chunk[tx.old][q]
          /\ chunk'[tx.new] = chunk[tx.new]
        BY <1>0, <2>1, <2>3, DeleteChunk DEF Inv, SwitchInv
    <2>6. OwnOK'
        BY <1>0, <2>1, <2>5 DEF OwnOK, Loaded, Recovering, Rekeying
    <2> QED BY <2>4, <2>6
<1> QED BY <1>1, <1>2, <1>3 DEF Inv, SwitchInv, OverCrashes, DiskOK

\* Nothing is left under the old key.
LEMMA DeleteMarkerInv ==
    ASSUME Inv, DeleteMarker
    PROVE  Inv'
<1> USE NoneAssumption, CatalogParts
<1>1. Typed'
    BY DEF DeleteMarker, Inv, SwitchInv, Typed, TypeOK, Labels, Recovering, Rekeying
<1>2. SessionOK' /\ CopyOK'
    BY DEF DeleteMarker, Inv, SwitchInv, SessionOK, CopyOK, Loaded, Recovering,
        Rekeying
<1>3. ASSUME ~ioErrors', ~replaced' PROVE DiskOK'
    <2>1. DiskOK /\ OwnOK /\ marker' = None /\ UNCHANGED <<chunk, acked, rev>>
        BY <1>3 DEF DeleteMarker, Inv, OverCrashes, DiskOK
    <2>2. tx \in Transaction
        BY DEF DeleteMarker, Inv, SwitchInv, Typed, TypeOK, Rekeying
    <2>3. marker.phase = "Committing" /\ marker.old = tx.old
        BY <2>1, <2>2 DEF DeleteMarker, OwnOK, Transaction
    <2>4. \A k \in Key : GivenUp(k) => Vacant(k)
        BY <2>1, <2>3 DEF DeleteMarker, OwnOK, GivenUp, Vacant
    <2> QED BY <2>1, <2>4, ForgetGivenUp DEF Inv, SwitchInv
<1>4. ASSUME ~ioErrors', ~replaced' PROVE OwnOK'
    BY <1>4 DEF DeleteMarker, Inv, OverCrashes, OwnOK, MarkerFor, Loaded,
        Recovering, Rekeying
<1> QED BY <1>1, <1>2, <1>3, <1>4 DEF Inv, SwitchInv, OverCrashes, DiskOK

\* The rekey is over.
LEMMA DoneInv ==
    ASSUME Inv, Done
    PROVE  Inv'
<1> USE NoneAssumption, CatalogParts
<1>1. Typed'
    BY TransactionParts, SessionParts, EmptyContent DEF Done, Return, disk, Inv,
        SwitchInv, Typed, TypeOK, Labels, Recovering, Rekeying
<1>2. SessionOK' /\ CopyOK'
    BY TransactionParts, SessionParts DEF Done, Return, disk, Inv, SwitchInv, Typed,
        TypeOK, SessionOK, CopyOK, Copied, Loaded, Labels, Recovering, Rekeying,
        Transaction
<1>3. ASSUME ~ioErrors', ~replaced' PROVE DiskOK'
    BY <1>3, DiskUnchanged, DeleteGivenUp, ForgetGivenUp, TransactionParts DEF Done,
        Return, disk, Inv, SwitchInv, Typed, TypeOK, OverCrashes, DiskOK, MarkerOK,
        OwnOK, GivenUp
<1>4. ASSUME ~ioErrors', ~replaced' PROVE OwnOK'
    BY <1>4, TransactionParts, SessionParts DEF Done, Return, disk, Inv, SwitchInv,
        Typed, TypeOK, OverCrashes, MarkerOK, OwnOK, SessionOK, CopyOK, MarkerFor,
        Loaded, Recovering, Rekeying
<1> QED BY <1>1, <1>2, <1>3, <1>4 DEF Inv, SwitchInv, OverCrashes, DiskOK

\* After an error only the session's own catalog matters.
LEMMA StagingFailsInv ==
    ASSUME Inv, StagingFails, ioErrors
    PROVE  Inv'
<1> USE NoneAssumption, CatalogParts
<1>0. Typed /\ sess # None
    BY DEF StagingFails, Inv, SwitchInv, Typed
<1>1. Typed'
    <2>1. marker' \in Transaction \cup {None}
        BY <1>0, ManifestType DEF StagingFails, Typed, TypeOK
    <2>2. replaced' \in BOOLEAN
        BY DEF StagingFails
    <2> QED BY <1>0, <2>1, <2>2
            DEF StagingFails, Return, Typed, TypeOK, Labels, Recovering, Rekeying
<1>2. SessionOK' /\ CopyOK'
    BY DEF StagingFails, Return, Inv, SwitchInv, SessionOK, CopyOK, Loaded,
        Recovering, Rekeying
<1>3. OverCrashes'
    BY DEF StagingFails, OverCrashes
<1> QED BY <1>1, <1>2, <1>3 DEF Inv, SwitchInv

\* The copy will be deleted.
LEMMA CopyFailsInv ==
    ASSUME Inv, CopyFails, ioErrors
    PROVE  Inv'
<1> USE NoneAssumption, CatalogParts
<1>1. Typed'
    BY TransactionParts, SessionParts, EmptyContent DEF CopyFails, disk, Inv,
        SwitchInv, Typed, TypeOK, Labels, Recovering, Rekeying
<1>2. SessionOK' /\ CopyOK'
    BY TransactionParts, SessionParts DEF CopyFails, disk, Inv, SwitchInv, Typed,
        TypeOK, SessionOK, CopyOK, Copied, Loaded, Labels, Recovering, Rekeying,
        Transaction
<1>3. OverCrashes'
    BY DEF CopyFails, disk, OverCrashes
<1> QED BY <1>1, <1>2, <1>3 DEF Inv, SwitchInv

\* The session stays with the old key.
LEMMA CommittingFailsInv ==
    ASSUME Inv, CommittingFails, ioErrors
    PROVE  Inv'
<1> USE NoneAssumption, CatalogParts
<1>1. Typed'
    <2>1. Typed /\ tx \in Transaction
        BY DEF CommittingFails, Inv, SwitchInv, Typed, TypeOK, Rekeying
    <2>2. [tx EXCEPT !.phase = "Committing"] \in Transaction
        BY <2>1 DEF Transaction
    <2>3. marker' \in Transaction \cup {None}
        BY <2>1, <2>2 DEF CommittingFails, Typed, TypeOK
    <2> QED BY <2>1, <2>3
            DEF CommittingFails, Return, Typed, TypeOK, Labels, Recovering, Rekeying
<1>2. SessionOK' /\ CopyOK'
    BY DEF CommittingFails, Return, Inv, SwitchInv, SessionOK, CopyOK, Loaded,
        Recovering, Rekeying
<1>3. OverCrashes'
    BY DEF CommittingFails, OverCrashes
<1> QED BY <1>1, <1>2, <1>3 DEF Inv, SwitchInv

\* The session stays with the new key.
LEMMA CleanFailsInv ==
    ASSUME Inv, CleanFails, ioErrors
    PROVE  Inv'
<1>0. Typed /\ tx \in Transaction /\ tx.old \in Key /\ todo \subseteq Part
    BY TransactionParts DEF CleanFails, Inv, SwitchInv, Typed, TypeOK, Rekeying
<1>a. chunk' \in Storage /\ \A l \in Key, q \in Part : chunk'[l][q] \in {None, chunk[l][q]}
    <2>1. CASE UNCHANGED chunk
        BY <2>1, <1>0 DEF Typed, TypeOK, Storage
    <2>2. CASE \E p \in todo : Delete(tx.old, p)
        BY <2>2, <1>0, DeleteChunk
    <2> QED BY <2>1, <2>2 DEF CleanFails, disk
<1>1. Typed'
    BY <1>0, <1>a DEF CleanFails, Return, disk, Typed, TypeOK, Storage, Labels,
        Recovering, Rekeying
<1>2. SessionOK' /\ CopyOK'
    <2>1. UNCHANGED sess /\ pc = "clean" /\ pc' = "idle"
        BY DEF CleanFails, Return
    <2> QED BY <1>0, <1>a, <2>1, LessChunks DEF Inv, SwitchInv, CopyOK, Loaded, Rekeying
<1>3. OverCrashes'
    BY DEF CleanFails, OverCrashes
<1> QED BY <1>1, <1>2, <1>3 DEF Inv, SwitchInv

\* A failed recovery ends the unlock or the command.
LEMMA RecoveryFailsInv ==
    ASSUME Inv, RecoveryFails, ioErrors
    PROVE  Inv'
<1> USE NoneAssumption, CatalogParts
<1>1. Typed'
    BY TransactionParts, SessionParts, EmptyContent DEF RecoveryFails, Failed, Abort,
        disk, Inv, SwitchInv, Typed, TypeOK, Labels, Recovering, Rekeying
<1>2. SessionOK' /\ CopyOK'
    BY TransactionParts, SessionParts DEF RecoveryFails, Failed, Abort, disk, Inv,
        SwitchInv, Typed, TypeOK, SessionOK, CopyOK, Copied, Loaded, Labels,
        Recovering, Rekeying, Transaction
<1>3. OverCrashes'
    BY DEF RecoveryFails, Failed, Abort, disk, OverCrashes
<1> QED BY <1>1, <1>2, <1>3 DEF Inv, SwitchInv

\* A crash leaves what is on disk.
LEMMA CrashInv ==
    ASSUME Inv, Crash
    PROVE  Inv'
<1> USE NoneAssumption, CatalogParts
<1>1. Typed'
    BY TransactionParts, SessionParts, EmptyContent DEF Crash, disk, Inv, SwitchInv,
        Typed, TypeOK, Labels, Recovering, Rekeying
<1>2. SessionOK' /\ CopyOK'
    BY TransactionParts, SessionParts DEF Crash, disk, Inv, SwitchInv, Typed, TypeOK,
        SessionOK, CopyOK, Copied, Loaded, Labels, Recovering, Rekeying, Transaction
<1>3. ASSUME ~ioErrors', ~replaced' PROVE DiskOK'
    BY <1>3, DiskUnchanged, DeleteGivenUp, ForgetGivenUp, TransactionParts DEF Crash,
        disk, Inv, SwitchInv, Typed, TypeOK, OverCrashes, DiskOK, MarkerOK, OwnOK,
        GivenUp
<1>4. ASSUME ~ioErrors', ~replaced' PROVE OwnOK'
    BY <1>4, TransactionParts, SessionParts DEF Crash, disk, Inv, SwitchInv, Typed,
        TypeOK, OverCrashes, MarkerOK, OwnOK, SessionOK, CopyOK, MarkerFor, Loaded,
        Recovering, Rekeying
<1> QED BY <1>1, <1>2, <1>3, <1>4 DEF Inv, SwitchInv, OverCrashes, DiskOK

\* A step that changes nothing.
LEMMA StutterInv ==
    ASSUME Inv, UNCHANGED vars
    PROVE  Inv'
<1>1. Typed' /\ SessionOK' /\ CopyOK'
    BY DEF vars, Inv, SwitchInv, Typed, TypeOK, SessionOK, CopyOK, Copied, Loaded
<1>2. ASSUME ~ioErrors', ~replaced' PROVE DiskOK' /\ OwnOK'
    <2>1. DiskOK /\ OwnOK
        BY <1>2 DEF vars, Inv, OverCrashes, DiskOK
    <2> QED BY <2>1, DiskUnchanged DEF vars, OwnOK, MarkerFor, Loaded
<1> QED BY <1>1, <1>2 DEF Inv, SwitchInv, OverCrashes, DiskOK

\* The invariant is inductive.
LEMMA NextInv == Inv /\ [Next]_vars => Inv'
<1> SUFFICES ASSUME Inv, [Next]_vars PROVE Inv'
    OBVIOUS
<1>1. CASE \E k \in Key : Unlock(k)
    BY <1>1, UnlockInv
<1>2. CASE StartRekey
    BY <1>2, StartRekeyInv
<1>3. CASE \E b \in Blob : Put(b)
    BY <1>3, PutInv
<1>4. CASE Recovery
    BY <1>4, RecoverInv, ForgetInv, OpenInv, UndoInv, FinishOldInv DEF Recovery
<1>5. CASE Rekey
    BY <1>5, WriteStagingInv, RejectInv, CopyPartInv, RollbackInv, CleanOldInv, CancelInv,
       RolledBackInv, WriteCommittingInv, DeleteMarkerInv, DoneInv DEF Rekey
<1>6. CASE Error
    BY <1>6, StagingFailsInv, CopyFailsInv, CommittingFailsInv, CleanFailsInv, RecoveryFailsInv
    DEF Error
<1>7. CASE Crash
    BY <1>7, CrashInv
<1>8. CASE UNCHANGED vars
    BY <1>8, StutterInv
<1> QED BY <1>1, <1>2, <1>3, <1>4, <1>5, <1>6, <1>7, <1>8 DEF Next

\* So it always holds.
LEMMA Invariance == Spec => []Inv
BY InitInv, NextInv, PTL DEF Spec

(***************************************************************************)
(* The theorems.                                                            *)
(***************************************************************************)
\* Every variable stays in its domain, over unlocks, rekeys, recoveries, failing
\* storage calls and crashes.
THEOREM RekeyTypeCorrect == Spec => []TypeOK
<1>1. Inv => TypeOK
    BY DEF Inv, SwitchInv, Typed
<1> QED BY <1>1, Invariance, PTL

\* A key that the marker does not give up is read as it is.
LEMMA ReadAsIs ==
    ASSUME Typed, MarkerOK, NEW k \in Key, ~GivenUp(k)
    PROVE  CanUnlock(k) /\ Recovered(k)[k] = chunk[k]
<1>1. CanUnlock(k)
    BY DEF CanUnlock, MarkerFor, MarkerOK
<1>2. CASE MarkerFor(k) = None
    <2>1. Recovered(k) = chunk
        BY <1>2, Zenon DEF Recovered
    <2> QED BY <1>1, <2>1
<1>3. CASE MarkerFor(k) # None
    <2>1. /\ MarkerFor(k) = marker /\ marker \in Transaction
          /\ marker.phase \in {"Staging", "Committing"} /\ chunk \in Storage
        BY <1>3, TransactionParts DEF MarkerFor, Typed, TypeOK, Storage
    <2>2. CASE marker.phase = "Staging"
        <3>1. k # marker.new
            BY <1>3, <2>1, <2>2 DEF GivenUp
        <3> QED BY <1>1, <1>3, <2>1, <2>2, <3>1 DEF Recovered, Storage
    <2>3. CASE marker.phase = "Committing"
        <3>1. k # marker.old
            BY <1>3, <2>1, <2>3 DEF GivenUp
        <3> QED BY <1>1, <1>3, <2>1, <2>3, <3>1 DEF Recovered, Storage
    <2> QED BY <2>1, <2>2, <2>3
<1> QED BY <1>1, <1>2, <1>3

\* A key that the marker gives up has no catalog after the recovery.
LEMMA ReadsNothing ==
    ASSUME Typed, MarkerOK, NEW k \in Key, GivenUp(k)
    PROVE  Recovered(k)[k]["root"] = None
<1>1. /\ MarkerFor(k) = marker /\ marker # None /\ marker \in Transaction
      /\ marker.phase \in {"Staging", "Committing"} /\ chunk \in Storage
    BY TransactionParts DEF GivenUp, MarkerFor, Typed, TypeOK, Storage
<1>2. CASE marker.phase = "Staging"
    BY <1>1, <1>2, CatalogParts DEF Recovered, Storage, GivenUp, MarkerOK
<1>3. CASE marker.phase = "Committing"
    BY <1>1, <1>3, CatalogParts DEF Recovered, Storage, GivenUp, MarkerOK
<1> QED BY <1>1, <1>2, <1>3

\* Whenever the process dies or the vault is locked, with a storage whose calls do not
\* fail and as long as no rekey has replaced the marker of another vault, exactly one
\* password reads everything a vault has reported as written, whatever the number of
\* vaults, files and rekeys: rekey_password and its recovery neither lose data nor leave
\* a second copy readable.
THEOREM OnePasswordOverCrashes == Spec => []CrashKeepsOnePassword
<1>1. Inv => CrashKeepsOnePassword
    <2> SUFFICES ASSUME Inv, ~ioErrors, ~replaced,
                        NEW v \in Revision, acked[v]["root"] # None
                 PROVE  Cardinality({k \in Key : Reads(k, v)}) = 1
        BY DEF CrashKeepsOnePassword, OneValidPassword
    <2>1. Typed /\ AckedOK /\ KeysOK /\ MarkerOK
        BY DEF Inv, SwitchInv, OverCrashes
    <2>2. PICK h \in Key : ~GivenUp(h) /\ Holds(h, v)
        BY <2>1 DEF KeysOK
    <2>3. Reads(h, v)
        BY <2>1, <2>2, ReadAsIs DEF Reads, Holds
    <2>4. ASSUME NEW k \in Key, Reads(k, v) PROVE k = h
        <3>1. Recovered(k)[k]["root"] = acked[v]["root"]
            BY <2>4, CatalogParts DEF Reads
        <3>2. ~GivenUp(k)
            BY <3>1, <2>1, ReadsNothing
        <3>3. chunk[k]["root"] = acked[v]["root"] /\ acked[v]["root"].vault = v /\ v # 0
            BY <3>1, <3>2, <2>1, ReadAsIs DEF AckedOK, Revision
        <3>4. ~Vacant(k) /\ ~Blank(k)
            BY <3>3, CatalogParts DEF Vacant, Blank, Catalog, Empty
        <3>5. PICK w \in Revision : Holds(k, w)
            BY <3>2, <3>4, <2>1 DEF KeysOK
        <3>6. w = v
            BY <3>3, <3>5, <2>1 DEF Holds, AckedOK
        <3> QED BY <3>2, <3>5, <3>6, <2>1, <2>2 DEF KeysOK
    <2>5. {k \in Key : Reads(k, v)} = {h}
        BY <2>3, <2>4
    <2> QED BY <2>5, FS_Singleton
<1> QED BY <1>1, Invariance, PTL

\* A step moves the session to another key only from "copy" to "clean".
LEMMA OnlyCommittingSwitches ==
    ASSUME Inv, Next, sess # None, sess' # None, sess'.key # sess.key
    PROVE  WriteCommitting
<1>1. pc # "locked" /\ sess \in [key : Key, mem : Content]
    BY DEF Inv, SwitchInv, Typed, TypeOK
<1>2. \A k \in Key : ~Unlock(k)
    BY <1>1 DEF Unlock
<1>3. ~StartRekey /\ (\A b \in Blob : ~Put(b)) /\ ~Crash
    BY <1>1 DEF StartRekey, Put, Crash
<1>4. ~Recovery
    BY <1>1 DEF Recovery, Recover, Failed, Forget, Open, Undo, FinishOld
<1>5. ~Error
    BY DEF Error, StagingFails, CopyFails, CommittingFails, CleanFails, RecoveryFails, Failed
<1>6. Rekey
    BY <1>2, <1>3, <1>4, <1>5 DEF Next
<1> QED BY <1>6 DEF Rekey, WriteStaging, Reject, CopyPart, Rollback, CleanOld, Cancel,
           RolledBack, DeleteMarker, Done

\* Over failing calls and crashes, in any step of rekey_password that moves the session to
\* the new key, every chunk the catalog has under the old key is there under the new one.
THEOREM SwitchIsComplete == Spec => SwitchKeepsContent
<1>1. ASSUME Inv, [Next]_vars, sess # None, sess' # None, sess'.key # sess.key,
             NEW p \in Catalog \cup sess.mem.files,
             chunk[sess.key]["root"] # None, chunk[sess.key][p] # None
      PROVE  chunk'[sess'.key][p] = chunk[sess.key][p]
    <2>1. WriteCommitting
        BY <1>1, OnlyCommittingSwitches DEF vars
    <2>2. /\ SessionOK /\ CopyOK /\ sess \in [key : Key, mem : Content]
          /\ pc = "copy" /\ todo = {} /\ chunk' = chunk /\ sess'.key = tx.new
        BY <1>1, <2>1 DEF Inv, SwitchInv, Typed, TypeOK, WriteCommitting
    <2>3. /\ tx.old = sess.key /\ p \in tx.newParts
          /\ chunk[tx.new][p] = Copied(p)
        BY <1>1, <2>2 DEF CopyOK
    <2>4. p \in Catalog => chunk[sess.key][p] = sess.mem
        BY <1>1, <2>2 DEF SessionOK, Loaded, Rekeying, Catalog
    <2> QED BY <2>2, <2>3, <2>4 DEF Copied
<1>2. Inv /\ [Next]_vars =>
        [sess # None /\ sess' # None /\ sess'.key # sess.key =>
           \A p \in Catalog \cup sess.mem.files :
             chunk[sess.key]["root"] # None /\ chunk[sess.key][p] # None =>
                 chunk'[sess'.key][p] = chunk[sess.key][p]]_vars
    BY <1>1
<1> QED BY <1>2, Invariance, PTL DEF Spec, SwitchKeepsContent
=============================================================================
