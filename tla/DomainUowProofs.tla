-------------------------- MODULE DomainUowProofs --------------------------
(***************************************************************************)
(* Proofs about DomainUow, for any sets of domains and files and any number *)
(* of units: a unit that reports success is complete, whatever failed, and  *)
(* over any crashes files and catalog change together.                      *)
(***************************************************************************)
EXTENDS DomainUow, TLAPS

(***************************************************************************)
(* What holds with failing storage calls too: a running unit has written    *)
(* every file it no longer has to do, and from the save on its root is the  *)
(* one in memory, then the one on disk.                                     *)
(***************************************************************************)
Undoing == {"undo", "rewriteNew", "forget", "forgetMarker"}
Working == {"stage", "mark", "write", "swap", "unmark", "clean"}
Labels == {"locked", "recover", "opened", "idle"} \cup Undoing \cup Working

Typed ==
    /\ TypeOK
    /\ pc \in Labels /\ ioErrors \in BOOLEAN
    /\ pc # "locked" => mem # None
    /\ pc \in Undoing \cup Working => unit # None
    /\ pc \in Undoing => marker # None

Written(fs) == \A f \in fs : blob[unit.dom][f] = unit.tx

UnitSound ==
    /\ pc = "write" => todo \subseteq unit.files /\ Written(unit.files \ todo)
    /\ pc \in {"swap", "unmark", "clean"} => mem[unit.dom] = unit.new /\ Written(unit.files)
    /\ pc = "swap" => pend # None /\ pend[unit.dom] = unit.new
    /\ pc \in {"unmark", "clean"} => cat[unit.dom] = unit.new

SafeInv == Typed /\ UnitSound

(***************************************************************************)
(* Without failing calls: the marker says which of two catalogs is the      *)
(* durable one, and the backups are those of the old one, or gone.          *)
(***************************************************************************)
\* Every revision the catalog knows was given out.
Past(c) == \A d \in Domain, f \in File : c[d][f] <= rev

\* The payload was made by Begin, in a state where files and catalog agreed.
PayloadOK(p) ==
    /\ p.tx <= rev /\ p.files # {} /\ p.backed \subseteq p.files
    /\ \A f \in p.files : p.new[f] = p.tx /\ p.old[f] < p.tx
    /\ \A f \in File \ p.files : p.new[f] = p.old[f]
    /\ \A f \in p.files \ p.backed : p.old[f] = NoFile
    /\ \A f \in p.backed : BackupOf(p, f) # NoFile /\ p.old[f] # NoFile => BackupOf(p, f) = p.old[f]

\* Every file but those of the set fs of domain dom is as the catalog c says.
AgreeBut(c, dom, fs) ==
    \A d \in Domain, f \in File :
        ~(d = dom /\ f \in fs) /\ c[d][f] # NoFile => blob[d][f] = c[d][f]

DurableOK ==
    /\ Past(cat)
    /\ marker = None => pend = None /\ Agree(cat)
    /\ marker # None =>
          /\ PayloadOK(marker.payload)
          /\ marker.phase = "Staging" =>
                pend = None /\ Agree(cat) /\ cat[marker.payload.dom] = marker.payload.old
          /\ marker.phase = "Committing" =>
                /\ AgreeBut(cat, marker.payload.dom, marker.payload.files)
                /\ \/ cat[marker.payload.dom] = marker.payload.old
                   \/ cat[marker.payload.dom] = marker.payload.new /\ pend = None /\ Agree(cat)
          /\ pend # None =>
                /\ marker.phase = "Committing" /\ Agree(pend)
                /\ pend = [cat EXCEPT ![marker.payload.dom] = marker.payload.new]

SessionOK ==
    /\ pc \notin {"locked", "swap"} => mem = cat /\ pend = None
    /\ pc = "swap" => mem = pend
    /\ pc \in {"opened", "idle", "stage"} => marker = None
    /\ pc \in {"stage", "mark", "write"} => PayloadOK(unit) /\ unit.old = mem[unit.dom]
    /\ pc = "mark" => marker = [phase |-> "Staging", payload |-> unit]
    /\ pc \in {"write", "swap", "unmark"} => marker = [phase |-> "Committing", payload |-> unit]
    /\ pc = "clean" => marker = None
    /\ pc \in Undoing => unit = marker.payload
    /\ pc \in {"forget", "forgetMarker"} => Agree(cat)
    /\ pc = "undo" =>
          /\ cat[unit.dom] = unit.old /\ todo \subseteq unit.files
          /\ AgreeBut(cat, unit.dom, todo)
    /\ pc # "rewriteNew"

OverCrashes == ~ioErrors => DurableOK /\ SessionOK

Inv == SafeInv /\ OverCrashes

(***************************************************************************)
(* Changing one file, or the root of one domain.                            *)
(***************************************************************************)
\* A catalog with the revision of one file changed.
LEMMA SetFile ==
    ASSUME NEW c \in [Domain -> Root], NEW d \in Domain, NEW f \in File,
           NEW r \in Revision \cup {NoFile}
    PROVE  /\ [c EXCEPT ![d][f] = r] \in [Domain -> Root]
           /\ \A e \in Domain, g \in File :
                [c EXCEPT ![d][f] = r][e][g] = IF e = d /\ g = f THEN r ELSE c[e][g]
BY DEF Root

\* A catalog with the root of one domain replaced.
LEMMA SetRoot ==
    ASSUME NEW c \in [Domain -> Root], NEW d \in Domain, NEW r \in Root
    PROVE  /\ [c EXCEPT ![d] = r] \in [Domain -> Root]
           /\ \A e \in Domain : [c EXCEPT ![d] = r][e] = IF e = d THEN r ELSE c[e]
OBVIOUS

\* The parts of a payload.
LEMMA PayloadParts ==
    ASSUME NEW p \in Payload
    PROVE  /\ p.tx \in Revision /\ p.dom \in Domain /\ p.old \in Root /\ p.new \in Root
           /\ p.files \subseteq File /\ p.backed \subseteq File
BY DEF Payload

(***************************************************************************)
(* Each action preserves the invariant.                                     *)
(***************************************************************************)
\* The invariant holds before the first unlock.
LEMMA InitInv == Init => Inv
BY NoneAssumption, BoundAssumption, IoErrorsAssumption DEF Init, Inv, SafeInv, Typed,
    TypeOK, Labels, Undoing, Working, UnitSound, OverCrashes, DurableOK, SessionOK,
    Past, Agree, NoFiles, Root, Revision, NoFile

\* An unlock settles an undecided save either way; the marker tells which way.
LEMMA UnlockInv ==
    ASSUME Inv, Unlock
    PROVE  Inv'
<1> USE NoneAssumption, BoundAssumption
<1>1. Typed'
    BY DEF Unlock, Settled, Goto, Inv, SafeInv, Typed, TypeOK, Labels, Undoing, Working
<1>2. UnitSound'
    BY DEF Unlock, Goto, UnitSound, Written
<1>3. ASSUME ~ioErrors' PROVE DurableOK'
    <2> /\ DurableOK /\ TypeOK /\ pend' = None /\ marker' = marker
        /\ UNCHANGED <<blob, backup, rev>>
        BY <1>3 DEF Unlock, Inv, SafeInv, Typed, OverCrashes
    <2>1. CASE cat' = cat
        BY <2>1 DEF DurableOK, Past, PayloadOK, Agree, AgreeBut, BackupOf
    <2>2. CASE pend # None /\ cat' = pend
        <3> DEFINE p == marker.payload
        <3>1. marker # None /\ marker.phase = "Committing" /\ PayloadOK(p) /\ Agree(pend)
            BY <2>2 DEF DurableOK
        <3>2. p \in Payload
            BY <3>1 DEF TypeOK, Marker
        <3>3. \A e \in Domain : pend[e] = IF e = p.dom THEN p.new ELSE cat[e]
            BY <2>2, <3>2, PayloadParts DEF DurableOK, TypeOK
        <3>4. cat[p.dom] = p.old
            BY <2>2, <3>1 DEF DurableOK
        <3>5. Past(cat)'
            BY <2>2, <3>1, <3>2, <3>3, <3>4, PayloadParts, SMTT(30)
                DEF DurableOK, Past, PayloadOK, TypeOK, Root, Revision, NoFile
        <3>6. PayloadOK(p)' /\ Agree(cat)' /\ AgreeBut(cat, p.dom, p.files)'
            BY <2>2, <3>1 DEF PayloadOK, Agree, AgreeBut, BackupOf
        <3> QED BY <2>2, <3>1, <3>2, <3>3, <3>5, <3>6, PayloadParts DEF DurableOK
    <2> QED BY <2>1, <2>2 DEF Unlock, Settled
<1>4. ASSUME ~ioErrors' PROVE SessionOK'
    BY <1>4 DEF Unlock, Goto, SessionOK, Undoing
<1> QED BY <1>1, <1>2, <1>3, <1>4 DEF Inv, SafeInv, OverCrashes

\* Without errors the catalog is the old or the new one of the marker.
LEMMA recover_domain_recordInv ==
    ASSUME Inv, recover_domain_record
    PROVE  Inv'
<1> USE NoneAssumption, BoundAssumption
<1>1. Typed'
    BY DEF recover_domain_record, Goto, catalog, Inv, SafeInv, Typed, TypeOK, Labels,
        Undoing, Working, Root, Payload, Marker, Revision, NoFile
<1>2. UnitSound'
    BY DEF recover_domain_record, Goto, catalog, Inv, SafeInv, Typed, TypeOK,
        UnitSound, Written, Labels, Undoing, Working, Payload, Marker
<1>3. ASSUME ~ioErrors' PROVE DurableOK'
    BY <1>3 DEF recover_domain_record, Goto, catalog, Inv, SafeInv, Typed, TypeOK,
        OverCrashes, DurableOK, SessionOK, Past, PayloadOK, Agree, AgreeBut,
        BackupOf, Undoing, Working, UnitSound, Written, Root, Payload, Marker,
        Revision, NoFile
<1>4. ASSUME ~ioErrors' PROVE SessionOK'
    BY <1>4 DEF recover_domain_record, Goto, catalog, Inv, SafeInv, Typed, TypeOK,
        OverCrashes, DurableOK, SessionOK, Past, PayloadOK, Agree, AgreeBut,
        BackupOf, Undoing, Working, Labels, Root, Payload, Marker, Revision, NoFile
<1> QED BY <1>1, <1>2, <1>3, <1>4 DEF Inv, SafeInv, OverCrashes

\* One file is copied back or deleted.
LEMMA UndoInv ==
    ASSUME NEW f \in File, Inv, Undo(f)
    PROVE  Inv'
<1> USE NoneAssumption, BoundAssumption
<1> DEFINE r == IF f \in unit.backed THEN BackupOf(unit, f) ELSE NoFile
<1>0. unit \in Payload /\ unit.dom \in Domain /\ blob \in [Domain -> Root]
      /\ r \in Revision \cup {NoFile}
    BY PayloadParts DEF Undo, Inv, SafeInv, Typed, TypeOK, Undoing, BackupOf, Root
<1> HIDE DEF r
<1>b. /\ blob' \in [Domain -> Root]
      /\ \A e \in Domain, g \in File :
            blob'[e][g] = IF e = unit.dom /\ g = f THEN r ELSE blob[e][g]
    <2>1. blob' = [blob EXCEPT ![unit.dom][f] = r]
        BY DEF Undo, r
    <2> QED BY <1>0, <2>1, SetFile
<1>1. Typed'
    BY <1>b DEF Undo, catalog, Inv, SafeInv, Typed, TypeOK
<1>2. UnitSound'
    BY DEF Undo, UnitSound
<1>3. ASSUME ~ioErrors' PROVE DurableOK' /\ SessionOK'
    <2>1. /\ DurableOK /\ SessionOK /\ pc = "undo" /\ unit = marker.payload /\ marker # None
          /\ f \in unit.files /\ cat[unit.dom] = unit.old /\ mem = cat /\ pend = None
          /\ f \in todo /\ todo \subseteq unit.files /\ AgreeBut(cat, unit.dom, todo)
        BY <1>3 DEF Undo, Inv, SafeInv, Typed, OverCrashes, SessionOK, Undoing
    <2>2. cat[unit.dom][f] # NoFile => r = cat[unit.dom][f]
        BY <1>0, <2>1 DEF Undo, r, DurableOK, PayloadOK
    <2>3. AgreeBut(cat, unit.dom, todo)'
        BY <1>b, <2>1, <2>2 DEF Undo, catalog, AgreeBut
    <2>4. Agree(cat) => Agree(cat)'
        BY <1>b, <2>2 DEF Undo, catalog, Agree
    <2>5. DurableOK'
        BY <1>b, <2>1, <2>3, <2>4
            DEF Undo, catalog, DurableOK, Past, PayloadOK, AgreeBut, BackupOf
    <2>6. SessionOK'
        BY <2>1, <2>3 DEF Undo, catalog, SessionOK, Undoing
    <2> QED BY <2>5, <2>6
<1> QED BY <1>1, <1>2, <1>3 DEF Inv, SafeInv, OverCrashes

\* A lost backup closes the session and changes nothing on disk.
LEMMA UndoFailsInv ==
    ASSUME Inv, UndoFails
    PROVE  Inv'
<1> USE NoneAssumption, BoundAssumption
<1>1. Typed'
    BY DEF UndoFails, Goto, catalog, Inv, SafeInv, Typed, TypeOK, Labels, Undoing,
        Working, Root, Payload, Marker, Revision, NoFile
<1>2. UnitSound'
    BY DEF UndoFails, Goto, catalog, Inv, SafeInv, Typed, TypeOK, UnitSound, Written,
        Labels, Undoing, Working, Payload, Marker
<1>3. ASSUME ~ioErrors' PROVE DurableOK'
    BY <1>3 DEF UndoFails, Goto, catalog, Inv, SafeInv, Typed, TypeOK, OverCrashes,
        DurableOK, SessionOK, Past, PayloadOK, Agree, AgreeBut, BackupOf, Undoing,
        Working, UnitSound, Written, Root, Payload, Marker, Revision, NoFile
<1>4. ASSUME ~ioErrors' PROVE SessionOK'
    BY <1>4 DEF UndoFails, Goto, catalog, Inv, SafeInv, Typed, TypeOK, OverCrashes,
        DurableOK, SessionOK, Past, PayloadOK, Agree, AgreeBut, BackupOf, Undoing,
        Working, Labels, Root, Payload, Marker, Revision, NoFile
<1> QED BY <1>1, <1>2, <1>3, <1>4 DEF Inv, SafeInv, OverCrashes

\* All files are those of the old catalog.
LEMMA UndoDoneInv ==
    ASSUME Inv, UndoDone
    PROVE  Inv'
<1> USE NoneAssumption, BoundAssumption
<1>0. unit \in Payload /\ unit.dom \in Domain /\ unit.old \in Root
      /\ mem \in [Domain -> Root]
    BY PayloadParts DEF UndoDone, Inv, SafeInv, Typed, TypeOK, Undoing
<1>r. cat' \in [Domain -> Root] /\ mem' \in [Domain -> Root]
    BY <1>0, SetRoot DEF UndoDone, Rewrite, catalog, Inv, SafeInv, Typed, TypeOK
<1>1. Typed'
    BY <1>r
        DEF UndoDone, Rewrite, Goto, catalog, Inv, SafeInv, Typed, TypeOK, Labels, Undoing, Working
<1>2. UnitSound'
    BY DEF UndoDone, Rewrite, Goto, UnitSound
<1>3. ASSUME ~ioErrors' PROVE DurableOK' /\ SessionOK'
    <2>1. /\ DurableOK /\ SessionOK /\ pc = "undo" /\ todo = {}
          /\ pc' = "forget" /\ marker # None
          /\ UNCHANGED <<catalog, blob, backup, marker, unit, todo, rev>>
        BY <1>3 DEF UndoDone, Rewrite, Goto, Inv, SafeInv, Typed, OverCrashes, SessionOK, Undoing
    <2>2. Agree(cat)'
        BY <2>1 DEF catalog, SessionOK, AgreeBut, Agree
    <2>3. DurableOK'
        BY <2>1 DEF catalog, DurableOK, Past, PayloadOK, Agree, AgreeBut, BackupOf
    <2>4. SessionOK'
        BY <2>1, <2>2 DEF catalog, SessionOK, Undoing
    <2> QED BY <2>3, <2>4
<1> QED BY <1>1, <1>2, <1>3 DEF Inv, SafeInv, OverCrashes

\* Only after errors.
LEMMA RewriteNewInv ==
    ASSUME Inv, RewriteNew
    PROVE  Inv'
<1> USE NoneAssumption, BoundAssumption
<1>1. unit \in Payload /\ unit.dom \in Domain /\ unit.new \in Root /\ mem \in [Domain -> Root]
    BY PayloadParts DEF RewriteNew, Inv, SafeInv, Typed, TypeOK, Undoing
<1>2. Typed'
    BY <1>1, SetRoot, SMTT(30)
        DEF RewriteNew, Rewrite, Goto, Inv, SafeInv, Typed, TypeOK, Labels, Undoing, Working
<1>3. UnitSound'
    BY DEF RewriteNew, Rewrite, Goto, UnitSound
<1>4. ioErrors'
    BY DEF RewriteNew, Rewrite, Inv, SafeInv, Typed, OverCrashes, SessionOK
<1> QED BY <1>2, <1>3, <1>4 DEF Inv, SafeInv, OverCrashes

\* The backups go while files and catalog agree.
LEMMA ForgetBackupsInv ==
    ASSUME Inv, ForgetBackups
    PROVE  Inv'
<1> USE NoneAssumption, BoundAssumption
<1>1. Typed'
    BY DEF ForgetBackups, cleanup_domain_backups, Goto, catalog, Inv, SafeInv, Typed,
        TypeOK, Labels, Undoing, Working, Root, Payload, Marker, Revision, NoFile
<1>2. UnitSound'
    BY DEF ForgetBackups, cleanup_domain_backups, Goto, catalog, Inv, SafeInv, Typed,
        TypeOK, UnitSound, Written, Labels, Undoing, Working, Payload, Marker
<1>3. ASSUME ~ioErrors' PROVE DurableOK'
    BY <1>3 DEF ForgetBackups, cleanup_domain_backups, Goto, catalog, Inv, SafeInv,
        Typed, TypeOK, OverCrashes, DurableOK, SessionOK, Past, PayloadOK, Agree,
        AgreeBut, BackupOf, Undoing, Working, UnitSound, Written, Root, Payload,
        Marker, Revision, NoFile
<1>4. ASSUME ~ioErrors' PROVE SessionOK'
    BY <1>4 DEF ForgetBackups, cleanup_domain_backups, Goto, catalog, Inv, SafeInv,
        Typed, TypeOK, OverCrashes, DurableOK, SessionOK, Past, PayloadOK, Agree,
        AgreeBut, BackupOf, Undoing, Working, Labels, Root, Payload, Marker,
        Revision, NoFile
<1> QED BY <1>1, <1>2, <1>3, <1>4 DEF Inv, SafeInv, OverCrashes

\* The marker goes while files and catalog agree.
LEMMA ForgetMarkerInv ==
    ASSUME Inv, ForgetMarker
    PROVE  Inv'
<1> USE NoneAssumption, BoundAssumption
<1>1. Typed'
    BY DEF ForgetMarker, Goto, catalog, Inv, SafeInv, Typed, TypeOK, Labels, Undoing,
        Working, Root, Payload, Marker, Revision, NoFile
<1>2. UnitSound'
    BY DEF ForgetMarker, Goto, catalog, Inv, SafeInv, Typed, TypeOK, UnitSound,
        Written, Labels, Undoing, Working, Payload, Marker
<1>3. ASSUME ~ioErrors' PROVE DurableOK'
    BY <1>3 DEF ForgetMarker, Goto, catalog, Inv, SafeInv, Typed, TypeOK,
        OverCrashes, DurableOK, SessionOK, Past, PayloadOK, Agree, AgreeBut,
        BackupOf, Undoing, Working, UnitSound, Written, Root, Payload, Marker,
        Revision, NoFile
<1>4. ASSUME ~ioErrors' PROVE SessionOK'
    BY <1>4 DEF ForgetMarker, Goto, catalog, Inv, SafeInv, Typed, TypeOK,
        OverCrashes, DurableOK, SessionOK, Past, PayloadOK, Agree, AgreeBut,
        BackupOf, Undoing, Working, Labels, Root, Payload, Marker, Revision, NoFile
<1> QED BY <1>1, <1>2, <1>3, <1>4 DEF Inv, SafeInv, OverCrashes

\* No marker, nothing to do.
LEMMA NothingToRecoverInv ==
    ASSUME Inv, NothingToRecover
    PROVE  Inv'
<1> USE NoneAssumption, BoundAssumption
<1>1. Typed'
    BY DEF NothingToRecover, Goto, catalog, Inv, SafeInv, Typed, TypeOK, Labels,
        Undoing, Working, Root, Payload, Marker, Revision, NoFile
<1>2. UnitSound'
    BY DEF NothingToRecover, Goto, catalog, Inv, SafeInv, Typed, TypeOK, UnitSound,
        Written, Labels, Undoing, Working, Payload, Marker
<1>3. ASSUME ~ioErrors' PROVE DurableOK'
    BY <1>3 DEF NothingToRecover, Goto, catalog, Inv, SafeInv, Typed, TypeOK,
        OverCrashes, DurableOK, SessionOK, Past, PayloadOK, Agree, AgreeBut,
        BackupOf, Undoing, Working, UnitSound, Written, Root, Payload, Marker,
        Revision, NoFile
<1>4. ASSUME ~ioErrors' PROVE SessionOK'
    BY <1>4 DEF NothingToRecover, Goto, catalog, Inv, SafeInv, Typed, TypeOK,
        OverCrashes, DurableOK, SessionOK, Past, PayloadOK, Agree, AgreeBut,
        BackupOf, Undoing, Working, Labels, Root, Payload, Marker, Revision, NoFile
<1> QED BY <1>1, <1>2, <1>3, <1>4 DEF Inv, SafeInv, OverCrashes

\* The session takes commands.
LEMMA OpenedInv ==
    ASSUME Inv, Opened
    PROVE  Inv'
<1> USE NoneAssumption, BoundAssumption
<1>1. Typed'
    BY DEF Opened, Goto, catalog, Inv, SafeInv, Typed, TypeOK, Labels, Undoing,
        Working, Root, Payload, Marker, Revision, NoFile
<1>2. UnitSound'
    BY DEF Opened, Goto, catalog, Inv, SafeInv, Typed, TypeOK, UnitSound, Written,
        Labels, Undoing, Working, Payload, Marker
<1>3. ASSUME ~ioErrors' PROVE DurableOK'
    BY <1>3 DEF Opened, Goto, catalog, Inv, SafeInv, Typed, TypeOK, OverCrashes,
        DurableOK, SessionOK, Past, PayloadOK, Agree, AgreeBut, BackupOf, Undoing,
        Working, UnitSound, Written, Root, Payload, Marker, Revision, NoFile
<1>4. ASSUME ~ioErrors' PROVE SessionOK'
    BY <1>4 DEF Opened, Goto, catalog, Inv, SafeInv, Typed, TypeOK, OverCrashes,
        DurableOK, SessionOK, Past, PayloadOK, Agree, AgreeBut, BackupOf, Undoing,
        Working, Labels, Root, Payload, Marker, Revision, NoFile
<1> QED BY <1>1, <1>2, <1>3, <1>4 DEF Inv, SafeInv, OverCrashes

\* A unit gets a new revision, its payload and its backups.
LEMMA BeginInv ==
    ASSUME NEW d \in Domain, NEW fs \in (SUBSET File) \ {{}}, Inv, Begin(d, fs)
    PROVE  Inv'
<1> USE NoneAssumption, BoundAssumption
<1>0. /\ unit' \in Payload
      /\ unit'.tx = rev + 1 /\ unit'.dom = d /\ unit'.old = mem[d] /\ unit'.files = fs
      /\ unit'.new = [f \in File |-> IF f \in fs THEN rev + 1 ELSE mem[d][f]]
      /\ unit'.backed = {f \in fs : blob[d][f] # NoFile}
      /\ rev + 1 \in Revision
    <2>1. mem[d] \in Root /\ rev + 1 \in Revision
        BY DEF Begin, Inv, SafeInv, Typed, TypeOK, Revision
    <2>2. [f \in File |-> IF f \in fs THEN rev + 1 ELSE mem[d][f]] \in Root
        BY <2>1 DEF Root
    <2> QED BY <2>1, <2>2 DEF Begin, Payload
<1>b. /\ backup' \in [Revision -> Root]
      /\ \A f \in unit'.backed : backup'[rev + 1][f] = blob[d][f]
    <2>1. \A f \in File : blob[d][f] \in Revision \cup {NoFile} /\ backup[rev + 1] \in Root
        BY <1>0 DEF Inv, SafeInv, Typed, TypeOK, Root
    <2> DEFINE b == [f \in File |-> IF f \in unit'.backed THEN blob[d][f] ELSE backup[rev + 1][f]]
    <2>2. b \in Root
        BY <2>1 DEF Root
    <2>3. backup' = [backup EXCEPT ![rev + 1] = b] /\ backup \in [Revision -> Root]
        BY <1>0 DEF Begin, Inv, SafeInv, Typed, TypeOK
    <2>4. unit'.backed \subseteq File
        BY <1>0
    <2> HIDE DEF b
    <2>5. backup' \in [Revision -> Root] /\ backup'[rev + 1] = b
        BY <1>0, <2>2, <2>3
    <2> QED BY <2>4, <2>5 DEF b
<1>t. rev' \in 0..MaxRevision /\ todo' \subseteq File
    BY <1>0 DEF Begin, Revision
<1>1. Typed'
    BY <1>0, <1>b, <1>t
        DEF Begin, Goto, catalog, Inv, SafeInv, Typed, TypeOK, Labels, Undoing, Working, Revision
<1>2. UnitSound'
    BY DEF Begin, Goto, UnitSound
<1>3. ASSUME ~ioErrors' PROVE DurableOK' /\ SessionOK'
    <2>1. /\ DurableOK /\ mem = cat /\ pend = None /\ marker = None /\ rev \in Nat
          /\ rev' = rev + 1 /\ pc' = "stage" /\ cat \in [Domain -> Root]
          /\ UNCHANGED <<cat, mem, pend, blob, marker>>
        BY <1>3 DEF Begin, Goto, catalog, Inv, SafeInv, Typed, TypeOK, OverCrashes, SessionOK
    <2>2. DurableOK'
        BY <2>1 DEF DurableOK, Past, Agree, Root, Revision, NoFile
    <2>3. PayloadOK(unit)'
        BY <1>0, <1>b, <2>1 DEF DurableOK, Past, Agree, PayloadOK, BackupOf, Root, Revision, NoFile
    <2>4. SessionOK'
        BY <1>0, <2>1, <2>3 DEF SessionOK, Undoing
    <2> QED BY <2>2, <2>4
<1> QED BY <1>1, <1>2, <1>3 DEF Inv, SafeInv, OverCrashes

\* The marker is staged before any file changes.
LEMMA WriteStagingInv ==
    ASSUME Inv, WriteStaging
    PROVE  Inv'
<1> USE NoneAssumption, BoundAssumption
<1>1. Typed'
    BY DEF WriteStaging, Goto, catalog, Inv, SafeInv, Typed, TypeOK, Labels, Undoing,
        Working, Root, Payload, Marker, Revision, NoFile
<1>2. UnitSound'
    BY DEF WriteStaging, Goto, catalog, Inv, SafeInv, Typed, TypeOK, UnitSound,
        Written, Labels, Undoing, Working, Payload, Marker
<1>3. ASSUME ~ioErrors' PROVE DurableOK'
    BY <1>3 DEF WriteStaging, Goto, catalog, Inv, SafeInv, Typed, TypeOK,
        OverCrashes, DurableOK, SessionOK, Past, PayloadOK, Agree, AgreeBut,
        BackupOf, Undoing, Working, UnitSound, Written, Root, Payload, Marker,
        Revision, NoFile
<1>4. ASSUME ~ioErrors' PROVE SessionOK'
    BY <1>4 DEF WriteStaging, Goto, catalog, Inv, SafeInv, Typed, TypeOK,
        OverCrashes, DurableOK, SessionOK, Past, PayloadOK, Agree, AgreeBut,
        BackupOf, Undoing, Working, Labels, Root, Payload, Marker, Revision, NoFile
<1> QED BY <1>1, <1>2, <1>3, <1>4 DEF Inv, SafeInv, OverCrashes

\* The marker commits the unit to its files.
LEMMA WriteCommittingInv ==
    ASSUME Inv, WriteCommitting
    PROVE  Inv'
<1> USE NoneAssumption, BoundAssumption
<1>1. Typed'
    BY DEF WriteCommitting, Goto, catalog, Inv, SafeInv, Typed, TypeOK, Labels,
        Undoing, Working, Root, Payload, Marker, Revision, NoFile
<1>2. UnitSound'
    BY DEF WriteCommitting, Goto, catalog, Inv, SafeInv, Typed, TypeOK, UnitSound,
        Written, Labels, Undoing, Working, Payload, Marker
<1>3. ASSUME ~ioErrors' PROVE DurableOK'
    BY <1>3 DEF WriteCommitting, Goto, catalog, Inv, SafeInv, Typed, TypeOK,
        OverCrashes, DurableOK, SessionOK, Past, PayloadOK, Agree, AgreeBut,
        BackupOf, Undoing, Working, UnitSound, Written, Root, Payload, Marker,
        Revision, NoFile
<1>4. ASSUME ~ioErrors' PROVE SessionOK'
    BY <1>4 DEF WriteCommitting, Goto, catalog, Inv, SafeInv, Typed, TypeOK,
        OverCrashes, DurableOK, SessionOK, Past, PayloadOK, Agree, AgreeBut,
        BackupOf, Undoing, Working, Labels, Root, Payload, Marker, Revision, NoFile
<1> QED BY <1>1, <1>2, <1>3, <1>4 DEF Inv, SafeInv, OverCrashes

\* One file of the unit is in place.
LEMMA WriteFileInv ==
    ASSUME NEW f \in File, Inv, WriteFile(f)
    PROVE  Inv'
<1> USE NoneAssumption, BoundAssumption
<1>0. unit \in Payload /\ unit.dom \in Domain /\ unit.tx \in Revision /\ blob \in [Domain -> Root]
      /\ unit.files \subseteq File
    BY PayloadParts DEF WriteFile, Inv, SafeInv, Typed, TypeOK, Working
<1>b. /\ blob' \in [Domain -> Root]
      /\ \A e \in Domain, g \in File :
            blob'[e][g] = IF e = unit.dom /\ g = f THEN unit.tx ELSE blob[e][g]
    BY <1>0, SetFile DEF WriteFile
<1>1. Typed'
    BY <1>b DEF WriteFile, catalog, Inv, SafeInv, Typed, TypeOK
<1>2. UnitSound'
    BY <1>0, <1>b DEF WriteFile, Inv, SafeInv, UnitSound, Written
<1>3. ASSUME ~ioErrors' PROVE DurableOK' /\ SessionOK'
    <2>1. /\ DurableOK /\ SessionOK /\ pc = "write" /\ f \in unit.files
          /\ cat[unit.dom] = unit.old /\ PayloadOK(unit)
          /\ marker = [phase |-> "Committing", payload |-> unit] /\ pend = None /\ mem = cat
          /\ UNCHANGED <<cat, pend, mem, backup, marker, unit, rev, pc>>
        BY <1>3 DEF WriteFile, catalog, Inv, SafeInv, UnitSound, OverCrashes, SessionOK
    <2>2. marker # None /\ marker.phase = "Committing" /\ marker.payload = unit
        BY <1>0, <2>1 DEF Marker
    <2>3. AgreeBut(cat, unit.dom, unit.files)'
        BY <1>0, <1>b, <2>1, <2>2 DEF DurableOK, AgreeBut
    <2>4. PayloadOK(unit)'
        BY <2>1 DEF PayloadOK, BackupOf
    <2>5. DurableOK'
        BY <2>1, <2>2, <2>3, <2>4 DEF DurableOK, Past
    <2>6. SessionOK'
        BY <2>1, <2>4 DEF SessionOK, Undoing
    <2> QED BY <2>5, <2>6
<1> QED BY <1>1, <1>2, <1>3 DEF Inv, SafeInv, OverCrashes

\* All files are in place when the save starts.
LEMMA SaveCatalogInv ==
    ASSUME Inv, SaveCatalog
    PROVE  Inv'
<1> USE NoneAssumption, BoundAssumption
<1>0. unit \in Payload /\ unit.dom \in Domain /\ unit.new \in Root /\ unit.files \subseteq File
      /\ mem \in [Domain -> Root] /\ cat \in [Domain -> Root]
      /\ (pend # None => pend \in [Domain -> Root])
    BY PayloadParts DEF SaveCatalog, Inv, SafeInv, Typed, TypeOK, Working
<1>p. /\ mem' \in [Domain -> Root] /\ mem'[unit.dom] = unit.new
      /\ cat' \in [Domain -> Root] /\ pend' = [cat' EXCEPT ![unit.dom] = unit.new]
      /\ pend' \in [Domain -> Root] /\ pend'[unit.dom] = unit.new
    BY <1>0, SetRoot DEF SaveCatalog, Settled
<1>1. Typed'
    BY <1>p DEF SaveCatalog, Goto, Inv, SafeInv, Typed, TypeOK, Labels, Undoing, Working
<1>2. UnitSound'
    BY <1>p DEF SaveCatalog, Goto, Inv, SafeInv, UnitSound, Written
<1>3. ASSUME ~ioErrors' PROVE DurableOK' /\ SessionOK'
    <2>1. /\ DurableOK /\ SessionOK /\ pc = "write" /\ pc' = "swap" /\ Written(unit.files)
          /\ cat[unit.dom] = unit.old /\ PayloadOK(unit)
          /\ marker = [phase |-> "Committing", payload |-> unit] /\ pend = None /\ mem = cat
          /\ UNCHANGED <<blob, backup, marker, unit, rev>>
        BY <1>3 DEF SaveCatalog, Goto, Inv, SafeInv, UnitSound, OverCrashes, SessionOK
    <2>2. marker # None /\ marker.phase = "Committing" /\ marker.payload = unit
        BY <1>0, <2>1 DEF Marker
    <2>3. cat' = cat /\ mem' = pend'
        BY <2>1, <1>p DEF SaveCatalog, Settled
    <2>4. Agree(pend)'
        BY <1>0, <1>p, <2>1, <2>2, <2>3, SetRoot DEF DurableOK, AgreeBut, Agree, Written, PayloadOK
    <2>5. PayloadOK(unit)' /\ AgreeBut(cat, unit.dom, unit.files)'
        BY <2>1, <2>2, <2>3 DEF DurableOK, PayloadOK, BackupOf, AgreeBut
    <2>6. DurableOK'
        BY <1>p, <2>1, <2>2, <2>3, <2>4, <2>5 DEF DurableOK, Past
    <2>7. SessionOK'
        BY <2>1, <2>3 DEF SessionOK, Undoing
    <2> QED BY <2>6, <2>7
<1> QED BY <1>1, <1>2, <1>3 DEF Inv, SafeInv, OverCrashes

\* The new root is the durable one.
LEMMA SaveCommitsInv ==
    ASSUME Inv, SaveCommits
    PROVE  Inv'
<1> USE NoneAssumption, BoundAssumption
<1>0. unit \in Payload /\ unit.dom \in Domain /\ unit.new \in Root
      /\ pend \in [Domain -> Root] /\ pend # None
    BY PayloadParts DEF SaveCommits, Inv, SafeInv, Typed, TypeOK, Working, UnitSound
<1>1. Typed'
    BY <1>0 DEF SaveCommits, Goto, Inv, SafeInv, Typed, TypeOK, Labels, Undoing, Working
<1>2. UnitSound'
    BY DEF SaveCommits, Goto, Inv, SafeInv, UnitSound, Written
<1>3. ASSUME ~ioErrors' PROVE DurableOK' /\ SessionOK'
    <2>1. /\ DurableOK /\ SessionOK /\ pc = "swap" /\ pc' = "unmark" /\ mem = pend
          /\ marker = [phase |-> "Committing", payload |-> unit]
          /\ cat' = pend /\ pend' = None /\ UNCHANGED <<mem, blob, backup, marker, unit, rev>>
        BY <1>3 DEF SaveCommits, Goto, Inv, SafeInv, OverCrashes, SessionOK
    <2>2. marker # None /\ marker.phase = "Committing" /\ marker.payload = unit
        BY <1>0, <2>1 DEF Marker
    <2>3. /\ Agree(pend) /\ PayloadOK(unit) /\ cat[unit.dom] = unit.old /\ Past(cat)
          /\ pend = [cat EXCEPT ![unit.dom] = unit.new]
        BY <1>0, <2>1, <2>2 DEF DurableOK
    <2>4. Past(cat)'
        BY <1>0, <2>1, <2>3, PayloadParts, SetRoot, SMTT(30)
            DEF Past, PayloadOK, Inv, SafeInv, Typed, TypeOK, Root, Revision, NoFile
    <2>5. PayloadOK(unit)' /\ Agree(cat)' /\ AgreeBut(cat, unit.dom, unit.files)'
        BY <2>1, <2>3 DEF PayloadOK, BackupOf, Agree, AgreeBut
    <2>6. cat'[unit.dom] = unit.new
        BY <2>1 DEF SaveCommits, Inv, SafeInv, UnitSound
    <2>7. DurableOK'
        BY <2>1, <2>2, <2>4, <2>5, <2>6 DEF DurableOK
    <2>8. SessionOK'
        BY <2>1 DEF SessionOK, Undoing
    <2> QED BY <2>7, <2>8
<1> QED BY <1>1, <1>2, <1>3 DEF Inv, SafeInv, OverCrashes

\* The marker goes once the new root is durable.
LEMMA DeleteMarkerInv ==
    ASSUME Inv, DeleteMarker
    PROVE  Inv'
<1> USE NoneAssumption, BoundAssumption
<1>1. Typed'
    BY DEF DeleteMarker, Goto, catalog, Inv, SafeInv, Typed, TypeOK, Labels, Undoing,
        Working, Root, Payload, Marker, Revision, NoFile
<1>2. UnitSound'
    BY DEF DeleteMarker, Goto, catalog, Inv, SafeInv, Typed, TypeOK, UnitSound,
        Written, Labels, Undoing, Working, Payload, Marker
<1>3. ASSUME ~ioErrors' PROVE DurableOK'
    BY <1>3 DEF DeleteMarker, Goto, catalog, Inv, SafeInv, Typed, TypeOK,
        OverCrashes, DurableOK, SessionOK, Past, PayloadOK, Agree, AgreeBut,
        BackupOf, Undoing, Working, UnitSound, Written, Root, Payload, Marker,
        Revision, NoFile
<1>4. ASSUME ~ioErrors' PROVE SessionOK'
    BY <1>4 DEF DeleteMarker, Goto, catalog, Inv, SafeInv, Typed, TypeOK,
        OverCrashes, DurableOK, SessionOK, Past, PayloadOK, Agree, AgreeBut,
        BackupOf, Undoing, Working, Labels, Root, Payload, Marker, Revision, NoFile
<1> QED BY <1>1, <1>2, <1>3, <1>4 DEF Inv, SafeInv, OverCrashes

\* The unit is over.
LEMMA CleanBackupsInv ==
    ASSUME Inv, CleanBackups
    PROVE  Inv'
<1> USE NoneAssumption, BoundAssumption
<1>1. Typed'
    BY DEF CleanBackups, cleanup_domain_backups, Return, Goto, catalog, Inv, SafeInv,
        Typed, TypeOK, Labels, Undoing, Working, Root, Payload, Marker, Revision,
        NoFile
<1>2. UnitSound'
    BY DEF CleanBackups, cleanup_domain_backups, Return, Goto, catalog, Inv, SafeInv,
        Typed, TypeOK, UnitSound, Written, Labels, Undoing, Working, Payload, Marker
<1>3. ASSUME ~ioErrors' PROVE DurableOK'
    BY <1>3 DEF CleanBackups, cleanup_domain_backups, Return, Goto, catalog, Inv,
        SafeInv, Typed, TypeOK, OverCrashes, DurableOK, SessionOK, Past, PayloadOK,
        Agree, AgreeBut, BackupOf, Undoing, Working, UnitSound, Written, Root,
        Payload, Marker, Revision, NoFile
<1>4. ASSUME ~ioErrors' PROVE SessionOK'
    BY <1>4 DEF CleanBackups, cleanup_domain_backups, Return, Goto, catalog, Inv,
        SafeInv, Typed, TypeOK, OverCrashes, DurableOK, SessionOK, Past, PayloadOK,
        Agree, AgreeBut, BackupOf, Undoing, Working, Labels, Root, Payload, Marker,
        Revision, NoFile
<1> QED BY <1>1, <1>2, <1>3, <1>4 DEF Inv, SafeInv, OverCrashes

\* After an error no unit runs.
LEMMA StagingFailsInv ==
    ASSUME Inv, StagingFails, ioErrors
    PROVE  Inv'
<1> USE NoneAssumption, BoundAssumption
<1>1. Typed'
    BY DEF StagingFails, cleanup_domain_backups, Return, Goto, catalog, Inv, SafeInv,
        Typed, TypeOK, Labels, Undoing, Working, Root, Payload, Marker, Revision,
        NoFile
<1>2. UnitSound'
    BY DEF StagingFails, cleanup_domain_backups, Return, Goto, catalog, Inv, SafeInv,
        Typed, TypeOK, UnitSound, Written, Labels, Undoing, Working, Payload, Marker
<1>3. OverCrashes'
    BY DEF StagingFails, cleanup_domain_backups, Return, Goto, catalog, OverCrashes
<1> QED BY <1>1, <1>2, <1>3 DEF Inv, SafeInv

\* After an error no unit runs.
LEMMA CommittingFailsInv ==
    ASSUME Inv, CommittingFails, ioErrors
    PROVE  Inv'
<1> USE NoneAssumption, BoundAssumption
<1>1. Typed'
    BY DEF CommittingFails, Return, Goto, catalog, Inv, SafeInv, Typed, TypeOK,
        Labels, Undoing, Working, Root, Payload, Marker, Revision, NoFile
<1>2. UnitSound'
    BY DEF CommittingFails, Return, Goto, catalog, Inv, SafeInv, Typed, TypeOK,
        UnitSound, Written, Labels, Undoing, Working, Payload, Marker
<1>3. OverCrashes'
    BY DEF CommittingFails, Return, Goto, catalog, OverCrashes
<1> QED BY <1>1, <1>2, <1>3 DEF Inv, SafeInv

\* After an error no unit runs.
LEMMA WriteFailsInv ==
    ASSUME Inv, WriteFails, ioErrors
    PROVE  Inv'
<1> USE NoneAssumption, BoundAssumption
<1>1. blob' \in [Domain -> Root]
    <2>1. unit \in Payload /\ unit.dom \in Domain /\ unit.tx \in Revision /\ blob \in [Domain -> Root]
          /\ backup[unit.tx] \in Root
        BY PayloadParts DEF WriteFails, Inv, SafeInv, Typed, TypeOK, Working
    <2>2. PICK done \in SUBSET unit.files :
         blob' = [blob EXCEPT ![unit.dom] = [f \in File |->
                    CASE f \in done \cap unit.backed -> BackupOf(unit, f)
                      [] f \in unit.files \ (todo \cup (done \cap unit.backed)) -> NoFile
                      [] OTHER -> @[f]]]
        BY DEF WriteFails
    <2> DEFINE r == [f \in File |->
                    CASE f \in done \cap unit.backed -> BackupOf(unit, f)
                      [] f \in unit.files \ (todo \cup (done \cap unit.backed)) -> NoFile
                      [] OTHER -> blob[unit.dom][f]]
    <2>3. r \in Root
        BY <2>1 DEF Root, BackupOf
    <2>4. blob' = [blob EXCEPT ![unit.dom] = r]
        BY <2>1, <2>2
    <2> HIDE DEF r
    <2> QED BY <2>1, <2>3, <2>4, SetRoot
<1>2. Typed'
    BY <1>1 DEF WriteFails, Return, catalog, Inv, SafeInv, Typed, TypeOK, Labels, Undoing, Working
<1>3. UnitSound'
    BY DEF WriteFails, Return, UnitSound
<1>4. OverCrashes'
    BY DEF WriteFails, OverCrashes
<1> QED BY <1>2, <1>3, <1>4 DEF Inv, SafeInv

\* After an error no unit runs.
LEMMA SaveFailsInv ==
    ASSUME Inv, SaveFails, ioErrors
    PROVE  Inv'
<1> USE NoneAssumption, BoundAssumption
<1>1. /\ unit.dom \in Domain /\ unit.old \in Root /\ mem \in [Domain -> Root]
      /\ pend \in [Domain -> Root] /\ cat \in [Domain -> Root]
    BY PayloadParts DEF SaveFails, Inv, SafeInv, Typed, TypeOK, Working, UnitSound
<1>r. mem' \in [Domain -> Root]
    BY <1>1, SetRoot DEF SaveFails
<1>2. Typed'
    BY <1>1, <1>r
        DEF SaveFails, Return, Inv, SafeInv, Typed, TypeOK, Labels, Undoing, Working
<1>3. UnitSound'
    BY DEF SaveFails, Return, UnitSound
<1>4. OverCrashes'
    BY DEF SaveFails, OverCrashes
<1> QED BY <1>2, <1>3, <1>4 DEF Inv, SafeInv

\* After an error no unit runs.
LEMMA DeleteMarkerFailsInv ==
    ASSUME Inv, DeleteMarkerFails, ioErrors
    PROVE  Inv'
<1> USE NoneAssumption, BoundAssumption
<1>1. Typed'
    BY DEF DeleteMarkerFails, Return, Goto, catalog, Inv, SafeInv, Typed, TypeOK,
        Labels, Undoing, Working, Root, Payload, Marker, Revision, NoFile
<1>2. UnitSound'
    BY DEF DeleteMarkerFails, Return, Goto, catalog, Inv, SafeInv, Typed, TypeOK,
        UnitSound, Written, Labels, Undoing, Working, Payload, Marker
<1>3. OverCrashes'
    BY DEF DeleteMarkerFails, Return, Goto, catalog, OverCrashes
<1> QED BY <1>1, <1>2, <1>3 DEF Inv, SafeInv

\* A crash leaves what is on disk.
LEMMA CrashInv ==
    ASSUME Inv, Crash
    PROVE  Inv'
<1> USE NoneAssumption, BoundAssumption
<1>1. Typed'
    BY DEF Crash, Goto, catalog, Inv, SafeInv, Typed, TypeOK, Labels, Undoing,
        Working, Root, Payload, Marker, Revision, NoFile
<1>2. UnitSound'
    BY DEF Crash, Goto, catalog, Inv, SafeInv, Typed, TypeOK, UnitSound, Written,
        Labels, Undoing, Working, Payload, Marker
<1>3. ASSUME ~ioErrors' PROVE DurableOK'
    BY <1>3 DEF Crash, Goto, catalog, Inv, SafeInv, Typed, TypeOK, OverCrashes,
        DurableOK, SessionOK, Past, PayloadOK, Agree, AgreeBut, BackupOf, Undoing,
        Working, UnitSound, Written, Root, Payload, Marker, Revision, NoFile
<1>4. ASSUME ~ioErrors' PROVE SessionOK'
    BY <1>4 DEF Crash, Goto, catalog, Inv, SafeInv, Typed, TypeOK, OverCrashes,
        DurableOK, SessionOK, Past, PayloadOK, Agree, AgreeBut, BackupOf, Undoing,
        Working, Labels, Root, Payload, Marker, Revision, NoFile
<1> QED BY <1>1, <1>2, <1>3, <1>4 DEF Inv, SafeInv, OverCrashes

\* Between two commands no marker needs a backup.
LEMMA GcBackupsInv ==
    ASSUME Inv, GcBackups
    PROVE  Inv'
<1> USE NoneAssumption, BoundAssumption
<1>1. Typed'
    BY DEF GcBackups, Goto, catalog, Inv, SafeInv, Typed, TypeOK, Labels, Undoing,
        Working, Root, Payload, Marker, Revision, NoFile
<1>2. UnitSound'
    BY DEF GcBackups, Goto, catalog, Inv, SafeInv, Typed, TypeOK, UnitSound, Written,
        Labels, Undoing, Working, Payload, Marker
<1>3. ASSUME ~ioErrors' PROVE DurableOK'
    BY <1>3 DEF GcBackups, Goto, catalog, Inv, SafeInv, Typed, TypeOK, OverCrashes,
        DurableOK, SessionOK, Past, PayloadOK, Agree, AgreeBut, BackupOf, Undoing,
        Working, UnitSound, Written, Root, Payload, Marker, Revision, NoFile
<1>4. ASSUME ~ioErrors' PROVE SessionOK'
    BY <1>4 DEF GcBackups, Goto, catalog, Inv, SafeInv, Typed, TypeOK, OverCrashes,
        DurableOK, SessionOK, Past, PayloadOK, Agree, AgreeBut, BackupOf, Undoing,
        Working, Labels, Root, Payload, Marker, Revision, NoFile
<1> QED BY <1>1, <1>2, <1>3, <1>4 DEF Inv, SafeInv, OverCrashes

\* Only files the catalog does not name are collected.
LEMMA GcFilesInv ==
    ASSUME Inv, GcFiles
    PROVE  Inv'
<1> USE NoneAssumption, BoundAssumption
<1>1. Typed'
    BY DEF GcFiles, Goto, catalog, Inv, SafeInv, Typed, TypeOK, Labels, Undoing,
        Working, Root, Payload, Marker, Revision, NoFile
<1>2. UnitSound'
    BY DEF GcFiles, Goto, catalog, Inv, SafeInv, Typed, TypeOK, UnitSound, Written,
        Labels, Undoing, Working, Payload, Marker
<1>3. ASSUME ~ioErrors' PROVE DurableOK'
    BY <1>3 DEF GcFiles, Goto, catalog, Inv, SafeInv, Typed, TypeOK, OverCrashes,
        DurableOK, SessionOK, Past, PayloadOK, Agree, AgreeBut, BackupOf, Undoing,
        Working, UnitSound, Written, Root, Payload, Marker, Revision, NoFile
<1>4. ASSUME ~ioErrors' PROVE SessionOK'
    BY <1>4 DEF GcFiles, Goto, catalog, Inv, SafeInv, Typed, TypeOK, OverCrashes,
        DurableOK, SessionOK, Past, PayloadOK, Agree, AgreeBut, BackupOf, Undoing,
        Working, Labels, Root, Payload, Marker, Revision, NoFile
<1> QED BY <1>1, <1>2, <1>3, <1>4 DEF Inv, SafeInv, OverCrashes

\* Stuttering.
LEMMA StutterInv ==
    ASSUME Inv, UNCHANGED vars
    PROVE  Inv'
BY DEF vars, Inv, SafeInv, Typed, TypeOK, UnitSound, Written, OverCrashes, DurableOK, SessionOK,
    Past, PayloadOK, Agree, AgreeBut, BackupOf

\* The invariant is inductive.
LEMMA NextInv == Inv /\ [Next]_vars => Inv'
<1> SUFFICES ASSUME Inv, [Next]_vars PROVE Inv'
    OBVIOUS
<1>1. CASE Recovery
    BY <1>1, recover_domain_recordInv, NothingToRecoverInv, UndoDoneInv, RewriteNewInv,
        ForgetBackupsInv, ForgetMarkerInv, OpenedInv, UndoInv DEF Recovery
<1>2. CASE Commit
    BY <1>2, WriteStagingInv, WriteCommittingInv, SaveCatalogInv, SaveCommitsInv,
        DeleteMarkerInv, CleanBackupsInv, WriteFileInv DEF Commit
<1>3. CASE Error
    BY <1>3, StagingFailsInv, CommittingFailsInv, WriteFailsInv, SaveFailsInv,
        DeleteMarkerFailsInv DEF Error
<1>4. CASE \E d \in Domain, fs \in (SUBSET File) \ {{}} : Begin(d, fs)
    BY <1>4, BeginInv
<1>5. CASE Unlock \/ UndoFails \/ Crash \/ GcBackups \/ GcFiles
    BY <1>5, UnlockInv, UndoFailsInv, CrashInv, GcBackupsInv, GcFilesInv
<1>6. CASE UNCHANGED vars
    BY <1>6, StutterInv
<1> QED BY <1>1, <1>2, <1>3, <1>4, <1>5, <1>6 DEF Next

\* The invariant holds throughout every behaviour.
LEMMA Invariance == Spec => []Inv
BY InitInv, NextInv, PTL DEF Spec

(***************************************************************************)
(* The results.                                                             *)
(***************************************************************************)
\* Catalogs, files, backups, marker and running unit always have their types
\* (domain_uow), also after failing calls and crashes.
THEOREM UowTypeCorrect == Spec => []TypeOK
<1>1. Inv => TypeOK
    BY DEF Inv, SafeInv, Typed
<1> QED BY <1>1, Invariance, PTL

\* A unit that is about to report success has its root in the durable catalog and
\* in the session and all its files in place, whatever storage calls failed and
\* wherever earlier units or recoveries were cut short.
THEOREM UnitIsComplete == Spec => []SuccessIsComplete
<1>1. Inv => SuccessIsComplete
    BY DEF Inv, SafeInv, UnitSound, Written, SuccessIsComplete
<1> QED BY <1>1, Invariance, PTL

\* Over any number of crashes, in a unit or in a recovery, every file has the
\* revision the catalog gives it whenever the session takes commands.
THEOREM FilesAndCatalogChangeTogether == Spec => []FilesMatchCatalog
<1>1. Inv => FilesMatchCatalog
    BY DEF Inv, SafeInv, Typed, OverCrashes, DurableOK, SessionOK, FilesMatchCatalog
<1> QED BY <1>1, Invariance, PTL
=============================================================================
