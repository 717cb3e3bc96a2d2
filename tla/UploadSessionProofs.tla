------------------------ MODULE UploadSessionProofs -------------------------
(***************************************************************************)
(* What uploads, their recovery and the readers next to them keep, for any *)
(* number of chunks, commands, crashes and readers, any size of the cache  *)
(* and any set of failing calls.                                           *)
(*                                                                         *)
(* Types always hold (TypeOK).  What is said about contents holds until    *)
(* one of the excepted faults has happened.  Recoverability is the heart:  *)
(* a Committing marker is Undoable (its backups are the catalog's version) *)
(* or Done (the catalog has the upload and only its old tail is left), and *)
(* StepOK says which of the two at every place of a command or a recovery. *)
(* For the cache it is enough that a reader that was opened before the     *)
(* invalidation of a command can insert nothing any more.                  *)
(***************************************************************************)
EXTENDS UploadSession, TLAPS, FiniteSetTheorems, WellFoundedInduction

Old(f) == cat[f].content

\* The chunks of a version are its first ones.
Whole(c) == \E n \in 0..MaxChunks : \A i \in Idx : c[i] # Absent <=> i <= n

Gapless(t) == t.temps = 1..t.uploaded
Written(t) == \A i \in t.temps : temp[t.file][i] = t.op
Began(t) == /\ t.phase = "staging" /\ Gapless(t)
            /\ t.isNew => cat[t.file] = NoNode /\ t.oldLen = 0

\* What a marker in the Committing phase says, and the two states it may be in.
Complete(t) == /\ t.phase = "committing" /\ Gapless(t) /\ t.total = t.uploaded
               /\ t.baks \subseteq 1..t.oldLen

Undoable(t) ==
    /\ Complete(t) /\ cat[t.file].rev # t.rev /\ t.rev < nextOp
    /\ t.baks = {i \in Idx : Old(t.file)[i] # Absent}
    /\ \A i \in t.baks : backup[t.file][i] = Old(t.file)[i]
    /\ \A i \in Idx \ t.temps : canon[t.file][i] = Old(t.file)[i]

New(t) == [rev |-> t.rev, content |-> Over(Empty, t.temps, All(t.op))]

Done(t) ==
    /\ Complete(t) /\ cat[t.file] = New(t)
    /\ \A i \in t.temps : canon[t.file][i] = t.op
    /\ \A i \in Idx : i > t.uploaded /\ i > t.oldLen => canon[t.file][i] = Absent

Same(f) == canon[f] = Old(f)

\* The versions, and the files no command is changing.
FilesOK ==
    /\ \A f \in Files : Whole(Old(f)) /\ cat[f].rev < nextOp
    /\ \A f \in Files :
         ~(tx.phase = "committing" /\ tx.file = f) /\ ~(op.kind = "replace" /\ f = 1) => Same(f)

MarkerOK ==
    /\ tx.phase = "staging" => Began(tx)
    /\ tx.phase = "staging" /\ open /\ op.kind \in {"none", "replace"} => Written(tx)
    /\ tx.phase = "committing" /\ ~InRollbackTail => Undoable(tx) \/ Done(tx)

\* Where a part of an upload is.
Placed(t) == \A i \in t.temps : canon[t.file][i] = t.op
UploadOK ==
    op.kind = "upload" =>
      LET t == op.tx IN
      /\ op.pc # "save" => mem = cat
      /\ op.pc \in {"temp", "stage", "backup"} => Began(t) /\ Written(t)
      /\ op.pc \in {"temp", "stage", "backup", "commit"} => tx.phase = "staging" /\ tx.file = t.file
      /\ op.pc = "backup" => t.total = t.uploaded
      /\ op.pc = "commit" => Undoable(t) /\ Written(t)
      /\ op.pc \in {"canon", "finalize", "save", "undo", "undone", "rollback", "clean"} => tx = t
      /\ op.pc \in {"canon", "finalize", "save", "undo", "undone"} => Undoable(t)
      /\ op.pc = "canon" => /\ Written(t)
                            /\ \A i \in t.temps : canon[t.file][i] \in {Old(t.file)[i], t.op}
      /\ op.pc \in {"finalize", "save", "undo"} => Placed(t)
      /\ op.pc = "save" => mem = [cat EXCEPT ![t.file] = New(t)]
      /\ op.pc = "clean" => Done(t)
      /\ op.pc = "rollback" => Complete(t)
      /\ op.pc \in {"undone", "rollback", "abort", "drop"} => \A f \in Files : Same(f)

ReplaceOK ==
    op.kind = "replace" =>
      /\ mem = cat /\ tx.phase # "committing" /\ cat[1] # NoNode
      /\ op.old = Old(1) /\ Whole(op.new) /\ op.op < nextOp
      /\ \A i \in Idx \ op.todo : canon[1][i] = op.new[i]

RecoverOK ==
    op.kind = "recover" =>
      /\ op.pc = "chunks" => ~op.back
      /\ op.pc = "clean" /\ op.back => Undoable(tx) /\ Same(tx.file)
      /\ op.pc = "clean" /\ ~op.back => tx.phase = "staging" \/ Done(tx)
      /\ op.pc = "drop" => Same(tx.file) /\ (~op.back => tx.phase = "staging" \/ Done(tx))
      /\ op.pc = "drop" /\ op.back => tx.phase = "committing"

IdleOK ==
    op.kind \in {"none", "recover"} => mem = cat /\ (open => tx.phase # "committing")

StepOK == UploadOK /\ ReplaceOK /\ RecoverOK /\ IdleOK

\* The cache of the running command's file was invalidated by it.
Invalidated ==
    \/ op.kind = "replace"
    \/ op.kind = "upload" /\ op.pc \in {"save", "undo", "undone", "rollback", "clean"}
Changing == IF op.kind = "replace" THEN 1 ELSE op.tx.file

\* What is cached is the chunk of the revision, or one that replaces it and will be
\* invalidated.
True(f, i, d) ==
    \/ d = mem[f].content[i]
    \/ /\ op.kind = "upload" /\ op.pc \in {"canon", "finalize"} /\ op.tx.file = f
       /\ i \in op.tx.temps /\ d = op.tx.op /\ canon[f][i] = op.tx.op

Live == reader # NoReader /\ reader.cached

ReaderOK ==
    /\ Live => open /\ reader.gen <= generation /\ (Invalidated => reader.gen < generation)
    /\ ~open => cache = {}
    /\ Cardinality(cache) <= MaxEntries /\ IsFiniteSet(cache)

CacheOK ==
    /\ Invalidated => \A e \in cache : e.key[1] # Changing
    /\ \A e \in cache : e.key[2] = mem[e.key[1]].rev => True(e.key[1], e.key[3], e.data)
    /\ Live /\ reader.pc = "insert" /\ reader.gen = generation /\ reader.rev = mem[reader.file].rev
         => True(reader.file, reader.idx, reader.data)

Inv == TypeOK /\ ReaderOK /\ (faults = {} => FilesOK /\ MarkerOK /\ StepOK /\ CacheOK)

(***************************************************************************)
(* Facts about the operators of the model.                                 *)
(***************************************************************************)
Contents == [Idx -> Held]

LEMMA Basics ==
    /\ Idx \subseteq Nat /\ 1 \in Idx /\ IsFiniteSet(Idx)
    /\ Cardinality(Idx) = MaxChunks
    /\ \A i \in Idx : i >= 1 /\ i <= MaxChunks
    /\ \A i \in Nat : i >= 1 /\ i <= MaxChunks => i \in Idx
    /\ Absent \notin Nat /\ Absent \in Held
    /\ \A v \in 1..(MaxOps + 1) : v \in Held /\ v # Absent
<1>1. MaxChunks \in Nat \ {0} /\ MaxOps \in Nat
    BY UploadAssumption
<1>2. IsFiniteSet(1..MaxChunks) /\ Cardinality(1..MaxChunks) = MaxChunks
    BY <1>1, FS_Interval
<1> QED BY <1>1, <1>2 DEF Idx, Held, Absent

\* The first chunk of a non-empty set.
LEMMA LeastFacts ==
    ASSUME NEW S \in SUBSET Idx, S # {}
    PROVE  Least(S) \in S
<1>1. S \subseteq Nat
    BY Basics
<1>2. PICK x \in S : \A y \in S : ~(<<y, x>> \in OpToRel(<, Nat))
    BY <1>1, WFMin, NatLessThanWellFounded, Zenon
<1>3. \A y \in S : x <= y
    <2> SUFFICES ASSUME NEW y \in S PROVE x <= y
        OBVIOUS
    <2>1. x \in Nat /\ y \in Nat /\ <<y, x>> \in Nat \X Nat
        BY <1>1
    <2>2. ~(y < x)
        BY <1>2, <2>1, Zenon DEF OpToRel
    <2> QED BY <2>1, <2>2
<1> QED BY <1>2, <1>3 DEF Least

\* Some chunks of c replaced by those of d.
LEMMA OverFacts ==
    ASSUME NEW c, NEW S, NEW d
    PROVE  /\ \A i \in Idx : Over(c, S, d)[i] = IF i \in S THEN d[i] ELSE c[i]
           /\ c \in Contents /\ (\A i \in S \cap Idx : d[i] \in Held) => Over(c, S, d) \in Contents
           /\ \A e \in Contents : (\A i \in Idx : e[i] = IF i \in S THEN d[i] ELSE c[i])
                                  => Over(c, S, d) = e
BY DEF Over, Contents

LEMMA OverType ==
    ASSUME NEW c \in Contents, NEW d \in Contents, NEW S
    PROVE  Over(c, S, d) \in Contents
BY DEF Over, Contents

LEMMA EmptyFacts ==
    /\ Empty \in Contents /\ \A i \in Idx : Empty[i] = Absent
    /\ \A v : \A i \in Idx : All(v)[i] = v
    /\ \A v \in 1..(MaxOps + 1) : All(v) \in Contents
BY Basics DEF Empty, All, Contents

\* The length of a version.
LEMMA LengthType ==
    ASSUME NEW c
    PROVE  /\ Length(c) \in 0..MaxChunks
           /\ c[1] # Absent => Length(c) \in Idx
<1> DEFINE T == {i \in Idx : c[i] # Absent}
<1>1. IsFiniteSet(T) /\ Cardinality(T) \in Nat /\ Cardinality(T) <= MaxChunks
    BY Basics, FS_Subset, FS_CardinalityType
<1>2. ASSUME c[1] # Absent PROVE Cardinality(T) # 0
    <2>1. 1 \in T
        BY <1>2, Basics
    <2> QED BY <1>1, <2>1, FS_EmptySet
<1> QED BY <1>1, <1>2, Basics, UploadAssumption DEF Length

LEMMA LengthFacts ==
    ASSUME NEW c, NEW n \in 0..MaxChunks, \A i \in Idx : c[i] # Absent <=> i <= n
    PROVE  Length(c) = n
<1>1. {i \in Idx : c[i] # Absent} = 1..n
    BY Basics, UploadAssumption DEF Idx
<1>2. Cardinality(1..n) = n
    BY FS_Interval
<1> QED BY <1>1, <1>2 DEF Length

\* The version an upload makes.
LEMMA NewFacts ==
    ASSUME NEW t \in Uploads, Gapless(t)
    PROVE  /\ New(t) \in Versions /\ New(t).rev = t.rev
           /\ \A i \in Idx : New(t).content[i] = IF i \in t.temps THEN t.op ELSE Absent
           /\ Whole(New(t).content) /\ Length(New(t).content) = t.uploaded
<1> DEFINE c == Over(Empty, t.temps, All(t.op))
<1>1. /\ t.op \in 1..(MaxOps + 1) /\ t.temps \subseteq Idx /\ t.uploaded \in 0..MaxChunks
      /\ t.rev \in 0..(MaxOps + 1) /\ t.temps = 1..t.uploaded
    BY DEF Uploads, Gapless
<1>2. c \in Contents /\ \A i \in Idx : c[i] = IF i \in t.temps THEN t.op ELSE Absent
    BY <1>1, OverFacts, EmptyFacts, Basics DEF Contents
<1>3. \A i \in Idx : c[i] # Absent <=> i <= t.uploaded
    BY <1>1, <1>2, Basics
<1>4. New(t) = [rev |-> t.rev, content |-> c]
    BY DEF New
<1> HIDE DEF c
<1>5. Length(c) = t.uploaded
    BY <1>1, <1>3, LengthFacts
<1> QED BY <1>1, <1>2, <1>3, <1>4, <1>5 DEF Whole, Versions, Contents

(***************************************************************************)
(* Types.                                                                  *)
(***************************************************************************)
Pcs == {"temp", "stage", "backup", "commit", "canon", "finalize", "save", "clean",
        "undo", "undone", "rollback", "abort", "drop"}

\* The kinds of what is under way.
LEMMA Kinds ==
    ASSUME TypeOK
    PROVE  /\ op.kind = "none" <=> op = NoOp
           /\ op.kind = "upload" <=> op \in UploadOps
           /\ op.kind = "replace" <=> op \in ReplaceOps
           /\ op.kind = "recover" <=> op \in RecoverOps
           /\ op.kind \in {"none", "upload", "replace", "recover"}
           /\ tx = NoTx <=> tx.phase = "none"
           /\ tx # NoTx => tx \in Uploads
           /\ tx.phase \in {"none", "staging", "committing"}
           /\ reader # NoReader => reader \in Readers
           /\ reader = NoReader <=> reader.pc = "closed"
BY DEF TypeOK, UploadOps, ReplaceOps, RecoverOps, NoOp, NoTx, Uploads, NoReader, Readers

\* The fields of a marker.
LEMMA UploadFields ==
    ASSUME NEW t \in Uploads
    PROVE  /\ t.phase \in {"staging", "committing"} /\ t.file \in Files /\ t.op \in 1..(MaxOps + 1)
           /\ t.isNew \in BOOLEAN /\ t.total \in 0..MaxChunks /\ t.uploaded \in 0..MaxChunks
           /\ t.oldLen \in 0..MaxChunks /\ t.oldRev \in 0..(MaxOps + 1)
           /\ t.temps \subseteq Idx /\ t.baks \subseteq Idx /\ t.rev \in 0..(MaxOps + 1)
           /\ t # NoTx /\ t.op \in Held /\ t.op # Absent
<1>1. /\ t.phase \in {"staging", "committing"} /\ t.file \in Files /\ t.op \in 1..(MaxOps + 1)
      /\ t.isNew \in BOOLEAN /\ t.total \in 0..MaxChunks /\ t.uploaded \in 0..MaxChunks
      /\ t.oldLen \in 0..MaxChunks /\ t.oldRev \in 0..(MaxOps + 1)
      /\ t.temps \subseteq Idx /\ t.baks \subseteq Idx /\ t.rev \in 0..(MaxOps + 1)
    BY DEF Uploads
<1> QED BY <1>1, Basics DEF NoTx

\* The upload under way.
LEMMA OpFields ==
    ASSUME TypeOK, op.kind = "upload"
    PROVE  /\ op \in UploadOps /\ op.tx \in Uploads /\ op.pc \in Pcs /\ op.tx.file \in Files
           /\ \A p \in Pcs : [op EXCEPT !.pc = p] \in UploadOps
           /\ \A p \in Pcs : [op EXCEPT !.pc = p].tx = op.tx /\ [op EXCEPT !.pc = p].pc = p
                             /\ [op EXCEPT !.pc = p].kind = "upload"
<1>1. op \in UploadOps
    BY Kinds
<1> QED BY <1>1, UploadFields DEF UploadOps, Pcs

\* A version of a file.
LEMMA VersionFields ==
    ASSUME NEW c \in [Files -> Versions], NEW f \in Files
    PROVE  c[f] \in Versions /\ c[f].rev \in 0..(MaxOps + 1) /\ c[f].content \in Contents
BY DEF Versions, Contents

\* What a new marker says.
LEMMA NewTxFacts ==
    ASSUME TypeOK, NEW f \in Files, NEW total \in Totals(f), nextOp <= MaxOps
    PROVE  /\ NewTx(f, total) \in Uploads /\ NewTx(f, total).phase = "staging"
           /\ NewTx(f, total).file = f /\ NewTx(f, total).temps = {}
           /\ NewTx(f, total).uploaded = 0 /\ NewTx(f, total).isNew = (mem[f] = NoNode)
           /\ NewTx(f, total).oldLen = Length(mem[f].content)
<1> DEFINE new == mem[f] = NoNode
           t == [phase |-> "staging", file |-> f, op |-> nextOp, isNew |-> new, total |-> total,
                 uploaded |-> 0, oldLen |-> Length(mem[f].content), oldRev |-> mem[f].rev,
                 temps |-> {}, baks |-> {}, rev |-> 0]
<1>1. /\ total \in 0..MaxChunks /\ nextOp \in 1..(MaxOps + 1)
      /\ Length(mem[f].content) \in 0..MaxChunks /\ mem[f].rev \in 0..(MaxOps + 1)
      /\ 0 \in 0..MaxChunks /\ 0 \in 0..(MaxOps + 1)
    BY LengthType, VersionFields, UploadAssumption, Basics DEF TypeOK, Totals, Unknown
<1>2. NewTx(f, total) = t
    BY DEF NewTx
<1>3. new \in BOOLEAN
    OBVIOUS
<1> HIDE DEF new
<1>4. t \in Uploads
    BY <1>1, <1>3 DEF Uploads
<1>5. /\ t.phase = "staging" /\ t.file = f /\ t.temps = {} /\ t.uploaded = 0 /\ t.isNew = new
      /\ t.oldLen = Length(mem[f].content)
    OBVIOUS
<1> QED BY <1>2, <1>4, <1>5 DEF new

\* What a new marker says of the chunks it has put away.
LEMMA RestoredType ==
    ASSUME TypeOK, NEW t \in Uploads
    PROVE  /\ Restored(t) \in [Files -> [Idx -> Held]]
           /\ \A g \in Files \ {t.file} : Restored(t)[g] = canon[g]
           /\ \A i \in Idx : Restored(t)[t.file][i] =
                 IF i \in t.baks THEN backup[t.file][i]
                 ELSE IF i \in t.temps THEN Absent ELSE canon[t.file][i]
<1> DEFINE a == Over(canon[t.file], t.temps \ t.baks, Empty)
           b == Over(a, t.baks, backup[t.file])
<1>1. t.file \in Files /\ canon[t.file] \in Contents /\ backup[t.file] \in Contents
    BY UploadFields DEF TypeOK, Contents
<1>2. a \in Contents /\ \A i \in Idx : a[i] = IF i \in t.temps \ t.baks THEN Absent ELSE canon[t.file][i]
    BY <1>1, OverFacts, EmptyFacts DEF Contents
<1>3. Restored(t) = [canon EXCEPT ![t.file] = b]
    BY DEF Restored
<1> HIDE DEF a
<1>4. b \in Contents /\ \A i \in Idx : b[i] = IF i \in t.baks THEN backup[t.file][i] ELSE a[i]
    BY <1>1, <1>2, OverFacts DEF Contents
<1> QED BY <1>1, <1>2, <1>3, <1>4 DEF TypeOK, Contents

\* The types, apart from those of the readers and of the cache.
MainTypes ==
    /\ canon \in [Files -> Contents] /\ temp \in [Files -> Contents] /\ backup \in [Files -> Contents]
    /\ cat \in [Files -> Versions] /\ mem \in [Files -> Versions]
    /\ tx \in Uploads \cup {NoTx} /\ op \in UploadOps \cup ReplaceOps \cup RecoverOps \cup {NoOp}
    /\ op.kind \in {"upload", "replace"} => open
    /\ op.kind = "recover" => ~open /\ tx # NoTx
    /\ open \in BOOLEAN /\ refused \in BOOLEAN /\ faults \subseteq Faults
    /\ nextOp \in 2..(MaxOps + 2) /\ crashes \in 0..MaxCrashes
RestTypes ==
    /\ reader \in Readers \cup {NoReader} /\ (reader # NoReader => reader.idx <= reader.len)
    /\ opened \in 0..MaxReaders
    /\ cache \subseteq Entries /\ generation \in Nat /\ access_counter \in Nat

LEMMA TypeSplit == TypeOK <=> MainTypes /\ RestTypes
BY DEF TypeOK, MainTypes, RestTypes, Contents

\* The steps that leave the readers alone.
SameRest == UNCHANGED readVars /\ (UNCHANGED cacheVars \/ \E f \in Files : InvalidateNode(f))

LEMMA TypeParts ==
    ASSUME TypeOK, SameRest,
           canon' \in [Files -> Contents], temp' \in [Files -> Contents],
           backup' \in [Files -> Contents], cat' \in [Files -> Versions], mem' \in [Files -> Versions],
           tx' \in Uploads \cup {NoTx}, op' \in UploadOps \cup ReplaceOps \cup RecoverOps \cup {NoOp},
           op'.kind \in {"upload", "replace"} => open',
           op'.kind = "recover" => ~open' /\ tx' # NoTx,
           open' \in BOOLEAN, refused' \in BOOLEAN, faults' \subseteq Faults,
           nextOp' \in 2..(MaxOps + 2), crashes' \in 0..MaxCrashes
    PROVE  TypeOK'
<1>1. MainTypes'
    BY DEF MainTypes
<1>2. RestTypes
    BY TypeSplit
<1>3. RestTypes'
    BY <1>2 DEF RestTypes, SameRest, readVars, cacheVars, InvalidateNode
<1> QED BY <1>1, <1>3, TypeSplit, PTL

\* The parts of an upload up to its commit keep the types.
LEMMA PartTypes ==
    ASSUME TypeOK, ContinueUpload \/ AbortUpload \/ WriteTemp \/ StageUpload \/ BackupUpload \/ CommitMarker
    PROVE  TypeOK'
<1>r. SameRest /\ UNCHANGED <<open, crashes, refused>>
    BY DEF SameRest, ContinueUpload, AbortUpload, WriteTemp, StageUpload, BackupUpload, CommitMarker,
       boundVars, faultVars
<1>d. canon' = canon /\ cat' = cat /\ mem' = mem
    BY DEF ContinueUpload, AbortUpload, WriteTemp, StageUpload, BackupUpload, CommitMarker, diskVars, catVars
<1>t. /\ canon \in [Files -> Contents] /\ temp \in [Files -> Contents] /\ backup \in [Files -> Contents]
      /\ tx \in Uploads \cup {NoTx} /\ faults \subseteq Faults /\ nextOp \in 2..(MaxOps + 2)
    BY DEF TypeOK, Contents
<1>1. CASE ContinueUpload \/ AbortUpload
    <2>1. open /\ tx \in Uploads
        BY <1>1, Kinds DEF ContinueUpload, AbortUpload, Ready
    <2>2. op' \in UploadOps /\ op'.kind = "upload"
        <3>1. \A p \in Pcs : [kind |-> "upload", pc |-> p, tx |-> tx] \in UploadOps
            BY <2>1 DEF UploadOps, Pcs
        <3>2. \E p \in Pcs : op' = [kind |-> "upload", pc |-> p, tx |-> tx]
            BY <1>1 DEF ContinueUpload, AbortUpload, Pcs
        <3> QED BY <3>1, <3>2
    <2>3. UNCHANGED <<temp, backup, tx, nextOp, faults>>
        BY <1>1 DEF ContinueUpload, AbortUpload, diskVars, boundVars, faultVars
    <2> QED BY <1>r, <1>d, <1>t, <2>1, <2>2, <2>3, TypeParts DEF TypeOK
<1>2. CASE WriteTemp
    <2>1. op.kind = "upload" /\ open /\ UNCHANGED <<backup, tx, nextOp, faults>>
        BY <1>2 DEF WriteTemp, boundVars, faultVars, TypeOK
    <2>2. /\ op \in UploadOps /\ op.tx \in Uploads /\ op.tx.file \in Files
          /\ op.tx.temps \subseteq Idx /\ op.tx.uploaded \in 0..MaxChunks /\ op.tx.op \in Held
        BY <2>1, OpFields, UploadFields
    <2>3. CASE WriteFails /\ UNCHANGED temp
        <3>1. op' \in UploadOps /\ op'.kind = "upload"
            BY <2>1, <2>3, OpFields DEF WriteFails, Go, Pcs
        <3> QED BY <1>r, <1>d, <1>t, <2>1, <2>3, <3>1, TypeParts DEF TypeOK
    <2>4. CASE ~(WriteFails /\ UNCHANGED temp)
        <3> DEFINE i == op.tx.uploaded + 1
                   u == [op.tx EXCEPT !.temps = @ \cup {i}, !.uploaded = i]
        <3>1. /\ i <= MaxChunks /\ temp' = [temp EXCEPT ![op.tx.file][i] = op.tx.op]
              /\ op' = [op EXCEPT !.pc = "stage", !.tx.temps = @ \cup {i}, !.tx.uploaded = i]
            BY <1>2, <2>4 DEF WriteTemp
        <3>2. i \in Idx /\ i \in 0..MaxChunks
            BY <2>2, <3>1, Basics, UploadAssumption
        <3>3. op' = [op EXCEPT !.pc = "stage", !.tx = u]
            BY <2>2, <3>1 DEF UploadOps, Uploads
        <3>4. u \in Uploads
            BY <2>2, <3>2 DEF Uploads
        <3>5. op' \in UploadOps /\ op'.kind = "upload"
            BY <2>2, <3>3, <3>4 DEF UploadOps
        <3>6. temp' \in [Files -> Contents]
            BY <1>t, <2>2, <3>1, <3>2 DEF Contents
        <3> QED BY <1>r, <1>d, <1>t, <2>1, <3>5, <3>6, TypeParts DEF TypeOK
    <2> QED BY <2>3, <2>4
<1>3. CASE StageUpload
    <2>1. op.kind = "upload" /\ open /\ UNCHANGED <<temp, backup, nextOp, faults>>
        BY <1>3 DEF StageUpload, diskVars, boundVars, faultVars, TypeOK
    <2>2. op \in UploadOps /\ op.tx \in Uploads /\ op.tx.total \in 0..MaxChunks /\ op.tx.uploaded \in 0..MaxChunks
        BY <2>1, OpFields, UploadFields
    <2>3. CASE WriteFails /\ tx' \in {tx, op.tx}
        <3>1. op' \in UploadOps /\ op'.kind = "upload"
            BY <2>1, <2>3, OpFields DEF WriteFails, Go, Pcs
        <3> QED BY <1>r, <1>d, <1>t, <2>1, <2>2, <2>3, <3>1, TypeParts DEF TypeOK
    <2>4. CASE ~(WriteFails /\ tx' \in {tx, op.tx})
        <3>1. PICK total \in IF op.tx.total = Unknown THEN {Unknown, op.tx.uploaded} ELSE {op.tx.total} :
                 LET t == [op.tx EXCEPT !.total = total] IN
                 /\ tx' = t
                 /\ op' = IF t.uploaded = total THEN [op EXCEPT !.pc = "backup", !.tx = t] ELSE NoOp
            BY <1>3, <2>4 DEF StageUpload
        <3>2. total \in 0..MaxChunks
            BY <2>2, UploadAssumption DEF Unknown
        <3>3. tx' \in Uploads
            BY <2>2, <3>1, <3>2 DEF Uploads
        <3>4. op' \in UploadOps \cup {NoOp} /\ op'.kind \in {"upload", "none"}
            BY <2>2, <3>1, <3>3 DEF UploadOps, NoOp
        <3> QED BY <1>r, <1>d, <1>t, <2>1, <3>3, <3>4, TypeParts DEF TypeOK
    <2> QED BY <2>3, <2>4
<1>4. CASE BackupUpload
    <2>1. op.kind = "upload" /\ open /\ UNCHANGED <<temp, tx>> /\ nextOp <= MaxOps + 1
        BY <1>4 DEF BackupUpload, TypeOK
    <2>2. op \in UploadOps /\ op.tx \in Uploads /\ op.tx.oldLen \in 0..MaxChunks /\ op.tx.file \in Files
        BY <2>1, OpFields, UploadFields
    <2>3. CASE WriteFails /\ UNCHANGED <<backup, nextOp, faults>>
        <3>1. op' \in UploadOps /\ op'.kind = "upload"
            BY <2>1, <2>3, OpFields DEF WriteFails, Go, Pcs
        <3> QED BY <1>r, <1>d, <1>t, <2>1, <2>3, <3>1, TypeParts DEF TypeOK
    <2>4. CASE ~(WriteFails /\ UNCHANGED <<backup, nextOp, faults>>)
        <3> DEFINE f == op.tx.file
                   S == {i \in 1..op.tx.oldLen : canon[f][i] # Absent}
                   u == [op.tx EXCEPT !.baks = S, !.rev = nextOp, !.phase = "committing"]
        <3>1. /\ backup' = [backup EXCEPT ![f] = Over(Empty, S, canon[f])]
              /\ op' = [op EXCEPT !.pc = "commit", !.tx.baks = S, !.tx.rev = nextOp,
                                  !.tx.phase = "committing"]
              /\ nextOp' = nextOp + 1
              /\ faults' = faults \cup (IF Stale(op.tx) THEN {"stale"} ELSE {})
            BY <1>4, <2>4 DEF BackupUpload
        <3>2. S \subseteq Idx /\ nextOp \in 0..(MaxOps + 1) /\ nextOp' \in 2..(MaxOps + 2)
            BY <1>t, <2>1, <2>2, <3>1, Basics, UploadAssumption
        <3>3. op' = [op EXCEPT !.pc = "commit", !.tx = u]
            BY <2>2, <3>1 DEF UploadOps, Uploads
        <3> HIDE DEF S
        <3>4. u \in Uploads
            BY <2>2, <3>2 DEF Uploads
        <3>5. op' \in UploadOps /\ op'.kind = "upload"
            BY <2>2, <3>3, <3>4 DEF UploadOps
        <3>6. backup' \in [Files -> Contents]
            <4>1. Over(Empty, S, canon[f]) \in Contents
                <5>1. \A i \in S \cap Idx : canon[f][i] \in Held
                    BY <1>t, <2>2 DEF Contents
                <5> QED BY <5>1, OverFacts, EmptyFacts
            <4> QED BY <1>t, <2>2, <3>1, <4>1
        <3>7. faults' \subseteq Faults
            BY <1>t, <3>1 DEF Faults
        <3> QED BY <1>r, <1>d, <1>t, <2>1, <3>2, <3>5, <3>6, <3>7, TypeParts DEF TypeOK
    <2> QED BY <2>3, <2>4
<1>5. CASE CommitMarker
    <2>1. op.kind = "upload" /\ open /\ UNCHANGED <<temp, backup, nextOp, faults>>
        BY <1>5 DEF CommitMarker, diskVars, boundVars, faultVars, TypeOK
    <2>2. op.tx \in Uploads
        BY <2>1, OpFields
    <2>3. op' \in UploadOps /\ op'.kind = "upload" /\ tx' \in {tx, op.tx}
        <3>1. \E p \in Pcs : op' = [op EXCEPT !.pc = p]
            BY <1>5 DEF CommitMarker, WriteFails, Go, Pcs
        <3>2. tx' \in {tx, op.tx}
            BY <1>5 DEF CommitMarker
        <3> QED BY <2>1, <3>1, <3>2, OpFields
    <2> QED BY <1>r, <1>d, <1>t, <2>1, <2>2, <2>3, TypeParts DEF TypeOK
<1> QED BY <1>1, <1>2, <1>3, <1>4, <1>5

\* The commit of an upload, its clean-up and its abort keep the types.
LEMMA CommitTypes ==
    ASSUME TypeOK,
           \/ WriteCanon \/ FinalizeUpload \/ SaveUpload \/ CleanUpload \/ UndoUpload \/ CleanAborted
           \/ DropUpload
    PROVE  TypeOK'
<1>r. UNCHANGED <<open, crashes, refused, nextOp>> /\ op.kind = "upload" /\ open
    BY DEF WriteCanon, FinalizeUpload, SaveUpload, CleanUpload, UndoUpload, CleanAborted, DropUpload,
       boundVars, faultVars, TypeOK
<1>k. op \in UploadOps /\ op.tx \in Uploads /\ op.tx.file \in Files
    BY <1>r, OpFields
<1>s. SameRest
    BY <1>k DEF SameRest, WriteCanon, FinalizeUpload, SaveUpload, CleanUpload, UndoUpload, CleanAborted,
       DropUpload
<1>t. /\ canon \in [Files -> Contents] /\ temp \in [Files -> Contents] /\ backup \in [Files -> Contents]
      /\ tx \in Uploads \cup {NoTx} /\ faults \subseteq Faults /\ nextOp \in 2..(MaxOps + 2)
      /\ cat \in [Files -> Versions] /\ mem \in [Files -> Versions]
      /\ crashes \in 0..MaxCrashes /\ refused \in BOOLEAN
    BY DEF TypeOK, Contents
<1>o. op' \in UploadOps \cup {NoOp} /\ op'.kind \in {"upload", "none"}
    <2>1. (\E p \in Pcs : op' = [op EXCEPT !.pc = p]) \/ op' = NoOp \/ op' = op
        BY DEF WriteCanon, FinalizeUpload, SaveUpload, CleanUpload, UndoUpload, CleanAborted, DropUpload,
           Go, Pcs
    <2>2. NoOp.kind = "none"
        BY DEF NoOp
    <2> QED BY <1>r, <1>k, <2>1, <2>2, OpFields
<1>x. tx' \in Uploads \cup {NoTx}
    BY <1>t DEF WriteCanon, FinalizeUpload, SaveUpload, CleanUpload, UndoUpload, CleanAborted, DropUpload
<1>f. faults' \subseteq Faults
    BY <1>t DEF WriteCanon, FinalizeUpload, SaveUpload, CleanUpload, UndoUpload, CleanAborted, DropUpload,
       faultVars, Faults
<1>c. \A S : \A d \in {canon, temp, backup} :
         [d EXCEPT ![op.tx.file] = Over(@, S, Empty)] \in [Files -> Contents]
    <2> SUFFICES ASSUME NEW S, NEW d \in {canon, temp, backup}
                 PROVE  [d EXCEPT ![op.tx.file] = Over(@, S, Empty)] \in [Files -> Contents]
        OBVIOUS
    <2>1. Over(d[op.tx.file], S, Empty) \in Contents
        BY <1>k, <1>t, OverType, EmptyFacts
    <2> QED BY <1>k, <1>t, <2>1
<1>d. canon' \in [Files -> Contents] /\ temp' \in [Files -> Contents] /\ backup' \in [Files -> Contents]
    <2>1. CASE WriteCanon
        <3>1. NotYet \subseteq Idx
            BY <1>k, UploadFields DEF NotYet
        <3>2. \A i \in Idx : [canon EXCEPT ![op.tx.file] = Over(@, {i}, temp[op.tx.file])]
                             \in [Files -> Contents]
            <4> SUFFICES ASSUME NEW i \in Idx
                         PROVE  Over(canon[op.tx.file], {i}, temp[op.tx.file]) \in Contents
                BY <1>k, <1>t
            <4> QED BY <1>k, <1>t, OverType
        <3>3. NotYet # {} => Least(NotYet) \in Idx
            BY <3>1, LeastFacts
        <3> QED BY <1>t, <1>c, <2>1, <3>2, <3>3 DEF WriteCanon
    <2>2. CASE FinalizeUpload \/ DropUpload
        BY <1>t, <2>2 DEF FinalizeUpload, DropUpload, diskVars
    <2>3. CASE SaveUpload
        BY <1>k, <1>t, <2>3, RestoredType DEF SaveUpload, Contents
    <2>4. CASE CleanUpload
        <3>1. [backup EXCEPT ![op.tx.file] = Empty] \in [Files -> Contents]
            BY <1>t, EmptyFacts
        <3> QED BY <1>c, <2>4, <3>1 DEF CleanUpload
    <2>5. CASE UndoUpload
        <3>1. [backup EXCEPT ![op.tx.file] = Empty] \in [Files -> Contents]
            BY <1>t, EmptyFacts
        <3>2. Restored(op.tx) \in [Files -> Contents]
            BY <1>k, RestoredType DEF Contents
        <3> QED BY <1>t, <1>c, <2>5, <3>1, <3>2 DEF UndoUpload
    <2>6. CASE CleanAborted
        BY <1>t, <1>c, <2>6 DEF CleanAborted
    <2> QED BY <2>1, <2>2, <2>3, <2>4, <2>5, <2>6
<1>v. cat' \in [Files -> Versions] /\ mem' \in [Files -> Versions]
    <2>1. Uploaded \in [Files -> Versions]
        <3>1. Over(Empty, op.tx.temps, All(op.tx.op)) \in [Idx -> Held]
            BY <1>k, OverFacts, EmptyFacts, UploadFields DEF Contents
        <3>2. op.tx.rev \in 0..(MaxOps + 1)
            BY <1>k, UploadFields
        <3> QED BY <1>t, <1>k, <3>1, <3>2 DEF Uploaded, Versions
    <2>2. [mem EXCEPT ![op.tx.file] = cat[op.tx.file]] \in [Files -> Versions]
        BY <1>k, <1>t
    <2> QED BY <1>t, <2>1, <2>2
        DEF WriteCanon, FinalizeUpload, SaveUpload, CleanUpload, UndoUpload, CleanAborted, DropUpload, catVars
<1> QED BY <1>r, <1>s, <1>t, <1>o, <1>x, <1>f, <1>d, <1>v, TypeParts DEF TypeOK

\* The commands on a file keep the types.
LEMMA CommandTypes ==
    ASSUME TypeOK,
           \/ \E f \in Files : \E total \in Totals(f) : BeginUpload(f, total)
           \/ \E n \in Idx : BeginReplace(n)
           \/ ReplaceChunk \/ EndReplace
    PROVE  TypeOK'
<1>t. /\ canon \in [Files -> Contents] /\ temp \in [Files -> Contents] /\ backup \in [Files -> Contents]
      /\ tx \in Uploads \cup {NoTx} /\ faults \subseteq Faults /\ nextOp \in 2..(MaxOps + 2)
      /\ cat \in [Files -> Versions] /\ mem \in [Files -> Versions]
      /\ crashes \in 0..MaxCrashes /\ refused \in BOOLEAN /\ open \in BOOLEAN
      /\ 1 \in Files /\ MaxOps \in Nat
    BY UploadAssumption DEF TypeOK, Contents, Files
<1>1. ASSUME NEW f \in Files, NEW total \in Totals(f), BeginUpload(f, total)
      PROVE  TypeOK'
    <2>1. /\ nextOp <= MaxOps /\ open /\ nextOp' = nextOp + 1 /\ tx' = NewTx(f, total)
          /\ op' = [kind |-> "upload", pc |-> "temp", tx |-> NewTx(f, total)]
          /\ UNCHANGED <<diskVars, catVars, open, readVars, crashes, faultVars, cacheVars>>
        BY <1>1 DEF BeginUpload, Ready
    <2>2. NewTx(f, total) \in Uploads
        BY <2>1, NewTxFacts
    <2>3. op' \in UploadOps /\ op'.kind = "upload"
        BY <2>1, <2>2 DEF UploadOps
    <2>4. nextOp' \in 2..(MaxOps + 2)
        BY <1>t, <2>1
    <2> QED BY <1>t, <2>1, <2>2, <2>3, <2>4, TypeParts DEF diskVars, catVars, faultVars, SameRest
<1>2. ASSUME NEW n \in Idx, BeginReplace(n)
      PROVE  TypeOK'
    <2> DEFINE new == Over(Empty, 1..n, All(nextOp))
    <2>1. /\ nextOp <= MaxOps /\ open /\ nextOp' = nextOp + 1
          /\ op' = [kind |-> "replace", op |-> nextOp, old |-> canon[1], new |-> new, todo |-> Idx]
          /\ UNCHANGED <<diskVars, tx, catVars, open, readVars, crashes, faultVars>>
          /\ InvalidateNode(1)
        BY <1>2 DEF BeginReplace, Ready
    <2>2. nextOp \in 1..(MaxOps + 1) /\ nextOp' \in 2..(MaxOps + 2)
        BY <1>t, <2>1
    <2>3. new \in [Idx -> Held]
        BY <2>2, OverFacts, EmptyFacts, Basics DEF Contents
    <2>4. canon[1] \in [Idx -> Held]
        BY <1>t DEF Contents
    <2> HIDE DEF new
    <2>5. op' \in ReplaceOps /\ op'.kind = "replace"
        BY <2>1, <2>2, <2>3, <2>4 DEF ReplaceOps
    <2> QED BY <1>t, <2>1, <2>2, <2>5, TypeParts DEF diskVars, catVars, faultVars, SameRest
<1>3. CASE ReplaceChunk
    <2>1. op \in ReplaceOps /\ op.kind = "replace" /\ open
        BY <1>3, Kinds DEF ReplaceChunk, TypeOK
    <2>2. op.todo \subseteq Idx /\ op.todo # {} /\ op.new \in Contents
        BY <1>3, <2>1 DEF ReplaceChunk, ReplaceOps, Contents
    <2>3. Least(op.todo) \in Idx
        BY <2>2, LeastFacts
    <2>4. op' \in ReplaceOps /\ op'.kind = "replace"
        BY <1>3, <2>1 DEF ReplaceChunk, ReplaceOps
    <2>5. canon' \in [Files -> Contents]
        <3>1. Over(canon[1], {Least(op.todo)}, op.new) \in Contents
            BY <1>t, <2>2, OverType
        <3> QED BY <1>3, <1>t, <3>1 DEF ReplaceChunk
    <2>6. UNCHANGED <<temp, backup, tx, catVars, open, readVars, boundVars, faultVars, cacheVars>>
        BY <1>3 DEF ReplaceChunk
    <2> QED BY <1>t, <2>1, <2>4, <2>5, <2>6, TypeParts DEF catVars, faultVars, boundVars, SameRest
<1>4. CASE EndReplace
    <2>1. op \in ReplaceOps /\ op.kind = "replace" /\ open
        BY <1>4, Kinds DEF EndReplace, TypeOK
    <2>2. op.old \in Contents /\ op.new \in Contents /\ op.op \in 1..(MaxOps + 1)
        BY <2>1 DEF ReplaceOps, Contents
    <2>3. op' = NoOp /\ NoOp.kind = "none"
        BY <1>4 DEF EndReplace, NoOp
    <2>4. canon' \in [Files -> Contents]
        BY <1>4, <1>t, <2>2 DEF EndReplace
    <2>5. cat' \in [Files -> Versions] /\ mem' \in [Files -> Versions]
        <3>1. [mem EXCEPT ![1] = [rev |-> op.op, content |-> op.new]] \in [Files -> Versions]
            BY <1>t, <2>2 DEF Versions, Contents
        <3> QED BY <1>4, <1>t, <3>1 DEF EndReplace, catVars
    <2>6. UNCHANGED <<temp, backup, tx, open, readVars, boundVars, faultVars>>
        BY <1>4 DEF EndReplace
    <2>7. SameRest
        BY <1>4, <1>t DEF EndReplace, SameRest
    <2> QED BY <1>t, <2>1, <2>3, <2>4, <2>5, <2>6, <2>7, TypeParts DEF faultVars, boundVars
<1> QED BY <1>1, <1>2, <1>3, <1>4

\* The cache keeps its types.
LEMMA CacheTypes ==
    ASSUME TypeOK, NEW key \in Files \X (0..(MaxOps + 1)) \X Idx, NEW data \in Held
    PROVE  /\ Touch(key) => cache' \subseteq Entries /\ generation' \in Nat /\ access_counter' \in Nat
           /\ \A g : Insert(g, key, data) =>
                 cache' \subseteq Entries /\ generation' \in Nat /\ access_counter' \in Nat
<1>t. cache \subseteq Entries /\ generation \in Nat /\ access_counter \in Nat
    BY DEF TypeOK
<1>1. ASSUME Touch(key) PROVE cache' \subseteq Entries /\ generation' \in Nat /\ access_counter' \in Nat
    <2>1. access_counter' \in Nat /\ generation' \in Nat
        BY <1>t, <1>1 DEF Touch
    <2>2. \A e \in Entries : [e EXCEPT !.last_access = access_counter'] \in Entries
        BY <2>1 DEF Entries
    <2> QED BY <1>t, <1>1, <2>1, <2>2 DEF Touch, EntriesOf
<1>2. WithEntry(key, data) \subseteq Entries
    <2>1. [key |-> key, data |-> data, last_access |-> access_counter + 1] \in Entries
        BY <1>t DEF Entries
    <2> QED BY <1>t, <2>1 DEF WithEntry, Evicted, EntriesOf
<1> QED BY <1>t, <1>1, <1>2 DEF Insert

\* The readers keep the types.
LEMMA ReaderTypes ==
    ASSUME TypeOK, (\E f \in Files : OpenReader(f)) \/ ReaderGet \/ ReaderRead \/ ReaderInsert
    PROVE  TypeOK'
<1>m. MainTypes'
    <2>1. MainTypes
        BY TypeSplit
    <2>2. UNCHANGED <<diskVars, tx, catVars, open, op, boundVars, faultVars>>
        BY DEF OpenReader, ReaderGet, ReaderRead, ReaderInsert
    <2> QED BY <2>1, <2>2 DEF MainTypes, diskVars, catVars, boundVars, faultVars
<1>r. RestTypes
    BY TypeSplit
<1>1. ASSUME NEW f \in Files, OpenReader(f) PROVE RestTypes'
    <2>1. Length(mem[f].content) \in Idx /\ 1 \in Idx /\ Absent \in Held
        BY <1>1, LengthType, Basics DEF OpenReader
    <2>2. mem[f].rev \in 0..(MaxOps + 1) /\ generation \in Nat
        BY VersionFields DEF TypeOK
    <2>3. reader' \in Readers /\ reader'.idx = 1 /\ reader'.len = Length(mem[f].content)
        BY <1>1, <2>1, <2>2 DEF OpenReader, Readers
    <2>4. opened' \in 0..MaxReaders /\ UNCHANGED cacheVars
        BY <1>1, <1>r, UploadAssumption DEF OpenReader, RestTypes
    <2>5. reader'.idx <= reader'.len
        BY <2>1, <2>3, Basics
    <2> QED BY <1>r, <2>3, <2>4, <2>5 DEF RestTypes, cacheVars
<1>2. ASSUME ReaderGet \/ ReaderRead \/ ReaderInsert PROVE RestTypes'
    <2>1. reader \in Readers /\ reader.idx <= reader.len /\ opened' = opened
        BY <1>2, <1>r, Kinds DEF ReaderGet, ReaderRead, ReaderInsert, RestTypes
    <2>2. /\ reader.file \in Files /\ reader.rev \in 0..(MaxOps + 1) /\ reader.idx \in Idx /\ reader.len \in Idx
          /\ reader.data \in Held
        BY <2>1 DEF Readers
    <2>3. ReaderKey \in Files \X (0..(MaxOps + 1)) \X Idx
        BY <2>2 DEF ReaderKey, Key
    <2>4. cache' \subseteq Entries /\ generation' \in Nat /\ access_counter' \in Nat
        BY <1>2, <1>r, <2>2, <2>3, CacheTypes DEF ReaderGet, ReaderRead, ReaderInsert, RestTypes, cacheVars
    <2>5. NextChunk \in Readers \cup {NoReader} /\ (NextChunk # NoReader => NextChunk.idx <= NextChunk.len)
        <3>1. CASE reader.idx = reader.len
            BY <3>1 DEF NextChunk
        <3>2. CASE reader.idx # reader.len
            <4>1. reader.idx + 1 \in Idx /\ reader.idx + 1 <= reader.len
                <5>1. reader.idx \in Nat /\ reader.len \in Nat /\ reader.len <= MaxChunks /\ MaxChunks \in Nat
                    BY <2>2, Basics, UploadAssumption
                <5>2. reader.idx + 1 \in Nat /\ reader.idx + 1 >= 1 /\ reader.idx + 1 <= MaxChunks
                      /\ reader.idx + 1 <= reader.len
                    BY <2>1, <3>2, <5>1
                <5> QED BY <5>2, Basics
            <4>2. NextChunk = [reader EXCEPT !.idx = @ + 1, !.pc = "get", !.data = Absent]
                BY <3>2 DEF NextChunk
            <4> QED BY <2>1, <4>1, <4>2, Basics DEF Readers
        <3> QED BY <3>1, <3>2
    <2>6. CASE ReaderGet
        <3>1. [reader EXCEPT !.pc = "read"] \in Readers /\ [reader EXCEPT !.pc = "read"].idx = reader.idx
              /\ [reader EXCEPT !.pc = "read"].len = reader.len
            BY <2>1 DEF Readers
        <3> QED BY <1>r, <2>1, <2>4, <2>5, <2>6, <3>1 DEF ReaderGet, RestTypes
    <2>7. CASE ReaderRead
        <3>1. canon[reader.file][reader.idx] \in Held
            BY <2>2 DEF TypeOK
        <3> DEFINE r == [reader EXCEPT !.pc = "insert", !.data = canon[reader.file][reader.idx]]
        <3>2. r \in Readers /\ r.idx = reader.idx /\ r.len = reader.len
            BY <2>1, <3>1 DEF Readers
        <3>3. reader' = NoReader \/ reader' = r
            BY <2>7 DEF ReaderRead
        <3> HIDE DEF r
        <3> QED BY <1>r, <2>1, <2>4, <3>2, <3>3 DEF RestTypes
    <2>8. CASE ReaderInsert
        BY <1>r, <2>1, <2>4, <2>5, <2>8 DEF ReaderInsert, RestTypes
    <2> QED BY <1>2, <2>6, <2>7, <2>8
<1>3. RestTypes'
    BY <1>1, <1>2
<1> QED BY <1>m, <1>3, TypeSplit, PTL

\* Locking, crashing and unlocking keep the types.
LEMMA SessionTypes ==
    ASSUME TypeOK, Lock \/ Crash \/ Unlock
    PROVE  TypeOK'
<1>t. MainTypes /\ RestTypes /\ 1 \in Files
    BY TypeSplit DEF Files
<1>n. NoOp.kind = "none"
    BY DEF NoOp
<1>1. CASE Lock
    <2>1. /\ op' = op /\ op.kind = "none" /\ open' = FALSE /\ cat' = mem /\ reader' = Detached
          /\ UNCHANGED <<diskVars, tx, mem, opened, boundVars, faultVars>> /\ FreshCache
        BY <1>1 DEF Lock, Ready
    <2>2. MainTypes'
        BY <1>t, <2>1 DEF MainTypes, diskVars, boundVars, faultVars
    <2>3. Detached \in Readers \cup {NoReader} /\ (Detached # NoReader => Detached.idx <= Detached.len)
        <3>1. CASE reader = NoReader
            BY <3>1 DEF Detached
        <3>2. CASE reader # NoReader
            <4>1. Detached = [reader EXCEPT !.cached = FALSE]
                BY <3>2 DEF Detached
            <4> QED BY <1>t, <3>2, <4>1 DEF RestTypes, Readers
        <3> QED BY <3>1, <3>2
    <2>4. RestTypes'
        BY <1>t, <2>1, <2>3 DEF RestTypes, FreshCache
    <2> QED BY <2>2, <2>4, TypeSplit, PTL
<1>2. CASE Crash
    <2>1. canon' \in [Files -> Contents]
        <3>1. op.kind = "replace" => op.old \in Contents
            BY Kinds DEF ReplaceOps, Contents
        <3> QED BY <1>2, <1>t, <3>1 DEF Crash, MainTypes
    <2>2. /\ op' = NoOp /\ open' = FALSE /\ mem' = cat /\ reader' = NoReader
          /\ faults' = faults \cup (IF InRollbackTail THEN {"cut"} ELSE {})
          /\ crashes < MaxCrashes /\ crashes' = crashes + 1 /\ FreshCache
          /\ UNCHANGED <<temp, backup, tx, cat, opened, nextOp, refused>>
        BY <1>2 DEF Crash
    <2>3. crashes' \in 0..MaxCrashes
        BY <1>t, <2>2, UploadAssumption DEF MainTypes
    <2>4. faults' \subseteq Faults
        BY <1>t, <2>2 DEF MainTypes, Faults
    <2>5. MainTypes'
        BY <1>t, <1>n, <2>1, <2>2, <2>3, <2>4 DEF MainTypes
    <2>6. RestTypes'
        BY <1>t, <2>2 DEF RestTypes, FreshCache
    <2> QED BY <2>5, <2>6, TypeSplit, PTL
<1>3. CASE Unlock
    <2>1. /\ ~open /\ op = NoOp /\ mem' = cat /\ refused' = FALSE
          /\ UNCHANGED <<diskVars, tx, cat, readVars, boundVars, faults, cacheVars>>
        BY <1>3 DEF Unlock
    <2> DEFINE r == [kind |-> "recover", pc |-> "chunks", back |-> FALSE]
    <2>2. r \in RecoverOps /\ r.kind = "recover"
        BY DEF RecoverOps
    <2>3. MainTypes'
        <3>1. CASE open' = TRUE /\ UNCHANGED op
            <4>1. op' = NoOp
                BY <2>1, <3>1
            <4> QED BY <1>t, <1>n, <2>1, <3>1, <4>1 DEF MainTypes, diskVars, boundVars
        <3>2. CASE tx # NoTx /\ op' = r /\ UNCHANGED open
            <4>1. op' \in RecoverOps /\ op'.kind = "recover"
                BY <2>2, <3>2
            <4> HIDE DEF r
            <4> QED BY <1>t, <2>1, <3>2, <4>1 DEF MainTypes, diskVars, boundVars
        <3> QED BY <1>3, <3>1, <3>2 DEF Unlock
    <2>4. RestTypes'
        BY <1>t, <2>1 DEF RestTypes, readVars, cacheVars
    <2> QED BY <2>3, <2>4, TypeSplit, PTL
<1> QED BY <1>1, <1>2, <1>3

\* The recovery keeps the types.
LEMMA RecoverTypes ==
    ASSUME TypeOK, RecoverChunks \/ RecoverClean \/ RecoverDrop
    PROVE  TypeOK'
<1>t. MainTypes /\ RestTypes
    BY TypeSplit
<1>k. op.kind = "recover" /\ op \in RecoverOps /\ tx \in Uploads /\ tx # NoTx /\ ~open
    BY Kinds DEF RecoverChunks, RecoverClean, RecoverDrop, TypeOK
<1>n. NoOp.kind = "none"
    BY DEF NoOp
<1>f. tx.file \in Files
    BY <1>k, UploadFields
<1>g. \A p \in {"clean", "drop"} : [op EXCEPT !.pc = p] \in RecoverOps /\ [op EXCEPT !.pc = p].kind = "recover"
    BY <1>k DEF RecoverOps
<1>u. UNCHANGED <<catVars, readVars, boundVars, faults, cacheVars>>
    BY DEF RecoverChunks, RecoverClean, RecoverDrop, faultVars
<1>r. SameRest
    BY <1>u DEF SameRest
<1>1. CASE RecoverChunks
    <2>1. [op EXCEPT !.pc = "clean", !.back = TRUE] \in RecoverOps
          /\ [op EXCEPT !.pc = "clean", !.back = TRUE].kind = "recover"
        BY <1>k DEF RecoverOps
    <2>2. op' = NoOp \/ (op' \in RecoverOps /\ op'.kind = "recover")
        BY <1>1, <1>g, <2>1 DEF RecoverChunks, Go
    <2>3. canon' \in [Files -> Contents] /\ refused' \in BOOLEAN
        BY <1>1, <1>t, <1>k, RestoredType DEF RecoverChunks, MainTypes, Contents
    <2>4. UNCHANGED <<temp, backup, tx, open>>
        BY <1>1 DEF RecoverChunks
    <2> QED BY <1>t, <1>k, <1>n, <1>r, <1>u, <2>2, <2>3, <2>4, TypeParts DEF MainTypes, catVars, boundVars
<1>2. CASE RecoverClean
    <2>1. op' \in RecoverOps /\ op'.kind = "recover"
        BY <1>2, <1>g DEF RecoverClean, Go
    <2>2. \A S : \A d \in {canon, temp, backup} :
             [d EXCEPT ![tx.file] = Over(@, S, Empty)] \in [Files -> Contents]
        <3> SUFFICES ASSUME NEW S, NEW d \in {canon, temp, backup}
                     PROVE  [d EXCEPT ![tx.file] = Over(@, S, Empty)] \in [Files -> Contents]
            OBVIOUS
        <3>1. Over(d[tx.file], S, Empty) \in Contents
            BY <1>f, <1>t, OverType, EmptyFacts DEF MainTypes
        <3> QED BY <1>f, <1>t, <3>1 DEF MainTypes
    <2>3. canon' \in [Files -> Contents] /\ temp' \in [Files -> Contents] /\ backup' \in [Files -> Contents]
        BY <1>2, <1>t, <2>2 DEF RecoverClean, MainTypes
    <2>4. UNCHANGED <<tx, open, refused>>
        BY <1>2 DEF RecoverClean, faultVars
    <2> QED BY <1>t, <1>k, <1>r, <1>u, <2>1, <2>3, <2>4, TypeParts DEF MainTypes, catVars, boundVars
<1>3. CASE RecoverDrop
    BY <1>3, <1>t, <1>n, <1>r, <1>u, TypeParts DEF RecoverDrop, MainTypes, catVars, boundVars, diskVars, faultVars
<1> QED BY <1>1, <1>2, <1>3

\* The initial version of file 1.
LEMMA InitTypes == Init => TypeOK
<1> SUFFICES ASSUME Init PROVE TypeOK
    OBVIOUS
<1>1. 1 \in 1..(MaxOps + 1) /\ 0 \in 0..(MaxOps + 1) /\ 1 \in 0..(MaxOps + 1) /\ 2 \in 2..(MaxOps + 2)
      /\ 0 \in 0..MaxCrashes /\ 0 \in 0..MaxReaders
    BY UploadAssumption
<1>2. Empty \in [Idx -> Held] /\ All(1) \in [Idx -> Held]
    BY <1>1, EmptyFacts DEF Contents
<1>3. [rev |-> 1, content |-> All(1)] \in Versions /\ NoNode \in Versions
    BY <1>1, <1>2 DEF Versions, NoNode
<1>4. mem \in [Files -> Versions]
    BY <1>3 DEF Init
<1>5. \A f \in Files : mem[f].content \in Contents
    BY <1>4, VersionFields
<1>6. MainTypes
    <2>1. canon \in [Files -> Contents] /\ temp \in [Files -> Contents] /\ backup \in [Files -> Contents]
        BY <1>2, <1>5 DEF Init, Contents
    <2>2. op = NoOp /\ NoOp.kind = "none" /\ faults \subseteq Faults
        BY DEF Init, NoOp
    <2> QED BY <1>1, <1>4, <2>1, <2>2 DEF Init, MainTypes
<1>7. RestTypes
    BY <1>1 DEF Init, RestTypes, CacheInit
<1> QED BY <1>6, <1>7, TypeSplit

LEMMA NextTypes == TypeOK /\ [Next]_vars => TypeOK'
<1> SUFFICES ASSUME TypeOK, [Next]_vars PROVE TypeOK'
    OBVIOUS
<1>1. CASE UNCHANGED vars
    BY <1>1 DEF vars, TypeOK, diskVars, catVars, readVars, boundVars, faultVars, cacheVars
<1>2. CASE Next
    BY <1>2, PartTypes, CommitTypes, CommandTypes, ReaderTypes, SessionTypes, RecoverTypes DEF Next, Upload
<1> QED BY <1>1, <1>2

\* Every variable has its type: a recovery always finds the marker it recovers from, and
\* a reader stays inside the file it was opened on.
THEOREM UploadTypeCorrect == Spec => []TypeOK
BY InitTypes, NextTypes, PTL DEF Spec

(***************************************************************************)
(* What the catalog and the disk say of each other.                        *)
(***************************************************************************)
Core == FilesOK /\ MarkerOK /\ StepOK

\* What is to be shown of a command that is at p with the marker t.
LEMMA UploadAt ==
    ASSUME NEW t \in Uploads, NEW p \in Pcs, op' = [kind |-> "upload", pc |-> p, tx |-> t],
           p # "save" => mem' = cat',
           p \in {"temp", "stage", "backup"} => Began(t)' /\ Written(t)',
           p \in {"temp", "stage", "backup", "commit"} => tx'.phase = "staging" /\ tx'.file = t.file,
           p = "backup" => t.total = t.uploaded,
           p = "commit" => Undoable(t)' /\ Written(t)',
           p \in {"canon", "finalize", "save", "undo", "undone", "rollback", "clean"} => tx' = t,
           p \in {"canon", "finalize", "save", "undo", "undone"} => Undoable(t)',
           p = "canon" => /\ Written(t)'
                          /\ \A i \in t.temps : canon'[t.file][i] \in {Old(t.file)'[i], t.op},
           p \in {"finalize", "save", "undo"} => Placed(t)',
           p = "save" => mem' = [cat' EXCEPT ![t.file] = New(t)],
           p = "clean" => Done(t)',
           p = "rollback" => Complete(t),
           p \in {"undone", "rollback", "abort", "drop"} => \A f \in Files : Same(f)'
    PROVE  StepOK'
<1>1. op'.kind = "upload" /\ op'.pc = p /\ op'.tx = t
    OBVIOUS
<1>2. ReplaceOK' /\ RecoverOK' /\ IdleOK'
    BY <1>1 DEF ReplaceOK, RecoverOK, IdleOK
<1>3. UploadOK'
    BY <1>1 DEF UploadOK, Began, Written, Undoable, Complete, Gapless, Done, New, Placed, Same, Old
<1> QED BY <1>2, <1>3 DEF StepOK

\* The command moves on with its marker.
LEMMA OpIs ==
    ASSUME TypeOK, op.kind = "upload"
    PROVE  \A p : [op EXCEPT !.pc = p] = [kind |-> "upload", pc |-> p, tx |-> op.tx]
BY OpFields DEF UploadOps

\* Nothing is said of the files but where a marker or a command is.
LEMMA FilesKept ==
    ASSUME TypeOK, TypeOK', FilesOK, canon' = canon, cat' = cat, nextOp <= nextOp',
           \A f \in Files : ~(tx'.phase = "committing" /\ tx'.file = f) /\ ~(op'.kind = "replace" /\ f = 1)
                            => Same(f)
    PROVE  FilesOK'
<1>1. nextOp \in Int /\ nextOp' \in Int /\ \A f \in Files : cat[f].rev \in Int
    BY VersionFields, UploadAssumption DEF TypeOK
<1> QED BY <1>1 DEF FilesOK, Same, Old, Whole

LEMMA AllSame ==
    ASSUME FilesOK, tx.phase # "committing", op.kind # "replace"
    PROVE  \A f \in Files : Same(f)
BY DEF FilesOK

\* The first part of an upload.
LEMMA BeginUploadCore ==
    ASSUME TypeOK, TypeOK', Core, NEW f \in Files, NEW total \in Totals(f), BeginUpload(f, total)
    PROVE  Core'
<1>1. /\ op.kind = "none" /\ tx = NoTx /\ nextOp <= MaxOps /\ nextOp' = nextOp + 1
      /\ UNCHANGED <<canon, temp, cat, mem>>
    BY DEF BeginUpload, Ready, diskVars, catVars
<1> PICK t : t = NewTx(f, total)
    OBVIOUS
<1>2. /\ t \in Uploads /\ t.phase = "staging" /\ t.file = f /\ t.temps = {} /\ t.uploaded = 0
      /\ t.isNew = (mem[f] = NoNode) /\ t.oldLen = Length(mem[f].content)
    BY <1>1, NewTxFacts
<1>n. t.isNew => mem[f] = NoNode
    BY <1>2, Zenon
<1>3. tx' = t /\ op' = [kind |-> "upload", pc |-> "temp", tx |-> t]
    BY DEF BeginUpload
<1>4. mem = cat /\ \A g \in Files : Same(g)
    BY <1>1, AllSame DEF Core, StepOK, IdleOK, NoTx
<1>5. Began(t)' /\ Written(t)'
    <2>1. t.isNew => t.oldLen = 0
        <3>1. \A i \in Idx : Empty[i] # Absent <=> i <= 0
            BY EmptyFacts, Basics
        <3>2. Length(Empty) = 0
            BY <3>1, LengthFacts, UploadAssumption
        <3> QED BY <1>2, <1>n, <3>2 DEF NoNode
    <2> QED BY <1>1, <1>2, <1>n, <1>4, <2>1 DEF Began, Written, Gapless
<1>6. FilesOK'
    <2>1. nextOp <= nextOp'
        BY <1>1, UploadAssumption DEF TypeOK
    <2> QED BY <1>1, <1>4, <2>1, FilesKept DEF Core
<1>7. MarkerOK'
    BY <1>2, <1>3, <1>5 DEF MarkerOK, Began, Gapless
<1>8. StepOK'
    BY <1>1, <1>2, <1>3, <1>4, <1>5, UploadAt DEF Pcs
<1> QED BY <1>6, <1>7, <1>8 DEF Core

\* The next part, or the end, of a pending upload.
LEMMA ResumeCore ==
    ASSUME TypeOK, TypeOK', Core, ContinueUpload \/ AbortUpload
    PROVE  Core'
<1>1. /\ op.kind = "none" /\ open /\ tx # NoTx /\ UNCHANGED <<canon, temp, cat, mem, tx, nextOp>>
    BY DEF ContinueUpload, AbortUpload, Ready, diskVars, catVars, boundVars
<1> PICK t : t = tx
    OBVIOUS
<1>2. t \in Uploads /\ t.phase = "staging"
    BY <1>1, Kinds DEF Core, StepOK, IdleOK
<1>3. Began(t) /\ Written(t) /\ mem = cat
    BY <1>1, <1>2 DEF Core, MarkerOK, StepOK, IdleOK
<1>4. Began(t)' /\ Written(t)' /\ tx' = t
    BY <1>1, <1>3 DEF Began, Written
<1>5. \A f \in Files : Same(f) /\ Same(f)'
    BY <1>1, <1>2, AllSame DEF Core, Same, Old
<1>6. \E p \in {"temp", "abort"} : op' = [kind |-> "upload", pc |-> p, tx |-> t]
    BY DEF ContinueUpload, AbortUpload
<1>7. StepOK'
    BY <1>1, <1>2, <1>3, <1>4, <1>5, <1>6, UploadAt DEF Pcs
<1>8. FilesOK'
    <2>1. nextOp <= nextOp'
        BY <1>1, UploadAssumption DEF TypeOK
    <2> QED BY <1>1, <1>5, <2>1, FilesKept DEF Core
<1>9. MarkerOK'
    BY <1>2, <1>4, <1>6 DEF MarkerOK, Began, Gapless
<1> QED BY <1>7, <1>8, <1>9 DEF Core

\* A part is written and recorded, or the command fails.
LEMMA WriteTempCore ==
    ASSUME TypeOK, TypeOK', Core, WriteTemp
    PROVE  Core'
<1>1. /\ op.kind = "upload" /\ op.pc = "temp" /\ UNCHANGED <<canon, cat, mem, tx, open, nextOp>>
    BY DEF WriteTemp, catVars, boundVars
<1> PICK t : t = op.tx
    OBVIOUS
<1>2. t \in Uploads /\ op \in UploadOps
    BY <1>1, OpFields
<1>3. Began(t) /\ Written(t) /\ tx.phase = "staging" /\ tx.file = t.file /\ mem = cat
    BY <1>1 DEF Core, StepOK, UploadOK
<1>4. \A f \in Files : Same(f) /\ Same(f)'
    BY <1>1, <1>3, AllSame DEF Core, Same, Old
<1>5. FilesOK'
    <2>1. nextOp <= nextOp'
        BY <1>1, UploadAssumption DEF TypeOK
    <2> QED BY <1>1, <1>4, <2>1, FilesKept DEF Core
<1>6. ASSUME op'.kind = "upload" PROVE MarkerOK'
    BY <1>1, <1>3, <1>6 DEF Core, MarkerOK, Began
<1>7. CASE WriteFails /\ UNCHANGED temp
    <2>1. op' = [kind |-> "upload", pc |-> "abort", tx |-> t]
        BY <1>1, <1>7, OpIs DEF WriteFails, Go
    <2>2. StepOK'
        BY <1>1, <1>2, <1>3, <1>4, <2>1, UploadAt DEF Pcs
    <2> QED BY <1>5, <1>6, <2>1, <2>2 DEF Core
<1>8. CASE ~(WriteFails /\ UNCHANGED temp)
    <2> DEFINE i == t.uploaded + 1
               u == [t EXCEPT !.temps = @ \cup {i}, !.uploaded = i]
    <2>1. /\ i <= MaxChunks /\ temp' = [temp EXCEPT ![t.file][i] = t.op]
          /\ op' = [op EXCEPT !.pc = "stage", !.tx.temps = @ \cup {i}, !.tx.uploaded = i]
        BY <1>8 DEF WriteTemp
    <2>2. op' = [kind |-> "upload", pc |-> "stage", tx |-> u]
        BY <1>2, <2>1 DEF UploadOps, Uploads
    <2>3. /\ t.uploaded \in 0..MaxChunks /\ t.temps \subseteq Idx /\ t.file \in Files /\ i \in Idx
          /\ t.op \in Held
        BY <1>2, <2>1, UploadFields, Basics, UploadAssumption
    <2>4. u \in Uploads
        <3>1. i \in 0..MaxChunks
            BY <2>3, <2>1, UploadAssumption
        <3> QED BY <1>2, <2>3, <3>1 DEF Uploads
    <2>5. /\ u.file = t.file /\ u.op = t.op /\ u.temps = t.temps \cup {i} /\ u.uploaded = i
          /\ u.phase = t.phase /\ u.isNew = t.isNew /\ u.oldLen = t.oldLen
        BY <1>2 DEF Uploads
    <2> HIDE DEF u
    <2>6. Began(u)'
        <3>1. t.temps = 1..t.uploaded
            BY <1>3 DEF Began, Gapless
        <3>2. t.temps \cup {i} = 1..i
            BY <2>3, <3>1
        <3> QED BY <1>1, <1>3, <2>5, <3>2 DEF Began, Gapless
    <2>7. Written(u)'
        <3>1. \A j \in Idx : temp'[t.file][j] = IF j = i THEN t.op ELSE temp[t.file][j]
            BY <2>1, <2>3 DEF TypeOK
        <3> QED BY <1>3, <2>3, <2>5, <3>1 DEF Written
    <2>8. StepOK'
        BY <1>1, <1>2, <1>3, <1>4, <2>2, <2>4, <2>5, <2>6, <2>7, UploadAt DEF Pcs
    <2>9. op'.kind = "upload"
        BY <2>2
    <2> QED BY <1>5, <1>6, <2>8, <2>9 DEF Core
<1> QED BY <1>7, <1>8

LEMMA StageUploadCore ==
    ASSUME TypeOK, TypeOK', Core, StageUpload
    PROVE  Core'
<1>1. /\ op.kind = "upload" /\ op.pc = "stage" /\ UNCHANGED <<canon, temp, cat, mem, open, nextOp>>
    BY DEF StageUpload, catVars, boundVars, diskVars
<1> PICK t : t = op.tx
    OBVIOUS
<1>2. t \in Uploads /\ op \in UploadOps
    BY <1>1, OpFields
<1>3. Began(t) /\ Written(t) /\ tx.phase = "staging" /\ tx.file = t.file /\ mem = cat /\ Began(tx)
    BY <1>1 DEF Core, StepOK, UploadOK, MarkerOK
<1>4. \A f \in Files : Same(f) /\ Same(f)'
    BY <1>1, <1>3, AllSame DEF Core, Same, Old
<1>5. FilesOK'
    <2>1. nextOp <= nextOp'
        BY <1>1, UploadAssumption DEF TypeOK
    <2> QED BY <1>1, <1>4, <2>1, FilesKept DEF Core
<1>6. CASE WriteFails /\ tx' \in {tx, op.tx}
    <2>1. op' = [kind |-> "upload", pc |-> "abort", tx |-> t]
        BY <1>1, <1>6, OpIs DEF WriteFails, Go
    <2>2. StepOK'
        BY <1>1, <1>2, <1>3, <1>4, <2>1, UploadAt DEF Pcs
    <2>3. tx' = tx \/ tx' = t
        BY <1>6
    <2>4. MarkerOK'
        BY <1>1, <1>3, <2>1, <2>3 DEF MarkerOK, Began, Gapless
    <2> QED BY <1>5, <2>2, <2>4 DEF Core
<1>7. CASE ~(WriteFails /\ tx' \in {tx, op.tx})
    <2>1. PICK total \in IF t.total = Unknown THEN {Unknown, t.uploaded} ELSE {t.total} :
             LET u == [t EXCEPT !.total = total] IN
             /\ tx' = u
             /\ op' = IF u.uploaded = total THEN [op EXCEPT !.pc = "backup", !.tx = u] ELSE NoOp
        BY <1>7 DEF StageUpload
    <2> DEFINE u == [t EXCEPT !.total = total]
    <2>2. total \in 0..MaxChunks
        BY <1>2, <2>1, UploadFields, UploadAssumption DEF Unknown
    <2>3. /\ u \in Uploads /\ u.file = t.file /\ u.op = t.op /\ u.temps = t.temps /\ u.total = total
          /\ u.uploaded = t.uploaded /\ u.phase = t.phase /\ u.isNew = t.isNew /\ u.oldLen = t.oldLen
        BY <1>2, <2>2 DEF Uploads
    <2>4. tx' = u /\ (u.uploaded = total => op' = [kind |-> "upload", pc |-> "backup", tx |-> u])
          /\ (u.uploaded # total => op' = NoOp)
        BY <1>2, <2>1 DEF UploadOps
    <2> HIDE DEF u
    <2>5. Began(u)' /\ Written(u)'
        BY <1>1, <1>3, <2>3 DEF Began, Written, Gapless
    <2>6. u.phase = "staging"
        BY <1>3, <2>3 DEF Began
    <2>7. MarkerOK'
        BY <2>4, <2>5, <2>6 DEF MarkerOK, Began, Written, Gapless
    <2>8. StepOK'
        <3>1. CASE u.uploaded = total
            BY <1>1, <1>3, <1>4, <2>3, <2>4, <2>5, <2>6, <3>1, UploadAt DEF Pcs
        <3>2. CASE u.uploaded # total
            <4>1. op'.kind = "none" /\ tx'.phase = "staging"
                BY <2>4, <2>6, <3>2 DEF NoOp
            <4> QED BY <1>1, <1>3, <4>1 DEF StepOK, UploadOK, ReplaceOK, RecoverOK, IdleOK
        <3> QED BY <3>1, <3>2
    <2> QED BY <1>5, <2>7, <2>8 DEF Core
<1> QED BY <1>6, <1>7

\* The chunks of a file are those that its length names.
LEMMA WholeFacts ==
    ASSUME NEW c, Whole(c)
    PROVE  \A i \in Idx : c[i] # Absent <=> i <= Length(c)
<1>1. PICK n \in 0..MaxChunks : \A i \in Idx : c[i] # Absent <=> i <= n
    BY DEF Whole
<1>2. Length(c) = n
    BY <1>1, LengthFacts
<1> QED BY <1>1, <1>2

\* The backups are taken: from here on the upload can be undone.
LEMMA BackupUploadCore ==
    ASSUME TypeOK, TypeOK', Core, BackupUpload, faults' = {}
    PROVE  Core'
<1>1. /\ op.kind = "upload" /\ op.pc = "backup" /\ UNCHANGED <<canon, temp, cat, mem, tx, open>>
    BY DEF BackupUpload, catVars
<1> PICK t : t = op.tx
    OBVIOUS
<1>2. t \in Uploads /\ op \in UploadOps
    BY <1>1, OpFields
<1>3. /\ Began(t) /\ Written(t) /\ tx.phase = "staging" /\ tx.file = t.file /\ mem = cat /\ Began(tx)
      /\ t.total = t.uploaded
    BY <1>1 DEF Core, StepOK, UploadOK, MarkerOK
<1>4. \A f \in Files : Same(f) /\ Same(f)'
    BY <1>1, <1>3, AllSame DEF Core, Same, Old
<1>5. FilesOK'
    <2>1. nextOp <= nextOp'
        BY UploadAssumption DEF TypeOK, BackupUpload
    <2> QED BY <1>1, <1>4, <2>1, FilesKept DEF Core
<1>6. ASSUME op'.kind = "upload" PROVE MarkerOK'
    BY <1>1, <1>3, <1>6 DEF MarkerOK, Began
<1>7. CASE WriteFails
    <2>1. op' = [kind |-> "upload", pc |-> "abort", tx |-> t]
        BY <1>1, <1>7, OpIs DEF WriteFails, Go
    <2>2. StepOK'
        BY <1>1, <1>2, <1>3, <1>4, <2>1, UploadAt DEF Pcs
    <2>3. op'.kind = "upload"
        BY <2>1
    <2> QED BY <1>5, <1>6, <2>2, <2>3 DEF Core
<1>8. CASE ~WriteFails
    <2> PICK S : S = {i \in 1..t.oldLen : canon[t.file][i] # Absent}
        OBVIOUS
    <2> PICK u : u = [t EXCEPT !.baks = S, !.rev = nextOp, !.phase = "committing"]
        OBVIOUS
    <2>1. /\ backup' = [backup EXCEPT ![t.file] = Over(Empty, S, canon[t.file])]
          /\ op' = [op EXCEPT !.pc = "commit", !.tx.baks = S, !.tx.rev = nextOp,
                              !.tx.phase = "committing"]
          /\ nextOp' = nextOp + 1 /\ nextOp <= MaxOps + 1
          /\ faults' = faults \cup (IF Stale(t) THEN {"stale"} ELSE {})
        BY <1>8 DEF BackupUpload
    <2>2. op' = [kind |-> "upload", pc |-> "commit", tx |-> u]
        BY <1>2, <2>1 DEF UploadOps, Uploads
    <2>3. /\ t.file \in Files /\ t.oldLen \in 0..MaxChunks /\ t.isNew \in BOOLEAN /\ nextOp \in Nat
          /\ t.temps \subseteq Idx
        BY <1>2, UploadFields, UploadAssumption DEF TypeOK
    <2>4. u \in Uploads
        <3>1. S \subseteq Idx
            BY <2>3, UploadAssumption DEF Idx
        <3>2. nextOp \in 0..(MaxOps + 1)
            BY <2>1, <2>3, UploadAssumption
        <3> QED BY <1>2, <3>1, <3>2 DEF Uploads
    <2>5. /\ u.file = t.file /\ u.op = t.op /\ u.temps = t.temps /\ u.total = t.total /\ u.baks = S
          /\ u.uploaded = t.uploaded /\ u.phase = "committing" /\ u.oldLen = t.oldLen /\ u.rev = nextOp
        BY <1>2 DEF Uploads
    <2>6. \A i \in Idx : Old(t.file)[i] # Absent <=> i <= t.oldLen
        <3>1. ~Stale(t)
            BY <2>1
        <3>2. CASE t.isNew
            <4>1. Old(t.file) = Empty /\ t.oldLen = 0
                BY <1>3, <3>2 DEF Began, Old, NoNode
            <4>2. \A i \in Idx : ~(i <= 0)
                BY Basics
            <4> QED BY <4>1, <4>2, EmptyFacts
        <3>3. CASE ~t.isNew
            <4>1. Length(Old(t.file)) = t.oldLen
                BY <1>3, <3>1, <3>3 DEF Stale, Old
            <4>2. Whole(Old(t.file))
                BY <2>3 DEF Core, FilesOK
            <4> QED BY <4>1, <4>2, WholeFacts
        <3> QED BY <3>2, <3>3
    <2>7. canon[t.file] = Old(t.file)
        BY <1>4, <2>3 DEF Same
    <2>8. S = {i \in Idx : Old(t.file)[i] # Absent}
        <3>1. \A i \in 1..t.oldLen : i \in Idx
            BY <2>3, UploadAssumption DEF Idx
        <3>2. \A i \in Idx : i <= t.oldLen => i \in 1..t.oldLen
            BY <2>3, Basics
        <3> QED BY <2>6, <2>7, <3>1, <3>2
    <2>9. \A i \in S : backup'[t.file][i] = Old(t.file)[i]
        <3>1. backup'[t.file] = Over(Empty, S, canon[t.file])
            BY <2>1, <2>3 DEF TypeOK
        <3>2. S \subseteq Idx
            BY <2>8
        <3>3. \A i \in Idx : Over(Empty, S, canon[t.file])[i] = IF i \in S THEN canon[t.file][i] ELSE Empty[i]
            BY OverFacts
        <3> QED BY <2>7, <3>1, <3>2, <3>3
    <2>10. cat[t.file].rev < nextOp /\ nextOp < nextOp' /\ cat[t.file].rev # nextOp
        <3>1. cat[t.file].rev \in 0..(MaxOps + 1)
            BY <2>3, VersionFields DEF TypeOK
        <3> QED BY <2>1, <2>3, <3>1 DEF Core, FilesOK
    <2>11. S \subseteq 1..t.oldLen
        OBVIOUS
    <2>12. Undoable(u)' /\ Written(u)'
        <3>1. Complete(u)
            BY <1>3, <2>5, <2>11 DEF Complete, Gapless, Began
        <3>2. Old(t.file)' = Old(t.file) /\ cat'[t.file].rev # u.rev /\ u.rev < nextOp'
            BY <1>1, <2>5, <2>10 DEF Old
        <3>3. Written(u)'
            BY <1>1, <1>3, <2>5 DEF Written
        <3>4. \A i \in Idx \ u.temps : canon'[t.file][i] = Old(t.file)[i]
            BY <1>1, <2>7
        <3> QED BY <2>5, <2>8, <2>9, <3>1, <3>2, <3>3, <3>4 DEF Undoable, Complete, Gapless, Old
    <2>13. StepOK'
        BY <1>1, <1>3, <2>2, <2>4, <2>5, <2>12, UploadAt DEF Pcs
    <2>14. op'.kind = "upload"
        BY <2>2
    <2> QED BY <1>5, <1>6, <2>13, <2>14 DEF Core
<1> QED BY <1>7, <1>8

\* The Committing marker.
LEMMA CommitMarkerCore ==
    ASSUME TypeOK, TypeOK', Core, CommitMarker
    PROVE  Core'
<1>1. /\ op.kind = "upload" /\ op.pc = "commit" /\ UNCHANGED <<canon, temp, backup, cat, mem, open, nextOp>>
    BY DEF CommitMarker, catVars, diskVars, boundVars
<1> PICK t : t = op.tx
    OBVIOUS
<1>2. t \in Uploads /\ op \in UploadOps /\ t.file \in Files /\ t.temps \subseteq Idx
    BY <1>1, OpFields, UploadFields
<1>3. /\ Undoable(t) /\ Written(t) /\ tx.phase = "staging" /\ tx.file = t.file /\ mem = cat /\ Began(tx)
    BY <1>1 DEF Core, StepOK, UploadOK, MarkerOK
<1>4. \A f \in Files : Same(f) /\ Same(f)'
    BY <1>1, <1>3, AllSame DEF Core, Same, Old
<1>5. FilesOK'
    <2>1. nextOp <= nextOp'
        BY <1>1, UploadAssumption DEF TypeOK
    <2> QED BY <1>1, <1>4, <2>1, FilesKept DEF Core
<1>6. Undoable(t)' /\ Written(t)'
    BY <1>1, <1>3 DEF Undoable, Written, Old
<1>7. \E p \in {"canon", "abort"} : op' = [kind |-> "upload", pc |-> p, tx |-> t]
    BY <1>1, OpIs DEF CommitMarker, WriteFails, Go
<1>8. tx' = t \/ (tx' = tx /\ op'.pc = "abort")
    BY <1>1, <1>7, OpFields DEF CommitMarker, WriteFails, Go, Pcs
<1>9. MarkerOK'
    <2>1. op'.kind = "upload"
        BY <1>7
    <2>2. CASE tx' = t
        <3>1. Undoable(tx)'
            BY <1>6, <2>2 DEF Undoable, Complete, Gapless, Old
        <3>2. tx'.phase # "staging"
            BY <1>3, <2>2 DEF Undoable, Complete
        <3> QED BY <3>1, <3>2 DEF MarkerOK
    <2>3. CASE tx' = tx
        BY <1>1, <1>3, <2>1, <2>3 DEF MarkerOK, Began
    <2> QED BY <1>8, <2>2, <2>3
<1>10. \A i \in t.temps : canon'[t.file][i] \in {Old(t.file)'[i], t.op}
    BY <1>2, <1>4 DEF Same
<1>11. StepOK'
    <2>1. CASE op' = [kind |-> "upload", pc |-> "canon", tx |-> t]
        <3>1. tx' = t
            BY <1>8, <2>1
        <3> QED BY <1>1, <1>2, <1>3, <1>4, <1>6, <1>10, <2>1, <3>1, UploadAt DEF Pcs
    <2>2. CASE op' = [kind |-> "upload", pc |-> "abort", tx |-> t]
        BY <1>1, <1>2, <1>3, <1>4, <2>2, UploadAt DEF Pcs
    <2> QED BY <1>7, <2>1, <2>2
<1> QED BY <1>5, <1>9, <1>11 DEF Core

\* An upload that can be undone is undone by its backups.
LEMMA UndoneFacts ==
    ASSUME TypeOK, NEW t \in Uploads, Undoable(t)
    PROVE  /\ Restored(t)[t.file] = Old(t.file)
           /\ \A g \in Files \ {t.file} : Restored(t)[g] = canon[g]
<1>1. t.file \in Files /\ t.baks \subseteq Idx /\ t.temps \subseteq Idx
    BY UploadFields
<1>2. Old(t.file) \in Contents /\ Restored(t)[t.file] \in Contents
    BY <1>1, VersionFields, RestoredType DEF TypeOK, Old, Contents
<1>3. \A i \in Idx : Restored(t)[t.file][i] = Old(t.file)[i]
    <2> SUFFICES ASSUME NEW i \in Idx PROVE Restored(t)[t.file][i] = Old(t.file)[i]
        OBVIOUS
    <2>1. Restored(t)[t.file][i] = IF i \in t.baks THEN backup[t.file][i]
                                   ELSE IF i \in t.temps THEN Absent ELSE canon[t.file][i]
        BY RestoredType
    <2> QED BY <2>1 DEF Undoable
<1>4. Restored(t)[t.file] = Old(t.file)
    BY <1>2, <1>3 DEF Contents
<1> QED BY <1>4, RestoredType

\* The files next to the one with a Committing marker.
LEMMA OthersKept ==
    ASSUME TypeOK, TypeOK', FilesOK, NEW f \in Files, nextOp <= nextOp', op.kind # "replace",
           op'.kind # "replace", tx.phase = "committing" => tx.file = f,
           \A g \in Files \ {f} : canon'[g] = canon[g] /\ cat'[g] = cat[g],
           cat'[f] = cat[f] \/ (Whole(cat'[f].content) /\ cat'[f].rev < nextOp'),
           (tx'.phase = "committing" /\ tx'.file = f) \/ Same(f)'
    PROVE  FilesOK'
<1>1. nextOp \in Int /\ nextOp' \in Int /\ \A g \in Files : cat[g].rev \in Int
    <2>1. cat \in [Files -> Versions] /\ nextOp \in 2..(MaxOps + 2) /\ nextOp' \in 2..(MaxOps + 2)
        BY DEF TypeOK
    <2>2. \A g \in Files : cat[g].rev \in 0..(MaxOps + 1)
        BY <2>1, VersionFields
    <2> QED BY <2>1, <2>2, UploadAssumption
<1>2. \A g \in Files \ {f} : Same(g)
    BY DEF FilesOK
<1>3. \A g \in Files \ {f} : Same(g)' /\ Whole(Old(g)') /\ cat'[g].rev < nextOp'
    <2> SUFFICES ASSUME NEW g \in Files \ {f}
                 PROVE Same(g)' /\ Whole(Old(g)') /\ cat'[g].rev < nextOp'
        OBVIOUS
    <2>1. Whole(cat[g].content) /\ cat[g].rev < nextOp /\ cat'[g] = cat[g] /\ canon'[g] = canon[g]
        BY DEF FilesOK, Old
    <2> QED BY <1>1, <1>2, <2>1 DEF Same, Old
<1>4. Whole(cat'[f].content) /\ cat'[f].rev < nextOp'
    BY <1>1 DEF FilesOK, Old
<1> QED BY <1>3, <1>4 DEF FilesOK, Old, Same, Whole

LEMMA WriteCanonCore ==
    ASSUME TypeOK, TypeOK', Core, WriteCanon, faults' = {}
    PROVE  Core'
<1>1. /\ op.kind = "upload" /\ op.pc = "canon" /\ UNCHANGED <<temp, backup, cat, mem, tx, open, nextOp>>
    BY DEF WriteCanon, catVars, boundVars
<1> PICK t : t = op.tx
    OBVIOUS
<1>2. t \in Uploads /\ op \in UploadOps /\ t.file \in Files /\ t.temps \subseteq Idx
    BY <1>1, OpFields, UploadFields
<1>3. /\ Undoable(t) /\ Written(t) /\ tx = t /\ mem = cat
      /\ \A i \in t.temps : canon[t.file][i] \in {Old(t.file)[i], t.op}
    BY <1>1 DEF Core, StepOK, UploadOK
<1>4. canon \in [Files -> Contents] /\ canon[t.file] \in Contents /\ Old(t.file) \in Contents
      /\ temp[t.file] \in Contents
    BY <1>2, VersionFields DEF TypeOK, Contents, Old
<1>5. t.phase = "committing" /\ nextOp <= nextOp' /\ cat[t.file] = cat'[t.file]
    BY <1>1, <1>3, UploadAssumption DEF Undoable, Complete, TypeOK
<1>6. Old(t.file)' = Old(t.file)
    BY <1>1 DEF Old
<1>7. ASSUME \A g \in Files \ {t.file} : canon'[g] = canon[g],
             \A i \in Idx \ t.temps : canon'[t.file][i] = canon[t.file][i],
             op'.kind = "upload"
      PROVE  FilesOK' /\ MarkerOK' /\ Undoable(t)'
    <2>1. FilesOK'
        BY <1>1, <1>2, <1>3, <1>5, <1>7, OthersKept DEF Core
    <2>2. Undoable(t)'
        BY <1>1, <1>3, <1>6, <1>7 DEF Undoable
    <2>3. Undoable(tx)'
        BY <1>1, <1>3, <2>2 DEF Undoable, Complete, Gapless, Old
    <2>4. MarkerOK'
        BY <1>1, <1>3, <1>5, <2>3 DEF MarkerOK
    <2> QED BY <2>1, <2>2, <2>4
<1>8. NotYet \subseteq t.temps /\ NotYet \subseteq Idx
      /\ \A i \in t.temps : i \notin NotYet <=> canon[t.file][i] = t.op
    BY <1>2 DEF NotYet
<1>9. CASE NotYet # {} /\ canon' = [canon EXCEPT ![t.file] = Over(@, {Least(NotYet)}, temp[t.file])]
           /\ UNCHANGED <<op, faults>>
    <2>1. Least(NotYet) \in t.temps
        BY <1>8, <1>9, LeastFacts
    <2>2. canon'[t.file] = Over(canon[t.file], {Least(NotYet)}, temp[t.file])
          /\ \A g \in Files \ {t.file} : canon'[g] = canon[g]
        BY <1>2, <1>4, <1>9
    <2>3. \A i \in Idx : canon'[t.file][i] = IF i = Least(NotYet) THEN temp[t.file][i] ELSE canon[t.file][i]
        BY <2>2, OverFacts
    <2>4. \A i \in Idx : canon'[t.file][i] = IF i = Least(NotYet) THEN t.op ELSE canon[t.file][i]
        BY <1>3, <2>1, <2>3 DEF Written
    <2>5. op' = [kind |-> "upload", pc |-> "canon", tx |-> t] /\ op'.kind = "upload"
        BY <1>1, <1>2, <1>9 DEF UploadOps
    <2>6. FilesOK' /\ MarkerOK' /\ Undoable(t)'
        BY <1>7, <2>1, <2>2, <2>4, <2>5
    <2>7. \A i \in t.temps : canon'[t.file][i] \in {Old(t.file)'[i], t.op}
        BY <1>2, <1>3, <1>6, <2>4
    <2>8. Written(t)'
        BY <1>1, <1>3 DEF Written
    <2>9. StepOK'
        BY <1>1, <1>2, <1>3, <1>5, <2>5, <2>6, <2>7, <2>8, UploadAt DEF Pcs
    <2> QED BY <2>6, <2>9 DEF Core
<1>10. CASE NotYet = {} /\ Go("finalize") /\ UNCHANGED <<canon, faults>>
    <2>1. op' = [kind |-> "upload", pc |-> "finalize", tx |-> t]
        BY <1>1, <1>10, OpIs DEF Go
    <2>2. op'.kind = "upload"
        BY <2>1
    <2>3. FilesOK' /\ MarkerOK' /\ Undoable(t)'
        BY <1>7, <1>10, <2>2
    <2>4. Placed(t)'
        BY <1>8, <1>10 DEF Placed
    <2>5. StepOK'
        BY <1>1, <1>2, <1>3, <1>5, <2>1, <2>3, <2>4, UploadAt DEF Pcs
    <2> QED BY <2>3, <2>5 DEF Core
<1>11. CASE /\ canon' = [canon EXCEPT ![t.file] = Over(@, t.temps \ NotYet, Empty)]
            /\ faults' = faults \cup (IF NotYet = t.temps THEN {} ELSE {"batch"})
            /\ Go("abort")
    <2>1. op' = [kind |-> "upload", pc |-> "abort", tx |-> t]
        BY <1>1, <1>11, OpIs DEF Go
    <2>2. op'.kind = "upload"
        BY <2>1
    <2>3. NotYet = t.temps
        BY <1>11
    <2>4. t.temps \ NotYet = {}
        BY <2>3
    <2>5. Over(canon[t.file], {}, Empty) = canon[t.file]
        BY <1>4, OverFacts
    <2>6. canon' = canon
        BY <1>2, <1>4, <1>11, <2>4, <2>5
    <2>7. FilesOK' /\ MarkerOK' /\ Undoable(t)'
        BY <1>7, <2>2, <2>6
    <2>8. canon[t.file] = Old(t.file)
        <3>1. \A i \in Idx : canon[t.file][i] = Old(t.file)[i]
            BY <1>3, <1>8, <2>3 DEF Undoable
        <3> QED BY <1>4, <3>1 DEF Contents
    <2>9. \A f \in Files : Same(f)'
        BY <1>1, <1>3, <1>5, <2>6, <2>8 DEF Core, FilesOK, Same, Old
    <2>10. StepOK'
        BY <1>1, <1>2, <1>3, <2>1, <2>9, UploadAt DEF Pcs
    <2> QED BY <2>7, <2>10 DEF Core
<1> QED BY <1>9, <1>10, <1>11 DEF WriteCanon

LEMMA FinalizeUploadCore ==
    ASSUME TypeOK, TypeOK', Core, FinalizeUpload
    PROVE  Core'
<1>1. /\ op.kind = "upload" /\ op.pc = "finalize"
      /\ UNCHANGED <<canon, temp, backup, cat, tx, open, nextOp>>
    BY DEF FinalizeUpload, diskVars, boundVars
<1> PICK t : t = op.tx
    OBVIOUS
<1>2. t \in Uploads /\ op \in UploadOps /\ t.file \in Files
    BY <1>1, OpFields, UploadFields
<1>3. Undoable(t) /\ Placed(t) /\ tx = t /\ mem = cat
    BY <1>1 DEF Core, StepOK, UploadOK
<1>4. Undoable(t)' /\ Placed(t)' /\ t.phase = "committing" /\ nextOp <= nextOp'
    BY <1>1, <1>3, UploadAssumption DEF Undoable, Placed, Old, Complete, TypeOK
<1>5. \/ mem' = [cat EXCEPT ![t.file] = New(t)] /\ op' = [kind |-> "upload", pc |-> "save", tx |-> t]
      \/ mem' = mem /\ op' = [kind |-> "upload", pc |-> "undo", tx |-> t]
    BY <1>1, <1>3, OpIs DEF FinalizeUpload, Go, Uploaded, New
<1>6. op'.kind = "upload"
    BY <1>5
<1>7. FilesOK'
    BY <1>1, <1>2, <1>3, <1>4, <1>6, OthersKept DEF Core
<1>8. MarkerOK'
    <2>1. Undoable(tx)'
        BY <1>1, <1>3, <1>4 DEF Undoable, Complete, Gapless, Old
    <2> QED BY <1>1, <1>3, <1>4, <2>1 DEF MarkerOK
<1>9. StepOK'
    <2>1. CASE mem' = [cat EXCEPT ![t.file] = New(t)] /\ op' = [kind |-> "upload", pc |-> "save", tx |-> t]
        <3>1. mem' = [cat' EXCEPT ![t.file] = New(t)]
            BY <1>1, <2>1
        <3> QED BY <1>1, <1>2, <1>3, <1>4, <2>1, <3>1, UploadAt DEF Pcs
    <2>2. CASE mem' = mem /\ op' = [kind |-> "upload", pc |-> "undo", tx |-> t]
        BY <1>1, <1>2, <1>3, <1>4, <2>2, UploadAt DEF Pcs
    <2> QED BY <1>5, <2>1, <2>2
<1> QED BY <1>7, <1>8, <1>9 DEF Core

\* The catalog is saved, or everything is put back.
LEMMA SaveUploadCore ==
    ASSUME TypeOK, TypeOK', Core, SaveUpload, faults' = {}
    PROVE  Core'
<1>1. /\ op.kind = "upload" /\ op.pc = "save" /\ UNCHANGED <<temp, backup, tx, open, nextOp>>
    BY DEF SaveUpload, boundVars
<1> PICK t : t = op.tx
    OBVIOUS
<1>2. t \in Uploads /\ op \in UploadOps /\ t.file \in Files /\ t.temps \subseteq Idx
      /\ t.uploaded \in 0..MaxChunks /\ t.oldLen \in 0..MaxChunks
    BY <1>1, OpFields, UploadFields
<1>3. Undoable(t) /\ Placed(t) /\ tx = t /\ mem = [cat EXCEPT ![t.file] = New(t)]
    BY <1>1 DEF Core, StepOK, UploadOK
<1>4. t.phase = "committing" /\ nextOp <= nextOp' /\ Complete(t) /\ t.temps = 1..t.uploaded
    BY <1>1, <1>3, UploadAssumption DEF Undoable, Complete, TypeOK, Gapless
<1>5. cat \in [Files -> Versions] /\ mem \in [Files -> Versions]
    BY DEF TypeOK
<1>6. CASE cat' = mem /\ Go("clean") /\ UNCHANGED <<canon, mem, faults>>
    <2>1. op' = [kind |-> "upload", pc |-> "clean", tx |-> t]
        BY <1>1, <1>6, OpIs DEF Go
    <2>2. cat'[t.file] = New(t) /\ \A g \in Files \ {t.file} : cat'[g] = cat[g]
        BY <1>2, <1>3, <1>5, <1>6
    <2>3. Done(t)'
        <3>1. ASSUME NEW i \in Idx, i > t.uploaded, i > t.oldLen PROVE canon[t.file][i] = Absent
            <4>1. i \notin t.temps /\ i \notin 1..t.oldLen
                BY <1>2, <1>4, <3>1, Basics
            <4>2. canon[t.file][i] = Old(t.file)[i] /\ i \notin t.baks
                BY <1>3, <4>1 DEF Undoable, Complete
            <4> QED BY <1>3, <4>2 DEF Undoable
        <3>2. \A i \in t.temps : canon[t.file][i] = t.op
            BY <1>3 DEF Placed
        <3> QED BY <1>4, <1>6, <2>2, <3>1, <3>2 DEF Done
    <2>4. FilesOK'
        <3>1. Whole(cat'[t.file].content) /\ cat'[t.file].rev < nextOp'
            BY <1>1, <1>2, <1>3, <2>2, NewFacts DEF Undoable, Complete
        <3>2. op'.kind = "upload"
            BY <2>1
        <3> QED BY <1>1, <1>2, <1>3, <1>4, <1>6, <2>2, <3>1, <3>2, OthersKept DEF Core
    <2>5. MarkerOK'
        <3>1. Done(tx)'
            BY <1>1, <1>3, <2>3 DEF Done, Complete, Gapless, New
        <3> QED BY <1>1, <1>3, <1>4, <3>1 DEF MarkerOK
    <2>6. mem' = cat' /\ tx' = t
        BY <1>1, <1>3, <1>6
    <2>7. StepOK'
        BY <1>2, <2>1, <2>3, <2>6, UploadAt DEF Pcs
    <2> QED BY <2>4, <2>5, <2>7 DEF Core
<1>7. CASE /\ canon' = Restored(t) /\ mem' = [mem EXCEPT ![t.file] = cat[t.file]]
           /\ UNCHANGED <<cat, faults>> /\ Go("abort")
    <2>1. op' = [kind |-> "upload", pc |-> "abort", tx |-> t]
        BY <1>1, <1>7, OpIs DEF Go
    <2>2. mem' = cat'
        BY <1>2, <1>3, <1>5, <1>7
    <2>3. canon'[t.file] = Old(t.file) /\ Old(t.file)' = Old(t.file)
          /\ \A g \in Files \ {t.file} : canon'[g] = canon[g]
        BY <1>2, <1>3, <1>7, UndoneFacts DEF Old
    <2>4. \A f \in Files : Same(f)'
        BY <1>1, <1>3, <1>4, <1>7, <2>3 DEF Core, FilesOK, Same, Old
    <2>5. FilesOK'
        <3>1. op'.kind = "upload"
            BY <2>1
        <3> QED BY <1>1, <1>2, <1>3, <1>4, <1>7, <2>3, <3>1, OthersKept DEF Core
    <2>6. MarkerOK'
        <3>1. Undoable(t)'
            BY <1>1, <1>3, <1>7, <2>3 DEF Undoable
        <3>2. Undoable(tx)'
            BY <1>1, <1>3, <3>1 DEF Undoable, Complete, Gapless, Old
        <3> QED BY <1>1, <1>3, <1>4, <3>2 DEF MarkerOK
    <2>7. StepOK'
        BY <1>2, <2>1, <2>2, <2>4, UploadAt DEF Pcs
    <2> QED BY <2>5, <2>6, <2>7 DEF Core
<1>8. "save" \notin faults'
    OBVIOUS
<1> QED BY <1>6, <1>7, <1>8 DEF SaveUpload

\* What is left of the version before the upload.
LEMMA TailFacts ==
    ASSUME TypeOK, NEW t \in Uploads, Done(t)
    PROVE  /\ Over(canon[t.file], (t.uploaded + 1)..t.oldLen, Empty) = Old(t.file)
           /\ \A i \in t.temps : Over(canon[t.file], (t.uploaded + 1)..t.oldLen, Empty)[i] = t.op
<1>1. t.file \in Files /\ t.temps \subseteq Idx /\ t.uploaded \in 0..MaxChunks /\ t.oldLen \in 0..MaxChunks
    BY UploadFields
<1>2. Gapless(t) /\ cat[t.file] = New(t) /\ t.temps = 1..t.uploaded
    BY DEF Done, Complete, Gapless
<1>3. Old(t.file) \in Contents /\ canon[t.file] \in Contents
    BY <1>1, VersionFields DEF TypeOK, Old, Contents
<1>4. \A i \in Idx : Old(t.file)[i] = IF i \in t.temps THEN t.op ELSE Absent
    BY <1>2, NewFacts DEF Old
<1> DEFINE R == (t.uploaded + 1)..t.oldLen
<1>5. \A i \in Idx : Old(t.file)[i] = IF i \in R THEN Empty[i] ELSE canon[t.file][i]
    <2> SUFFICES ASSUME NEW i \in Idx
                 PROVE  Old(t.file)[i] = IF i \in R THEN Empty[i] ELSE canon[t.file][i]
        OBVIOUS
    <2>1. i \in Nat /\ i >= 1 /\ Empty[i] = Absent
        BY Basics, EmptyFacts
    <2>2. CASE i \in t.temps
        <3>1. i \notin R
            BY <1>1, <1>2, <2>1, <2>2
        <3> QED BY <1>4, <2>2, <3>1 DEF Done
    <2>3. CASE i \notin t.temps
        <3>1. i \notin R => i > t.uploaded /\ i > t.oldLen
            BY <1>1, <1>2, <2>1, <2>3
        <3> QED BY <1>4, <2>1, <2>3, <3>1 DEF Done
    <2> QED BY <2>2, <2>3
<1> HIDE DEF R
<1>6. Over(canon[t.file], R, Empty) = Old(t.file)
    BY <1>3, <1>5, OverFacts
<1> QED BY <1>1, <1>4, <1>6 DEF R

LEMMA CleanUploadCore ==
    ASSUME TypeOK, TypeOK', Core, CleanUpload
    PROVE  Core'
<1>1. /\ op.kind = "upload" /\ op.pc = "clean" /\ UNCHANGED <<cat, mem, tx, open, nextOp>>
    BY DEF CleanUpload, catVars, boundVars
<1> PICK t : t = op.tx
    OBVIOUS
<1>2. t \in Uploads /\ op \in UploadOps /\ t.file \in Files /\ t.temps \subseteq Idx
    BY <1>1, OpFields, UploadFields
<1>3. Done(t) /\ tx = t /\ mem = cat
    BY <1>1 DEF Core, StepOK, UploadOK
<1>4. t.phase = "committing" /\ nextOp <= nextOp'
    BY <1>1, <1>3, UploadAssumption DEF Done, Complete, TypeOK
<1>5. op' = [kind |-> "upload", pc |-> "drop", tx |-> t]
    BY <1>1, OpIs DEF CleanUpload, Go
<1>6. /\ canon'[t.file] = Over(canon[t.file], (t.uploaded + 1)..t.oldLen, Empty)
      /\ \A g \in Files \ {t.file} : canon'[g] = canon[g]
    BY <1>2 DEF CleanUpload, TypeOK
<1>7. canon'[t.file] = Old(t.file) /\ \A i \in t.temps : canon'[t.file][i] = t.op
    BY <1>2, <1>3, <1>6, TailFacts
<1>8. \A f \in Files : Same(f)'
    BY <1>1, <1>3, <1>4, <1>6, <1>7 DEF Core, FilesOK, Same, Old
<1>9. FilesOK'
    <2>1. op'.kind = "upload"
        BY <1>5
    <2> QED BY <1>1, <1>2, <1>3, <1>4, <1>6, <1>8, <2>1, OthersKept DEF Core
<1>10. MarkerOK'
    <2>1. \A i \in Idx : i > t.uploaded /\ i > t.oldLen => canon'[t.file][i] = Absent
        <3> SUFFICES ASSUME NEW i \in Idx, i > t.uploaded, i > t.oldLen PROVE canon'[t.file][i] = Absent
            OBVIOUS
        <3>1. i \notin t.temps
            BY <1>2, <1>3, Basics, UploadFields DEF Done, Complete, Gapless
        <3> QED BY <1>2, <1>3, <1>7, <3>1, NewFacts DEF Old, Done, Complete
    <2>2. Done(tx)'
        BY <1>1, <1>3, <1>7, <2>1 DEF Done, Complete, Gapless, New
    <2> QED BY <1>1, <1>3, <1>4, <2>2 DEF MarkerOK
<1>11. StepOK'
    BY <1>1, <1>2, <1>3, <1>5, <1>8, UploadAt DEF Pcs
<1> QED BY <1>9, <1>10, <1>11 DEF Core

\* The catalog update failed.  Once the backups are gone nothing is left to undo with, but
\* the file is the old one already.
LEMMA UndoUploadCore ==
    ASSUME TypeOK, TypeOK', Core, UndoUpload
    PROVE  Core'
<1>1. /\ op.kind = "upload" /\ op.pc \in {"undo", "undone"} /\ UNCHANGED <<cat, mem, tx, open, nextOp>>
    BY DEF UndoUpload, catVars, boundVars
<1> PICK t : t = op.tx
    OBVIOUS
<1>2. t \in Uploads /\ op \in UploadOps /\ t.file \in Files /\ t.temps \subseteq Idx
    BY <1>1, OpFields, UploadFields
<1>3. Undoable(t) /\ tx = t /\ mem = cat /\ (op.pc = "undone" => \A f \in Files : Same(f))
    BY <1>1 DEF Core, StepOK, UploadOK
<1>4. t.phase = "committing" /\ nextOp <= nextOp' /\ Complete(t)
    BY <1>1, <1>3, UploadAssumption DEF Undoable, Complete, TypeOK
<1>5. Old(t.file)' = Old(t.file)
    BY <1>1 DEF Old
<1>6. CASE op.pc = "undo" /\ canon' = Restored(t) /\ Go("undone") /\ UNCHANGED <<temp, backup>>
    <2>1. op' = [kind |-> "upload", pc |-> "undone", tx |-> t]
        BY <1>1, <1>6, OpIs DEF Go
    <2>2. canon'[t.file] = Old(t.file) /\ \A g \in Files \ {t.file} : canon'[g] = canon[g]
        BY <1>2, <1>3, <1>6, UndoneFacts
    <2>3. \A f \in Files : Same(f)'
        BY <1>1, <1>3, <1>4, <2>2 DEF Core, FilesOK, Same, Old
    <2>4. FilesOK'
        <3>1. op'.kind = "upload"
            BY <2>1
        <3> QED BY <1>1, <1>2, <1>3, <1>4, <2>2, <3>1, OthersKept DEF Core
    <2>5. Undoable(t)'
        BY <1>1, <1>3, <1>5, <1>6, <2>2 DEF Undoable
    <2>6. MarkerOK'
        <3>1. Undoable(tx)'
            BY <1>1, <1>3, <2>5 DEF Undoable, Complete, Gapless, Old
        <3> QED BY <1>1, <1>3, <1>4, <3>1 DEF MarkerOK
    <2>7. StepOK'
        BY <1>1, <1>2, <1>3, <2>1, <2>3, <2>5, UploadAt DEF Pcs
    <2> QED BY <2>4, <2>6, <2>7 DEF Core
<1>7. CASE op.pc = "undone" /\ Go("rollback") /\ UNCHANGED canon
    <2>1. op' = [kind |-> "upload", pc |-> "rollback", tx |-> t]
        BY <1>1, <1>7, OpIs DEF Go
    <2>2. \A f \in Files : Same(f) /\ Same(f)'
        BY <1>1, <1>3, <1>7 DEF Same, Old
    <2>3. FilesOK'
        BY <1>1, <1>4, <1>7, <2>2, FilesKept DEF Core
    <2>4. MarkerOK'
        <3>1. ASSUME t.baks = {} PROVE Undoable(tx)'
            BY <1>1, <1>3, <1>5, <1>7, <3>1 DEF Undoable, Complete, Gapless, Old
        <3>2. t.baks # {} => InRollbackTail'
            BY <2>1 DEF InRollbackTail
        <3> QED BY <1>1, <1>3, <1>4, <3>1, <3>2 DEF MarkerOK
    <2>5. StepOK'
        BY <1>1, <1>2, <1>3, <1>4, <2>1, <2>2, UploadAt DEF Pcs
    <2> QED BY <2>3, <2>4, <2>5 DEF Core
<1> QED BY <1>6, <1>7 DEF UndoUpload

LEMMA EndUploadCore ==
    ASSUME TypeOK, TypeOK', Core, CleanAborted \/ DropUpload
    PROVE  Core'
<1>1. /\ op.kind = "upload" /\ op.pc \in {"abort", "drop", "rollback"}
      /\ UNCHANGED <<canon, backup, cat, mem, open, nextOp>>
    BY DEF CleanAborted, DropUpload, diskVars, catVars, boundVars
<1> PICK t : t = op.tx
    OBVIOUS
<1>2. t \in Uploads /\ mem = cat /\ \A f \in Files : Same(f) /\ Same(f)'
    BY <1>1, OpFields DEF Core, StepOK, UploadOK, Same, Old
<1>3. FilesOK'
    <2>1. nextOp <= nextOp'
        BY <1>1, UploadAssumption DEF TypeOK
    <2> QED BY <1>1, <1>2, <2>1, FilesKept DEF Core
<1>4. CASE CleanAborted
    <2>1. op' = [kind |-> "upload", pc |-> "drop", tx |-> t] /\ op'.kind = "upload"
        BY <1>1, <1>4, OpIs DEF CleanAborted, Go
    <2>2. tx' = tx /\ ~InRollbackTail
        BY <1>4 DEF CleanAborted, InRollbackTail
    <2>3. MarkerOK'
        <3>1. tx.phase = "staging" => Began(tx)'
            BY <1>1, <2>2 DEF Core, MarkerOK, Began
        <3>2. tx.phase = "committing" => Undoable(tx)' \/ Done(tx)'
            BY <1>1, <2>2 DEF Core, MarkerOK, Undoable, Done, Old, Complete, Gapless, New
        <3> QED BY <2>1, <2>2, <3>1, <3>2 DEF MarkerOK
    <2>4. StepOK'
        BY <1>1, <1>2, <2>1, UploadAt DEF Pcs
    <2> QED BY <1>3, <2>3, <2>4 DEF Core
<1>5. CASE DropUpload
    <2>1. op'.kind = "none" /\ tx'.phase = "none"
        BY <1>5 DEF DropUpload, NoOp, NoTx
    <2>2. MarkerOK'
        BY <2>1 DEF MarkerOK
    <2>3. StepOK'
        BY <1>1, <1>2, <2>1 DEF StepOK, UploadOK, ReplaceOK, RecoverOK, IdleOK
    <2> QED BY <1>3, <2>2, <2>3 DEF Core
<1> QED BY <1>4, <1>5

\* A replacement starts from the version of the catalog and never meets a commit.
LEMMA BeginReplaceCore ==
    ASSUME TypeOK, TypeOK', Core, NEW n \in Idx, BeginReplace(n)
    PROVE  Core'
<1> DEFINE new == Over(Empty, 1..n, All(nextOp))
<1>1. /\ op.kind = "none" /\ open /\ nextOp <= MaxOps /\ nextOp' = nextOp + 1 /\ mem[1] # NoNode
      /\ op' = [kind |-> "replace", op |-> nextOp, old |-> canon[1], new |-> new, todo |-> Idx]
      /\ UNCHANGED <<canon, temp, backup, tx, cat, mem, open>>
    BY DEF BeginReplace, Ready, diskVars, catVars
<1>2. nextOp \in Nat /\ nextOp \in 1..(MaxOps + 1) /\ 1 \in Files /\ n \in 0..MaxChunks
    BY <1>1, UploadAssumption, Basics DEF TypeOK, Files, Idx
<1>3. mem = cat /\ tx.phase # "committing"
    BY <1>1 DEF Core, StepOK, IdleOK
<1>4. \A f \in Files : Same(f)
    BY <1>1, <1>3, AllSame DEF Core
<1>5. Whole(new)
    <2>1. \A i \in Idx : new[i] = IF i \in 1..n THEN nextOp ELSE Absent
        <3>1. \A i \in Idx : new[i] = IF i \in 1..n THEN All(nextOp)[i] ELSE Empty[i]
            BY DEF Over
        <3>2. \A i \in Idx : All(nextOp)[i] = nextOp /\ Empty[i] = Absent
            BY EmptyFacts
        <3> HIDE DEF new
        <3> QED BY <3>1, <3>2
    <2>2. \A i \in Idx : i \in 1..n <=> i <= n
        BY <1>2, Basics
    <2>3. nextOp # Absent
        BY <1>2, Basics
    <2> HIDE DEF new
    <2>4. \A i \in Idx : new[i] # Absent <=> i <= n
        BY <2>1, <2>2, <2>3
    <2> QED BY <1>2, <2>4 DEF Whole
<1> HIDE DEF new
<1>6. /\ op'.kind = "replace" /\ op'.op = nextOp /\ op'.old = canon[1] /\ op'.new = new /\ op'.todo = Idx
    BY <1>1
<1>7. FilesOK'
    <2>1. nextOp <= nextOp'
        BY <1>1, <1>2
    <2> QED BY <1>1, <1>4, <2>1, FilesKept DEF Core
<1>8. MarkerOK'
    BY <1>1, <1>3 DEF Core, MarkerOK, Began, Written
<1>9. ReplaceOK'
    <2>1. op'.op < nextOp' /\ Whole(op'.new)
        BY <1>1, <1>2, <1>5, <1>6
    <2>2. op'.old = Old(1)'
        BY <1>1, <1>2, <1>4, <1>6 DEF Same, Old
    <2>3. mem' = cat' /\ tx'.phase # "committing" /\ cat'[1] # NoNode
        BY <1>1, <1>3
    <2>4. \A i \in Idx \ op'.todo : canon'[1][i] = op'.new[i]
        BY <1>6
    <2> QED BY <2>1, <2>2, <2>3, <2>4 DEF ReplaceOK, Whole
<1>10. StepOK'
    BY <1>6, <1>9 DEF StepOK, UploadOK, RecoverOK, IdleOK
<1> QED BY <1>7, <1>8, <1>10 DEF Core

LEMMA ReplaceChunkCore ==
    ASSUME TypeOK, TypeOK', Core, ReplaceChunk
    PROVE  Core'
<1>1. /\ op.kind = "replace" /\ op.todo # {} /\ UNCHANGED <<temp, backup, tx, cat, mem, open, nextOp>>
      /\ canon' = [canon EXCEPT ![1] = Over(@, {Least(op.todo)}, op.new)]
      /\ op' = [op EXCEPT !.todo = @ \ {Least(op.todo)}]
    BY DEF ReplaceChunk, catVars, boundVars
<1>2. op \in ReplaceOps /\ op.todo \subseteq Idx /\ 1 \in Files
    BY <1>1, Kinds DEF ReplaceOps, Files
<1>3. ReplaceOK
    BY DEF Core, StepOK
<1>4. /\ op'.kind = "replace" /\ op'.op = op.op /\ op'.old = op.old /\ op'.new = op.new
      /\ op'.todo = op.todo \ {Least(op.todo)}
    BY <1>1, <1>2 DEF ReplaceOps
<1>5. /\ canon'[1] = Over(canon[1], {Least(op.todo)}, op.new)
      /\ \A g \in Files \ {1} : canon'[g] = canon[g]
    BY <1>1, <1>2 DEF TypeOK
<1>6. \A i \in Idx : canon'[1][i] = IF i = Least(op.todo) THEN op.new[i] ELSE canon[1][i]
    BY <1>5, OverFacts
<1>7. FilesOK'
    <2>1. \A f \in Files : f # 1 => Same(f) /\ Same(f)'
        BY <1>1, <1>3, <1>5 DEF Core, FilesOK, ReplaceOK, Same, Old
    <2>2. \A f \in Files : Whole(cat'[f].content) /\ cat'[f].rev < nextOp'
        BY <1>1 DEF Core, FilesOK, Old
    <2> QED BY <1>4, <2>1, <2>2 DEF FilesOK, Old, Same, Whole
<1>8. MarkerOK'
    BY <1>1, <1>3, <1>4 DEF Core, MarkerOK, ReplaceOK, Began, Written
<1>9. ReplaceOK'
    <2>1. \A i \in Idx \ op'.todo : canon'[1][i] = op'.new[i]
        BY <1>1, <1>3, <1>4, <1>6 DEF ReplaceOK
    <2> QED BY <1>1, <1>3, <1>4, <2>1 DEF ReplaceOK, Old, Whole
<1>10. StepOK'
    BY <1>4, <1>9 DEF StepOK, UploadOK, RecoverOK, IdleOK
<1> QED BY <1>7, <1>8, <1>10 DEF Core

LEMMA EndReplaceCore ==
    ASSUME TypeOK, TypeOK', Core, EndReplace
    PROVE  Core'
<1>1. /\ op.kind = "replace" /\ op'.kind = "none" /\ UNCHANGED <<temp, backup, tx, open, nextOp>>
    BY DEF EndReplace, boundVars, NoOp
<1>2. op \in ReplaceOps /\ op.new \in Contents /\ 1 \in Files
    BY <1>1, Kinds DEF ReplaceOps, Files, Contents
<1>3. ReplaceOK /\ mem = cat /\ tx.phase # "committing"
    BY <1>1 DEF Core, StepOK, ReplaceOK
<1>4. \A f \in Files \ {1} : Same(f)
    BY <1>3 DEF Core, FilesOK
<1>5. /\ \A f \in Files \ {1} : canon'[f] = canon[f] /\ cat'[f] = cat[f]
      /\ Same(1)' /\ mem' = cat' /\ Whole(cat'[1].content) /\ cat'[1].rev < nextOp'
      /\ cat[1] # NoNode
    <2>1. CASE op.todo = {} /\ mem' = [mem EXCEPT ![1] = [rev |-> op.op, content |-> op.new]] /\ cat' = mem'
               /\ UNCHANGED canon
        <3>1. cat'[1] = [rev |-> op.op, content |-> op.new] /\ \A f \in Files \ {1} : cat'[f] = cat[f]
            BY <1>2, <1>3, <2>1 DEF TypeOK
        <3>2. cat'[1].rev = op.op /\ cat'[1].content = op.new
            BY <3>1
        <3>3. canon[1] = op.new
            <4>1. \A i \in Idx : canon[1][i] = op.new[i]
                BY <1>1, <1>3, <2>1 DEF ReplaceOK
            <4>2. canon[1] \in Contents
                BY <1>2 DEF TypeOK, Contents
            <4> QED BY <1>2, <4>1, <4>2 DEF Contents
        <3> QED BY <1>1, <1>3, <2>1, <3>1, <3>2, <3>3 DEF ReplaceOK, Same, Old
    <2>2. CASE canon' = [canon EXCEPT ![1] = op.old] /\ UNCHANGED catVars
        <3>1. canon'[1] = op.old /\ \A f \in Files \ {1} : canon'[f] = canon[f]
            BY <1>2, <2>2 DEF TypeOK
        <3>2. Whole(cat[1].content) /\ cat[1].rev < nextOp
            BY <1>2 DEF Core, FilesOK, Old
        <3> QED BY <1>1, <1>3, <2>2, <3>1, <3>2 DEF ReplaceOK, Same, Old, catVars
    <2> QED BY <2>1, <2>2 DEF EndReplace
<1>6. FilesOK'
    <2>1. \A f \in Files \ {1} : Same(f)' /\ Whole(cat'[f].content) /\ cat'[f].rev < nextOp'
        BY <1>1, <1>4, <1>5 DEF Core, FilesOK, Same, Old
    <2> QED BY <1>5, <2>1 DEF FilesOK, Old, Same, Whole
<1>7. MarkerOK'
    <2>1. ASSUME tx.phase = "staging" PROVE Began(tx)' /\ Written(tx)'
        <3>1. Began(tx) /\ Written(tx) /\ tx.file \in Files
            BY <1>1, <2>1, Kinds, UploadFields DEF Core, MarkerOK, TypeOK, NoTx
        <3>2. tx.isNew => tx.file # 1
            BY <1>5, <3>1 DEF Began
        <3> QED BY <1>1, <1>5, <3>1, <3>2 DEF Began, Written
    <2> QED BY <1>1, <1>3, <2>1 DEF MarkerOK
<1>8. StepOK'
    BY <1>1, <1>3, <1>5 DEF StepOK, UploadOK, ReplaceOK, RecoverOK, IdleOK
<1> QED BY <1>6, <1>7, <1>8 DEF Core

\* The readers change nothing but the cache.
LEMMA ReaderCore ==
    ASSUME Core, UNCHANGED <<canon, temp, backup, cat, mem, tx, open, op, nextOp>>
    PROVE  Core'
<1>1. FilesOK'
    BY DEF Core, FilesOK, Same, Old, Whole
<1>2. MarkerOK'
    BY DEF Core, MarkerOK, InRollbackTail, Began, Written, Undoable, Done, Complete, Gapless, New, Old
<1>3. UploadOK'
    BY DEF Core, StepOK, UploadOK, Began, Written, Undoable, Done, Complete, Gapless, New, Old, Placed, Same
<1>4. ReplaceOK' /\ RecoverOK' /\ IdleOK'
    BY DEF Core, StepOK, ReplaceOK, RecoverOK, IdleOK, Undoable, Done, Complete, Gapless, New, Old, Same,
       Whole
<1> QED BY <1>1, <1>2, <1>3, <1>4 DEF Core, StepOK

\* A session ends, with or without a chance to save.
LEMMA EndSessionCore ==
    ASSUME TypeOK, TypeOK', Core, Lock \/ Crash, faults' = {}
    PROVE  Core'
<1>1. /\ UNCHANGED <<temp, backup, tx, nextOp>> /\ op'.kind = "none" /\ ~open'
    BY DEF Lock, Crash, diskVars, boundVars, Ready, NoOp
<1>2. cat' = cat /\ mem' = cat
    BY DEF Lock, Crash, Ready, Core, StepOK, IdleOK
<1>3. ~InRollbackTail
    <2>1. CASE Lock
        BY <2>1 DEF Lock, Ready, InRollbackTail
    <2>2. CASE Crash
        <3>1. "cut" \notin faults'
            OBVIOUS
        <3> QED BY <2>2, <3>1 DEF Crash
    <2> QED BY <2>1, <2>2
<1>4. CASE op.kind = "replace"
    <2>1. canon' = [canon EXCEPT ![1] = op.old] /\ ReplaceOK
        BY <1>4 DEF Lock, Crash, Ready, Core, StepOK
    <2>2. /\ op.old = Old(1) /\ tx.phase # "committing" /\ 1 \in Files
        BY <1>4, <2>1 DEF ReplaceOK, Files
    <2>3. canon'[1] = Old(1) /\ \A f \in Files \ {1} : canon'[f] = canon[f]
        BY <2>1, <2>2 DEF TypeOK
    <2>4. \A f \in Files : Same(f)'
        BY <1>2, <2>2, <2>3 DEF Core, FilesOK, Same, Old
    <2>5. FilesOK'
        BY <1>1, <1>2, <2>4 DEF Core, FilesOK, Old, Same, Whole
    <2>6. MarkerOK'
        BY <1>1, <1>2, <2>2 DEF Core, MarkerOK, Began
    <2>7. StepOK'
        BY <1>1, <1>2 DEF StepOK, UploadOK, ReplaceOK, RecoverOK, IdleOK
    <2> QED BY <2>5, <2>6, <2>7 DEF Core
<1>5. CASE op.kind # "replace"
    <2>1. canon' = canon
        BY <1>5 DEF Lock, Crash, diskVars
    <2>2. FilesOK'
        BY <1>1, <1>2, <1>5, <2>1 DEF Core, FilesOK, Old, Same, Whole
    <2>3. tx.phase = "staging" => Began(tx)'
        BY <1>1, <1>2 DEF Core, MarkerOK, Began
    <2>4. tx.phase = "committing" => Undoable(tx)' \/ Done(tx)'
        BY <1>1, <1>2, <1>3, <2>1 DEF Core, MarkerOK, Undoable, Done, Complete, Gapless, New, Old
    <2>5. MarkerOK'
        BY <1>1, <2>3, <2>4 DEF MarkerOK
    <2>6. StepOK'
        BY <1>1, <1>2 DEF StepOK, UploadOK, ReplaceOK, RecoverOK, IdleOK
    <2> QED BY <2>2, <2>5, <2>6 DEF Core
<1> QED BY <1>4, <1>5

LEMMA UnlockCore ==
    ASSUME TypeOK, TypeOK', Core, Unlock
    PROVE  Core'
<1>1. /\ UNCHANGED <<canon, temp, backup, tx, cat, nextOp>> /\ mem' = cat /\ op.kind = "none" /\ ~open
    BY DEF Unlock, diskVars, boundVars, NoOp
<1>2. \/ op'.kind = "none" /\ open' /\ tx.phase = "none"
      \/ op'.kind = "recover" /\ op'.pc = "chunks" /\ ~op'.back /\ ~open'
    BY <1>1 DEF Unlock, NoTx
<1>3. FilesOK'
    BY <1>1, <1>2 DEF Core, FilesOK, Old, Same, Whole
<1>4. MarkerOK'
    <2>1. tx.phase = "staging" => Began(tx)'
        BY <1>1 DEF Core, MarkerOK, Began
    <2>2. tx.phase = "committing" => Undoable(tx)' \/ Done(tx)'
        BY <1>1 DEF Core, MarkerOK, InRollbackTail, Undoable, Done, Complete, Gapless, New, Old
    <2> QED BY <1>1, <1>2, <2>1, <2>2 DEF MarkerOK
<1>5. StepOK'
    BY <1>1, <1>2 DEF StepOK, UploadOK, ReplaceOK, RecoverOK, IdleOK
<1> QED BY <1>3, <1>4, <1>5 DEF Core

\* The recovery decides for the catalog's version.
LEMMA RecoverChunksCore ==
    ASSUME TypeOK, TypeOK', Core, RecoverChunks
    PROVE  Core'
<1>1. /\ op.kind = "recover" /\ op.pc = "chunks" /\ UNCHANGED <<temp, backup, tx, cat, mem, open, nextOp>>
    BY DEF RecoverChunks, catVars, boundVars
<1> PICK t : t = tx
    OBVIOUS
<1>2. t \in Uploads /\ t.file \in Files /\ op \in RecoverOps /\ ~open
    BY <1>1, Kinds, UploadFields DEF TypeOK
<1>3. mem = cat /\ ~op.back /\ ~InRollbackTail
    BY <1>1 DEF Core, StepOK, IdleOK, RecoverOK, InRollbackTail
<1>4. nextOp <= nextOp' /\ Old(t.file)' = Old(t.file)
    BY <1>1, UploadAssumption DEF TypeOK, Old
<1>5. tx.phase = "staging" => Began(tx)'
    BY <1>1 DEF Core, MarkerOK, Began
<1>6. ASSUME canon' = canon
      PROVE  tx.phase = "committing" => Undoable(tx)' \/ Done(tx)'
    BY <1>1, <1>3, <1>6 DEF Core, MarkerOK, Undoable, Done, Complete, Gapless, New, Old
<1> DEFINE back == tx.phase = "committing" /\ ~Matches
<1>7. CASE ~back /\ Go("clean") /\ UNCHANGED <<canon, refused>>
    <2>1. op'.kind = "recover" /\ op'.pc = "clean" /\ ~op'.back
        BY <1>2, <1>3, <1>7 DEF RecoverOps, Go
    <2>2. tx.phase = "staging" \/ Done(t)
        <3>1. Matches => ~Undoable(t)
            BY <1>3 DEF Matches, Undoable
        <3>2. t.phase \in {"staging", "committing"}
            BY <1>2, UploadFields
        <3> QED BY <1>3, <1>7, <3>1, <3>2 DEF Core, MarkerOK
    <2>3. tx'.phase = "staging" \/ Done(tx)'
        BY <1>1, <1>7, <2>2 DEF Done, Complete, Gapless, New
    <2>4. FilesOK'
        BY <1>1, <1>7, <2>1 DEF Core, FilesOK, Old, Same, Whole
    <2>5. MarkerOK'
        BY <1>1, <1>5, <1>6, <1>7, <2>1 DEF MarkerOK
    <2>6. StepOK'
        BY <1>1, <1>2, <1>3, <2>1, <2>3 DEF StepOK, UploadOK, ReplaceOK, RecoverOK, IdleOK
    <2> QED BY <2>4, <2>5, <2>6 DEF Core
<1>8. CASE back /\ canon' = Restored(tx) /\ op' = [op EXCEPT !.pc = "clean", !.back = TRUE]
    <2>1. op'.kind = "recover" /\ op'.pc = "clean" /\ op'.back
        BY <1>2, <1>8 DEF RecoverOps
    <2>2. Undoable(t)
        <3>1. Done(t) => Matches
            BY <1>2, <1>3, NewFacts DEF Done, Complete, Matches
        <3> QED BY <1>3, <1>8, <3>1 DEF Core, MarkerOK
    <2>3. canon'[t.file] = Old(t.file) /\ \A g \in Files \ {t.file} : canon'[g] = canon[g]
        BY <1>2, <1>8, <2>2, UndoneFacts
    <2>4. Undoable(tx)' /\ Same(tx.file)'
        <3>1. Undoable(t)'
            BY <1>1, <1>4, <2>2, <2>3 DEF Undoable
        <3> QED BY <1>1, <1>4, <2>3, <3>1 DEF Undoable, Complete, Gapless, Old, Same
    <2>5. FilesOK'
        BY <1>1, <1>2, <1>4, <1>8, <2>1, <2>3, OthersKept DEF Core
    <2>6. MarkerOK'
        BY <1>1, <1>5, <2>1, <2>4 DEF MarkerOK
    <2>7. StepOK'
        BY <1>1, <1>2, <1>3, <2>1, <2>4 DEF StepOK, UploadOK, ReplaceOK, RecoverOK, IdleOK
    <2> QED BY <2>5, <2>6, <2>7 DEF Core
<1>9. CASE op' = NoOp /\ UNCHANGED canon
    <2>1. op'.kind = "none"
        BY <1>9 DEF NoOp
    <2>2. FilesOK'
        BY <1>1, <1>9, <2>1 DEF Core, FilesOK, Old, Same, Whole
    <2>3. MarkerOK'
        BY <1>1, <1>2, <1>5, <1>6, <1>9, <2>1 DEF MarkerOK
    <2>4. StepOK'
        BY <1>1, <1>2, <1>3, <2>1 DEF StepOK, UploadOK, ReplaceOK, RecoverOK, IdleOK
    <2> QED BY <2>2, <2>3, <2>4 DEF Core
<1> QED BY <1>7, <1>8, <1>9 DEF RecoverChunks

LEMMA RecoverCleanCore ==
    ASSUME TypeOK, TypeOK', Core, RecoverClean
    PROVE  Core'
<1>1. /\ op.kind = "recover" /\ op.pc = "clean" /\ UNCHANGED <<tx, cat, mem, open, nextOp>>
      /\ op' = [op EXCEPT !.pc = "drop"]
    BY DEF RecoverClean, catVars, boundVars, Go
<1> PICK t : t = tx
    OBVIOUS
<1>2. t \in Uploads /\ t.file \in Files /\ op \in RecoverOps /\ ~open /\ t.temps \subseteq Idx
    BY <1>1, Kinds, UploadFields DEF TypeOK
<1>3. /\ mem = cat /\ (op.back => Undoable(t) /\ Same(t.file))
      /\ (~op.back => t.phase = "staging" \/ Done(t))
    BY <1>1 DEF Core, StepOK, IdleOK, RecoverOK
<1>4. nextOp <= nextOp' /\ Old(t.file)' = Old(t.file)
    BY <1>1, UploadAssumption DEF TypeOK, Old
<1>5. op'.kind = "recover" /\ op'.pc = "drop" /\ op'.back = op.back
    BY <1>1, <1>2 DEF RecoverOps
<1>6. tx.phase = "staging" => Began(tx)'
    BY <1>1 DEF Core, MarkerOK, Began
<1>7. /\ canon'[t.file] = Old(t.file) /\ \A g \in Files \ {t.file} : canon'[g] = canon[g]
      /\ ~op.back => t.phase = "staging" \/ Done(t)'
    <2>1. CASE op.back
        BY <1>3, <2>1 DEF RecoverClean, Same
    <2>2. CASE ~op.back /\ t.phase = "staging"
        BY <1>1, <1>2, <2>2 DEF RecoverClean, Core, FilesOK, Same
    <2>3. CASE ~op.back /\ t.phase # "staging"
        <3>1. Done(t) /\ t.phase = "committing"
            BY <1>3, <2>3 DEF Done, Complete
        <3>2. /\ canon'[t.file] = Over(canon[t.file], (t.uploaded + 1)..t.oldLen, Empty)
              /\ \A g \in Files \ {t.file} : canon'[g] = canon[g]
            BY <1>2, <2>3, <3>1 DEF RecoverClean, TypeOK
        <3>3. canon'[t.file] = Old(t.file) /\ \A i \in t.temps : canon'[t.file][i] = t.op
            BY <1>2, <3>1, <3>2, TailFacts
        <3>4. \A i \in Idx : i > t.uploaded /\ i > t.oldLen => canon'[t.file][i] = Absent
            <4> SUFFICES ASSUME NEW i \in Idx, i > t.uploaded, i > t.oldLen PROVE canon'[t.file][i] = Absent
                OBVIOUS
            <4>1. i \notin t.temps
                BY <1>2, <3>1, Basics, UploadFields DEF Done, Complete, Gapless
            <4> QED BY <1>2, <3>1, <3>3, <4>1, NewFacts DEF Old, Done, Complete
        <3>5. Done(t)'
            BY <1>1, <3>1, <3>3, <3>4 DEF Done
        <3> QED BY <3>2, <3>3, <3>5
    <2> QED BY <2>1, <2>2, <2>3
<1>8. Same(tx.file)'
    BY <1>1, <1>4, <1>7 DEF Same, Old
<1>9. FilesOK'
    <2>1. Same(t.file)'
        BY <1>4, <1>7 DEF Same
    <2> QED BY <1>1, <1>2, <1>4, <1>5, <1>7, <2>1, OthersKept DEF Core
<1>10. ~op.back => tx'.phase = "staging" \/ Done(tx)'
    BY <1>1, <1>7 DEF Done, Complete, Gapless, New
<1>11. MarkerOK'
    <2>1. ASSUME op.back, t.baks = {} PROVE Undoable(tx)'
        BY <1>1, <1>3, <1>4, <1>7, <2>1 DEF Undoable, Complete, Gapless, Old
    <2>2. op.back /\ t.baks # {} => InRollbackTail'
        BY <1>1, <1>5 DEF InRollbackTail
    <2>3. t.phase \in {"staging", "committing"}
        BY <1>2, UploadFields
    <2> QED BY <1>1, <1>5, <1>6, <1>10, <2>1, <2>2 DEF MarkerOK
<1>12. op.back => tx'.phase = "committing"
    BY <1>1, <1>3 DEF Undoable, Complete
<1>13. StepOK'
    BY <1>1, <1>2, <1>3, <1>5, <1>8, <1>10, <1>12 DEF StepOK, UploadOK, ReplaceOK, RecoverOK, IdleOK
<1> QED BY <1>9, <1>11, <1>13 DEF Core

LEMMA RecoverDropCore ==
    ASSUME TypeOK, TypeOK', Core, RecoverDrop
    PROVE  Core'
<1>1. /\ op.kind = "recover" /\ op.pc = "drop" /\ UNCHANGED <<canon, cat, mem, nextOp>>
      /\ op'.kind = "none" /\ tx'.phase = "none"
    BY DEF RecoverDrop, catVars, boundVars, diskVars, NoOp, NoTx
<1>2. mem = cat /\ Same(tx.file)
    BY <1>1 DEF Core, StepOK, IdleOK, RecoverOK
<1>3. \A f \in Files : Same(f)
    BY <1>1, <1>2 DEF Core, FilesOK
<1>4. FilesOK'
    <2>1. nextOp <= nextOp'
        BY <1>1, UploadAssumption DEF TypeOK
    <2> QED BY <1>1, <1>3, <2>1, FilesKept DEF Core
<1>5. MarkerOK'
    BY <1>1 DEF MarkerOK
<1>6. StepOK'
    BY <1>1, <1>2 DEF StepOK, UploadOK, ReplaceOK, RecoverOK, IdleOK
<1> QED BY <1>4, <1>5, <1>6 DEF Core

(***************************************************************************)
(* The readers and the cache.                                              *)
(***************************************************************************)
\* The entry that was used least recently is one of them.
LEMMA LeastRecentFacts ==
    ASSUME NEW c \in SUBSET Entries, c # {}
    PROVE  LeastRecent(c) \in c
<1> DEFINE T == {e.last_access : e \in c}
<1>1. T \subseteq Nat /\ T # {}
    BY DEF Entries
<1>2. PICK x \in T : \A y \in T : ~(<<y, x>> \in OpToRel(<, Nat))
    BY <1>1, WFMin, NatLessThanWellFounded, Zenon
<1>3. \A y \in T : x <= y
    <2> SUFFICES ASSUME NEW y \in T PROVE x <= y
        OBVIOUS
    <2>1. x \in Nat /\ y \in Nat /\ <<y, x>> \in Nat \X Nat
        BY <1>1
    <2>2. ~(y < x)
        BY <1>2, <2>1, Zenon DEF OpToRel
    <2> QED BY <2>1, <2>2
<1>4. PICK e \in c : e.last_access = x
    BY <1>2
<1>5. \A d \in c : e.last_access <= d.last_access
    BY <1>3, <1>4
<1> QED BY <1>4, <1>5 DEF LeastRecent

Bounded(c) == IsFiniteSet(c) /\ Cardinality(c) <= MaxEntries

\* A lookup, an insertion and an invalidation keep the cache within its limit.
LEMMA TouchBounded ==
    ASSUME TypeOK, Bounded(cache), NEW key, Touch(key)
    PROVE  Bounded(cache')
<1> DEFINE g == [e \in cache |-> IF e.key = key THEN [e EXCEPT !.last_access = access_counter'] ELSE e]
<1>1. cache' = (cache \ EntriesOf(key)) \cup {[e EXCEPT !.last_access = access_counter'] : e \in EntriesOf(key)}
    BY DEF Touch
<1>2. \A e \in cache : g[e] \in cache'
    BY <1>1 DEF EntriesOf
<1>3. \A d \in cache' : \E e \in cache : g[e] = d
    BY <1>1 DEF EntriesOf
<1>4. g \in Surjection(cache, cache')
    BY <1>2, <1>3 DEF Surjection
<1> HIDE DEF g
<1>5. IsFiniteSet(cache') /\ Cardinality(cache') <= Cardinality(cache)
    BY <1>4, FS_Surjection DEF Bounded
<1>6. Cardinality(cache) \in Nat /\ Cardinality(cache') \in Nat /\ MaxEntries \in Nat
    BY <1>5, FS_CardinalityType, CacheAssumption DEF Bounded
<1> QED BY <1>5, <1>6 DEF Bounded

LEMMA InsertBounded ==
    ASSUME TypeOK, Bounded(cache), NEW g, NEW key \in Files \X (0..(MaxOps + 1)) \X Idx, NEW data \in Held,
           Insert(g, key, data)
    PROVE  Bounded(cache')
<1>1. CASE cache' = cache
    BY <1>1
<1>2. CASE cache' = WithEntry(key, data)
    <2> DEFINE new == [key |-> key, data |-> data, last_access |-> access_counter + 1]
               rest == cache \ EntriesOf(key)
               c == rest \cup {new}
    <2>1. MaxEntries \in Nat /\ access_counter \in Nat /\ cache \subseteq Entries
        BY CacheAssumption DEF TypeOK
    <2>2. new \in Entries /\ rest \in SUBSET cache
        BY <2>1 DEF Entries
    <2>3. IsFiniteSet(rest) /\ Cardinality(rest) <= Cardinality(cache)
        BY <2>2, FS_Subset DEF Bounded
    <2>4. Cardinality(rest) \in Nat /\ Cardinality(cache) \in Nat
        BY <2>3, FS_CardinalityType DEF Bounded
    <2>5. c \subseteq Entries
        BY <2>1, <2>2
    <2>6. cache' = Evicted(c)
        BY <1>2 DEF WithEntry
    <2> HIDE DEF new, rest
    <2>7. IsFiniteSet(c) /\ (Cardinality(c) = Cardinality(rest) \/ Cardinality(c) = Cardinality(rest) + 1)
        BY <2>3, FS_AddElement
    <2>8. c # {}
        OBVIOUS
    <2> HIDE DEF c
    <2>9. Cardinality(c) \in Nat /\ Cardinality(c) <= MaxEntries + 1
        BY <2>1, <2>3, <2>4, <2>7 DEF Bounded
    <2>10. CASE Cardinality(c) > MaxEntries
        <3>1. cache' = c \ {LeastRecent(c)} /\ LeastRecent(c) \in c
            BY <2>5, <2>6, <2>8, <2>10, LeastRecentFacts DEF Evicted
        <3>2. IsFiniteSet(c \ {LeastRecent(c)}) /\ Cardinality(c \ {LeastRecent(c)}) = Cardinality(c) - 1
            BY <2>7, <3>1, FS_RemoveElement
        <3> QED BY <2>1, <2>9, <3>1, <3>2 DEF Bounded
    <2>11. CASE ~(Cardinality(c) > MaxEntries)
        <3>1. cache' = c
            BY <2>6, <2>11 DEF Evicted
        <3> QED BY <2>1, <2>7, <2>9, <2>11, <3>1 DEF Bounded
    <2> QED BY <2>10, <2>11
<1> QED BY <1>1, <1>2 DEF Insert

LEMMA SubsetBounded ==
    ASSUME Bounded(cache), cache' \subseteq cache
    PROVE  Bounded(cache')
<1>1. IsFiniteSet(cache') /\ Cardinality(cache') <= Cardinality(cache)
    BY FS_Subset DEF Bounded
<1>2. Cardinality(cache) \in Nat /\ Cardinality(cache') \in Nat /\ MaxEntries \in Nat
    BY <1>1, FS_CardinalityType, CacheAssumption DEF Bounded
<1> QED BY <1>1, <1>2 DEF Bounded

\* A command without an invalidation.
LEMMA ReaderKept ==
    ASSUME ReaderOK, UNCHANGED readVars, UNCHANGED cacheVars, open => open', Invalidated' => Invalidated
    PROVE  ReaderOK'
BY DEF ReaderOK, readVars, cacheVars, Live

\* A command with one.
LEMMA ReaderInvalidated ==
    ASSUME TypeOK, ReaderOK, UNCHANGED readVars, NEW f, InvalidateNode(f), open => open'
    PROVE  ReaderOK'
<1>1. generation \in Nat /\ generation' = generation + 1 /\ cache' \subseteq cache
    BY DEF TypeOK, InvalidateNode
<1>2. Bounded(cache')
    BY <1>1, SubsetBounded DEF Bounded, ReaderOK
<1>3. Live' => Live /\ reader.gen \in Nat
    BY Kinds DEF Live, readVars, Readers
<1> QED BY <1>1, <1>2, <1>3 DEF ReaderOK, Bounded, readVars

\* The readers themselves.
LEMMA ReadersReaderOK ==
    ASSUME TypeOK, ReaderOK, (\E f \in Files : OpenReader(f)) \/ ReaderGet \/ ReaderRead \/ ReaderInsert
    PROVE  ReaderOK'
<1>1. open' = open /\ op' = op /\ generation' = generation
    BY DEF OpenReader, ReaderGet, ReaderRead, ReaderInsert, cacheVars, Touch, Insert
<1>2. Invalidated' <=> Invalidated
    BY <1>1 DEF Invalidated
<1>3. ASSUME NEW f \in Files, OpenReader(f) PROVE ReaderOK'
    <2>1. /\ open /\ op.kind = "none" /\ reader'.gen = generation /\ UNCHANGED cacheVars
        BY <1>3 DEF OpenReader, Ready
    <2>2. ~Invalidated /\ generation \in Nat
        BY <2>1 DEF Invalidated, TypeOK
    <2> QED BY <1>1, <1>2, <2>1, <2>2 DEF ReaderOK, Live, cacheVars
<1>4. ASSUME ReaderGet \/ ReaderRead \/ ReaderInsert PROVE ReaderOK'
    <2>1. reader \in Readers
        BY <1>4, Kinds DEF ReaderGet, ReaderRead, ReaderInsert
    <2>2. Live' => Live /\ reader'.gen = reader.gen
        <3>1. reader' = NoReader \/ (reader'.gen = reader.gen /\ reader'.cached = reader.cached)
            BY <1>4, <2>1 DEF ReaderGet, ReaderRead, ReaderInsert, NextChunk, Readers
        <3>2. reader # NoReader
            BY <2>1 DEF Readers, NoReader
        <3> QED BY <3>1, <3>2 DEF Live
    <2>3. /\ ReaderKey \in Files \X (0..(MaxOps + 1)) \X Idx /\ reader.data \in Held
        BY <2>1 DEF Readers, ReaderKey, Key
    <2>4. Bounded(cache')
        BY <1>4, <2>3, TouchBounded, InsertBounded DEF ReaderGet, ReaderRead, ReaderInsert, cacheVars, ReaderOK,
           Bounded
    <2>5. ~open => cache' = {}
        <3>1. CASE ~open
            <4>1. ~reader.cached /\ cache = {}
                BY <2>1, <3>1 DEF ReaderOK, Live, Readers, NoReader
            <4> QED BY <1>4, <4>1 DEF ReaderGet, ReaderRead, ReaderInsert, cacheVars
        <3> QED BY <3>1
    <2> QED BY <1>1, <1>2, <2>2, <2>4, <2>5 DEF ReaderOK, Bounded
<1> QED BY <1>3, <1>4

\* The upload may have put chunks of its own in the place of the catalog's.
Placing == op.kind = "upload" /\ op.pc \in {"canon", "finalize"}

\* A command without an invalidation leaves what is cached true.
LEMMA CacheKept ==
    ASSUME TypeOK, ReaderOK, CacheOK, UNCHANGED readVars, UNCHANGED cacheVars,
           Invalidated' => Invalidated /\ Changing' = Changing,
           \A f \in Files : ~(Invalidated /\ f = Changing) => mem'[f].rev = mem[f].rev,
           \A f \in Files, i \in Idx : \A d :
              ~(Invalidated /\ f = Changing) /\ True(f, i, d) => True(f, i, d)'
    PROVE  CacheOK'
<1>1. \A e \in cache : e.key[1] \in Files /\ e.key[3] \in Idx
    BY DEF TypeOK, Entries
<1>2. Live /\ reader.gen = generation => ~Invalidated /\ reader.file \in Files /\ reader.idx \in Idx
    <2>1. Live => reader \in Readers
        BY Kinds DEF Live
    <2>2. Live => reader.gen \in Nat /\ reader.file \in Files /\ reader.idx \in Idx
        BY <2>1 DEF Readers
    <2> QED BY <2>2 DEF ReaderOK, TypeOK
<1>3. UNCHANGED <<cache, generation, reader>> /\ Live' = Live
    BY DEF readVars, cacheVars, Live
<1>4. Invalidated' => \A e \in cache' : e.key[1] # Changing'
    BY <1>3 DEF CacheOK
<1>5. ASSUME NEW e \in cache', e.key[2] = mem'[e.key[1]].rev
      PROVE  True(e.key[1], e.key[3], e.data)'
    <2>1. e \in cache /\ e.key[1] \in Files /\ e.key[3] \in Idx
        BY <1>1, <1>3
    <2>2. ~(Invalidated /\ e.key[1] = Changing)
        BY <2>1 DEF CacheOK
    <2>3. True(e.key[1], e.key[3], e.data)
        BY <1>5, <2>1, <2>2 DEF CacheOK
    <2> QED BY <2>1, <2>2, <2>3
<1>6. ASSUME Live', reader'.pc = "insert", reader'.gen = generation', reader'.rev = mem'[reader'.file].rev
      PROVE  True(reader.file, reader.idx, reader.data)'
    <2>1. /\ Live /\ reader.pc = "insert" /\ reader.gen = generation /\ reader.rev = mem'[reader.file].rev
        BY <1>3, <1>6
    <2>2. ~Invalidated /\ reader.file \in Files /\ reader.idx \in Idx
        BY <1>2, <2>1
    <2>3. True(reader.file, reader.idx, reader.data)
        BY <2>1, <2>2 DEF CacheOK
    <2> PICK f, i, d : f = reader.file /\ i = reader.idx /\ d = reader.data
        OBVIOUS
    <2>4. True(f, i, d)'
        BY <2>2, <2>3
    <2> QED BY <1>3, <2>4 DEF True
<1> QED BY <1>4, <1>5, <1>6 DEF CacheOK

LEMMA CacheQuiet ==
    ASSUME TypeOK, ReaderOK, CacheOK, UNCHANGED readVars, UNCHANGED cacheVars, ~Placing,
           Invalidated' => Invalidated /\ Changing' = Changing,
           \A f \in Files : ~(Invalidated /\ f = Changing) => mem'[f] = mem[f]
    PROVE  CacheOK'
<1>1. \A f \in Files, i \in Idx : \A d :
         ~(Invalidated /\ f = Changing) /\ True(f, i, d) => True(f, i, d)'
    BY DEF True, Placing
<1> QED BY <1>1, CacheKept

\* A command that invalidates the file it changes.
LEMMA CacheInvalidated ==
    ASSUME TypeOK, ReaderOK, CacheOK, UNCHANGED readVars, NEW f \in Files, InvalidateNode(f),
           Placing => op.tx.file = f, Invalidated' => Changing' = f,
           \A g \in Files \ {f} : mem'[g] = mem[g]
    PROVE  CacheOK'
<1>1. generation \in Nat /\ generation' = generation + 1 /\ cache' = {e \in cache : e.key[1] # f}
    BY DEF TypeOK, InvalidateNode
<1>2. ~(Live' /\ reader'.gen = generation')
    <2>1. Live' => Live /\ reader \in Readers
        BY Kinds DEF Live, readVars
    <2>2. Live' => reader.gen \in Nat /\ reader.gen <= generation /\ reader' = reader
        BY <2>1 DEF Readers, ReaderOK, readVars
    <2> QED BY <1>1, <2>2
<1>3. ASSUME NEW e \in cache', e.key[2] = mem'[e.key[1]].rev
      PROVE  True(e.key[1], e.key[3], e.data)'
    <2>1. e \in cache /\ e.key[1] \in Files \ {f}
        BY <1>1 DEF TypeOK, Entries
    <2>2. True(e.key[1], e.key[3], e.data)
        BY <1>3, <2>1 DEF CacheOK
    <2>3. e.data = mem[e.key[1]].content[e.key[3]]
        BY <2>1, <2>2 DEF True, Placing
    <2> QED BY <2>1, <2>3 DEF True
<1> QED BY <1>1, <1>2, <1>3 DEF CacheOK

\* A chunk that a live reader finds on disk is true, unless the file was invalidated
\* after the reader was opened.
LEMMA ReadIsTrue ==
    ASSUME TypeOK, Core, ReaderOK, Live, reader.gen = generation
    PROVE  True(reader.file, reader.idx, canon[reader.file][reader.idx])
<1> PICK f, i : f = reader.file /\ i = reader.idx
    OBVIOUS
<1>1. reader \in Readers /\ f \in Files /\ i \in Idx /\ reader.gen \in Nat
    BY Kinds DEF Live, Readers
<1>2. open /\ ~Invalidated
    BY <1>1 DEF ReaderOK, TypeOK
<1>3. op.kind \in {"none", "upload"}
    BY <1>2, Kinds DEF Invalidated, TypeOK
<1>4. mem = cat
    BY <1>2, <1>3 DEF Core, StepOK, IdleOK, UploadOK, Invalidated
<1>5. ASSUME Same(f) PROVE True(f, i, canon[f][i])
    BY <1>4, <1>5 DEF Same, Old, True
<1>6. CASE op.kind = "none"
    <2>1. Same(f)
        BY <1>1, <1>2, <1>6 DEF Core, FilesOK, StepOK, IdleOK
    <2> QED BY <1>5, <2>1
<1>7. CASE op.kind = "upload"
    <2>1. op.tx \in Uploads /\ op.pc \in Pcs
        BY <1>7, OpFields
    <2>2. CASE op.pc \in {"temp", "stage", "backup", "commit"}
        <3>1. Same(f)
            BY <1>1, <1>7, <2>2 DEF Core, FilesOK, StepOK, UploadOK
        <3> QED BY <1>5, <3>1
    <2>3. CASE op.pc \in {"abort", "drop"}
        <3>1. Same(f)
            BY <1>1, <1>7, <2>3 DEF Core, StepOK, UploadOK
        <3> QED BY <1>5, <3>1
    <2>4. CASE op.pc \in {"canon", "finalize"}
        <3>1. tx = op.tx /\ Undoable(op.tx)
            BY <1>7, <2>4 DEF Core, StepOK, UploadOK
        <3>2. CASE op.tx.file # f
            <4>1. Same(f)
                BY <1>1, <1>7, <3>1, <3>2 DEF Core, FilesOK
            <4> QED BY <1>5, <4>1
        <3>3. CASE op.tx.file = f /\ i \in op.tx.temps
            <4>1. canon[f][i] \in {Old(f)[i], op.tx.op}
                BY <1>7, <2>4, <3>3 DEF Core, StepOK, UploadOK, Placed
            <4> QED BY <1>4, <1>7, <2>4, <3>3, <4>1 DEF True, Old
        <3>4. CASE op.tx.file = f /\ i \notin op.tx.temps
            <4>1. canon[f][i] = Old(f)[i]
                BY <1>1, <3>1, <3>4 DEF Undoable
            <4> QED BY <1>4, <4>1 DEF True, Old
        <3> QED BY <3>2, <3>3, <3>4
    <2> QED BY <1>2, <1>7, <2>1, <2>2, <2>3, <2>4 DEF Invalidated, Pcs
<1> QED BY <1>3, <1>6, <1>7

LEMMA ReadersCache ==
    ASSUME TypeOK, Core, ReaderOK, CacheOK,
           (\E f \in Files : OpenReader(f)) \/ ReaderGet \/ ReaderRead \/ ReaderInsert
    PROVE  CacheOK'
<1>1. UNCHANGED <<canon, mem, op, generation>>
    BY DEF OpenReader, ReaderGet, ReaderRead, ReaderInsert, cacheVars, Touch, Insert, diskVars, catVars
<1>2. /\ Invalidated' = Invalidated /\ Changing' = Changing
      /\ \A f, i, d : True(f, i, d)' = True(f, i, d)
    BY <1>1 DEF Invalidated, Changing, True
<1>3. ASSUME cache' = cache, reader'.pc # "insert" PROVE CacheOK'
    BY <1>1, <1>2, <1>3 DEF CacheOK, True
<1>4. CASE \E f \in Files : OpenReader(f)
    BY <1>3, <1>4 DEF OpenReader, cacheVars
<1>5. CASE ReaderGet
    <2>1. reader \in Readers
        BY <1>5, Kinds DEF ReaderGet
    <2>2. reader'.pc # "insert"
        BY <1>5, <2>1 DEF ReaderGet, NextChunk, NoReader, Readers
    <2>3. \A e \in cache' : \E d \in cache : e.key = d.key /\ e.data = d.data
        <3>1. \A d \in Entries : [d EXCEPT !.last_access = access_counter'].key = d.key
                                 /\ [d EXCEPT !.last_access = access_counter'].data = d.data
            BY DEF Entries
        <3>2. cache \subseteq Entries
            BY DEF TypeOK
        <3>3. CASE cache' = cache
            BY <3>3
        <3>4. CASE Touch(ReaderKey)
            <4>1. \A e \in cache' : e \in cache \/ \E d \in cache : e = [d EXCEPT !.last_access = access_counter']
                BY <3>4 DEF Touch, EntriesOf
            <4> QED BY <3>1, <3>2, <4>1
        <3> QED BY <1>5, <3>3, <3>4 DEF ReaderGet, cacheVars
    <2> QED BY <1>1, <1>2, <2>2, <2>3 DEF CacheOK, True
<1>6. CASE ReaderRead
    <2>1. reader \in Readers
        BY <1>6, Kinds DEF ReaderRead
    <2>2. cache' = cache
        BY <1>6 DEF ReaderRead, cacheVars
    <2>3. CASE reader' = NoReader
        BY <1>3, <2>2, <2>3 DEF NoReader
    <2>4. CASE reader' = [reader EXCEPT !.pc = "insert", !.data = canon[reader.file][reader.idx]]
        <3>1. /\ reader'.gen = reader.gen /\ reader'.file = reader.file /\ reader'.idx = reader.idx
              /\ reader'.data = canon[reader.file][reader.idx] /\ reader'.cached = reader.cached
            BY <2>1, <2>4 DEF Readers
        <3>2. Live' => Live
            BY <2>1, <3>1 DEF Live, Readers, NoReader
        <3>3. ASSUME Live', reader'.gen = generation' PROVE True(reader.file, reader.idx, reader.data)'
            <4>1. True(reader.file, reader.idx, canon[reader.file][reader.idx])
                BY <1>1, <3>1, <3>2, <3>3, ReadIsTrue
            <4> QED BY <1>1, <3>1, <4>1 DEF True
        <3> QED BY <1>1, <1>2, <2>2, <3>3 DEF CacheOK, True
    <2> QED BY <1>6, <2>3, <2>4 DEF ReaderRead
<1>7. CASE ReaderInsert
    <2>1. reader \in Readers /\ reader # NoReader
        BY <1>7, Kinds DEF ReaderInsert, NoReader
    <2>2. reader'.pc # "insert"
        BY <1>7, <2>1 DEF ReaderInsert, NextChunk, NoReader, Readers
    <2>3. CASE cache' = cache
        BY <1>3, <2>2, <2>3
    <2>4. CASE cache' # cache
        <3>1. Live /\ reader.gen = generation /\ cache' = WithEntry(ReaderKey, reader.data)
            BY <1>7, <2>1, <2>4 DEF ReaderInsert, Insert, cacheVars, Live
        <3>2. ~Invalidated
            BY <2>1, <3>1 DEF ReaderOK, Readers, TypeOK
        <3> DEFINE new == [key |-> ReaderKey, data |-> reader.data, last_access |-> access_counter + 1]
        <3>3. \A e \in cache' : e \in cache \/ e = new
            BY <3>1 DEF WithEntry, Evicted
        <3>4. new.key[1] = reader.file /\ new.key[2] = reader.rev /\ new.key[3] = reader.idx /\ new.data = reader.data
            BY DEF ReaderKey, Key
        <3> HIDE DEF new
        <3>5. \A e \in cache' : e.key[2] = mem[e.key[1]].rev => True(e.key[1], e.key[3], e.data)
            <4> SUFFICES ASSUME NEW e \in cache', e.key[2] = mem[e.key[1]].rev
                         PROVE  True(e.key[1], e.key[3], e.data)
                OBVIOUS
            <4>1. CASE e \in cache
                BY <4>1 DEF CacheOK
            <4>2. CASE e = new
                <5>1. True(reader.file, reader.idx, reader.data)
                    BY <1>7, <3>1, <3>4, <4>2 DEF CacheOK, ReaderInsert
                <5> QED BY <3>4, <4>2, <5>1
            <4> QED BY <3>3, <4>1, <4>2
        <3> QED BY <1>1, <1>2, <2>2, <3>2, <3>5 DEF CacheOK, True
    <2> QED BY <2>3, <2>4
<1> QED BY <1>4, <1>5, <1>6, <1>7

\* Where a part of an upload, and where a recovery, goes next.
LEMMA PartNext ==
    ASSUME TypeOK, WriteTemp \/ StageUpload \/ BackupUpload \/ CommitMarker \/ WriteCanon
    PROVE  /\ op'.kind # "replace"
           /\ op'.pc \in {"stage", "backup", "commit", "canon", "finalize", "abort"} \/ op' = NoOp
<1>1. op \in UploadOps /\ op.kind = "upload" /\ NoOp.kind = "none"
    BY OpFields DEF WriteTemp, StageUpload, BackupUpload, CommitMarker, WriteCanon, NoOp
<1>2. ASSUME WriteFails PROVE op'.kind = "upload" /\ op'.pc = "abort"
    BY <1>1, <1>2 DEF WriteFails, Go, UploadOps
<1>3. CASE WriteTemp
    BY <1>1, <1>2, <1>3 DEF WriteTemp, UploadOps, Uploads
<1>4. CASE StageUpload
    <2>1. \A u : [op EXCEPT !.pc = "backup", !.tx = u].kind = "upload"
                 /\ [op EXCEPT !.pc = "backup", !.tx = u].pc = "backup"
        BY <1>1 DEF UploadOps
    <2>2. WriteFails \/ op' = NoOp \/ \E u : op' = [op EXCEPT !.pc = "backup", !.tx = u]
        BY <1>4 DEF StageUpload
    <2> QED BY <1>1, <1>2, <2>1, <2>2
<1>5. CASE BackupUpload
    BY <1>1, <1>2, <1>5 DEF BackupUpload, UploadOps, Uploads
<1>6. CASE CommitMarker
    BY <1>1, <1>2, <1>6 DEF CommitMarker, Go, UploadOps
<1>7. CASE WriteCanon
    BY <1>1, <1>7 DEF WriteCanon, Go, UploadOps
<1> QED BY <1>3, <1>4, <1>5, <1>6, <1>7

LEMMA RecoverNext ==
    ASSUME TypeOK, Unlock \/ RecoverChunks \/ RecoverClean \/ RecoverDrop
    PROVE  op.kind \in {"none", "recover"} /\ op'.kind \in {"none", "recover"}
<1>1. NoOp.kind = "none"
    BY DEF NoOp
<1>2. CASE Unlock
    BY <1>1, <1>2 DEF Unlock
<1>3. CASE RecoverChunks
    <2>1. op \in RecoverOps /\ op.kind = "recover"
        BY <1>3, Kinds DEF RecoverChunks
    <2>2. [op EXCEPT !.pc = "clean"].kind = "recover" /\ [op EXCEPT !.pc = "clean", !.back = TRUE].kind = "recover"
        BY <2>1 DEF RecoverOps
    <2> QED BY <1>1, <1>3, <2>1, <2>2 DEF RecoverChunks, Go
<1>4. CASE RecoverClean
    BY <1>4, Kinds DEF RecoverClean, Go, RecoverOps
<1>5. CASE RecoverDrop
    BY <1>1, <1>5 DEF RecoverDrop
<1> QED BY <1>2, <1>3, <1>4, <1>5

\* The commands next to the readers.
LEMMA CommandsReaderOK ==
    ASSUME TypeOK, ReaderOK,
           \/ \E f \in Files : \E total \in Totals(f) : BeginUpload(f, total)
           \/ Upload \/ (\E n \in Idx : BeginReplace(n)) \/ ReplaceChunk \/ EndReplace
           \/ Lock \/ Crash \/ Unlock \/ RecoverChunks \/ RecoverClean \/ RecoverDrop
    PROVE  ReaderOK'
<1>1. ASSUME NEW f \in Files, NEW total \in Totals(f), BeginUpload(f, total) PROVE ReaderOK'
    <2>1. ~Invalidated' /\ UNCHANGED <<readVars, cacheVars, open>>
        BY <1>1 DEF BeginUpload, Invalidated
    <2> QED BY <2>1, ReaderKept
<1>2. CASE ContinueUpload \/ AbortUpload
    <2>1. ~Invalidated' /\ UNCHANGED <<readVars, cacheVars, open>>
        BY <1>2 DEF ContinueUpload, AbortUpload, Invalidated
    <2> QED BY <2>1, ReaderKept
<1>3. CASE WriteTemp \/ StageUpload \/ BackupUpload \/ CommitMarker \/ WriteCanon
    <2>1. op.kind = "upload" /\ op \in UploadOps /\ UNCHANGED <<readVars, cacheVars, open>>
        BY <1>3, OpFields DEF WriteTemp, StageUpload, BackupUpload, CommitMarker, WriteCanon
    <2>2. op'.pc \in {"stage", "backup", "commit", "canon", "finalize", "abort"} \/ op' = NoOp
        BY <1>3, PartNext
    <2>3. op'.kind # "replace"
        BY <1>3, PartNext
    <2>4. ~Invalidated'
        BY <2>2, <2>3 DEF Invalidated, NoOp
    <2> QED BY <2>1, <2>4, ReaderKept
<1>4. CASE FinalizeUpload
    BY <1>4, ReaderInvalidated DEF FinalizeUpload
<1>5. CASE SaveUpload \/ CleanUpload \/ UndoUpload \/ CleanAborted \/ DropUpload
    <2>1. op.kind = "upload" /\ op \in UploadOps /\ UNCHANGED <<readVars, cacheVars, open>>
        BY <1>5, OpFields DEF SaveUpload, CleanUpload, UndoUpload, CleanAborted, DropUpload
    <2>2. op'.kind # "replace"
        BY <1>5, <2>1 DEF SaveUpload, CleanUpload, UndoUpload, CleanAborted, DropUpload, Go, UploadOps, NoOp
    <2>3. op.pc \in {"save", "undo", "undone"} \/ op'.pc \in {"drop"} \/ op' = NoOp
        BY <1>5, <2>1 DEF SaveUpload, CleanUpload, UndoUpload, CleanAborted, DropUpload, Go, UploadOps
    <2>4. Invalidated' => Invalidated
        BY <2>1, <2>2, <2>3 DEF Invalidated, NoOp
    <2> QED BY <2>1, <2>4, ReaderKept
<1>6. ASSUME NEW n \in Idx, BeginReplace(n) PROVE ReaderOK'
    BY <1>6, ReaderInvalidated DEF BeginReplace
<1>7. CASE ReplaceChunk
    <2>1. Invalidated /\ UNCHANGED <<readVars, cacheVars, open>>
        BY <1>7 DEF ReplaceChunk, Invalidated
    <2> QED BY <2>1, ReaderKept
<1>8. CASE EndReplace
    <2>1. Invalidated /\ UNCHANGED <<readVars, open>> /\ (UNCHANGED cacheVars \/ InvalidateNode(1))
        BY <1>8 DEF EndReplace, Invalidated
    <2> QED BY <2>1, ReaderKept, ReaderInvalidated
<1>9. CASE Lock \/ Crash
    <2>1. cache' = {} /\ ~Live'
        <3>1. CASE Lock
            <4>1. reader # NoReader => reader \in Readers
                BY Kinds
            <4>2. Detached = NoReader \/ ~Detached.cached
                BY <4>1 DEF Detached, Readers
            <4> QED BY <3>1, <4>2 DEF Lock, FreshCache, Live
        <3>2. CASE Crash
            BY <3>2 DEF Crash, FreshCache, Live
        <3> QED BY <1>9, <3>1, <3>2
    <2>2. IsFiniteSet({}) /\ Cardinality({}) = 0 /\ 0 <= MaxEntries
        BY FS_EmptySet, CacheAssumption
    <2> QED BY <2>1, <2>2 DEF ReaderOK
<1>10. CASE Unlock \/ RecoverChunks \/ RecoverClean \/ RecoverDrop
    <2>1. /\ UNCHANGED <<readVars, cacheVars>> /\ (open => open')
        BY <1>10 DEF Unlock, RecoverChunks, RecoverClean, RecoverDrop
    <2>3. op'.kind \in {"none", "recover"}
        BY <1>10, RecoverNext
    <2>4. ~Invalidated'
        BY <2>3 DEF Invalidated
    <2> QED BY <2>1, <2>4, ReaderKept
<1> QED BY <1>1, <1>2, <1>3, <1>4, <1>5, <1>6, <1>7, <1>8, <1>9, <1>10 DEF Upload

LEMMA CommandsCache ==
    ASSUME TypeOK, Core, ReaderOK, CacheOK, faults' = {},
           \/ \E f \in Files : \E total \in Totals(f) : BeginUpload(f, total)
           \/ Upload \/ (\E n \in Idx : BeginReplace(n)) \/ ReplaceChunk \/ EndReplace
           \/ Lock \/ Crash \/ Unlock \/ RecoverChunks \/ RecoverClean \/ RecoverDrop
    PROVE  CacheOK'
<1>1. ASSUME NEW f \in Files, NEW total \in Totals(f), BeginUpload(f, total) PROVE CacheOK'
    <2>1. ~Invalidated' /\ ~Placing /\ UNCHANGED <<readVars, cacheVars, mem>>
        BY <1>1 DEF BeginUpload, Invalidated, Placing, Ready, catVars
    <2> QED BY <2>1, CacheQuiet
<1>2. CASE ContinueUpload \/ AbortUpload
    <2>1. ~Invalidated' /\ ~Placing /\ UNCHANGED <<readVars, cacheVars, mem>>
        BY <1>2 DEF ContinueUpload, AbortUpload, Invalidated, Placing, Ready, catVars
    <2> QED BY <2>1, CacheQuiet
<1>3. CASE WriteTemp \/ StageUpload \/ BackupUpload \/ CommitMarker
    <2>1. op.kind = "upload" /\ op \in UploadOps /\ UNCHANGED <<readVars, cacheVars, mem>> /\ ~Placing
        BY <1>3, OpFields DEF WriteTemp, StageUpload, BackupUpload, CommitMarker, Placing, catVars
    <2>2. op'.pc \in {"stage", "backup", "commit", "canon", "finalize", "abort"} \/ op' = NoOp
        BY <1>3, PartNext
    <2>3. op'.kind # "replace"
        BY <1>3, PartNext
    <2>4. ~Invalidated'
        BY <2>2, <2>3 DEF Invalidated, NoOp
    <2> QED BY <2>1, <2>4, CacheQuiet
<1>4. CASE WriteCanon
    <2>1. op.kind = "upload" /\ op.pc = "canon" /\ op \in UploadOps /\ UNCHANGED <<readVars, cacheVars, mem>>
        BY <1>4, OpFields DEF WriteCanon, catVars
    <2>2. /\ op.tx.file \in Files /\ op.tx.temps \subseteq Idx /\ canon \in [Files -> Contents]
          /\ temp[op.tx.file] \in Contents /\ Written(op.tx)
        BY <2>1, OpFields, UploadFields DEF TypeOK, Contents, Core, StepOK, UploadOK
    <2>3. NotYet \subseteq op.tx.temps /\ NotYet \subseteq Idx
        BY <2>2 DEF NotYet
    <2>4. /\ op'.kind = "upload" /\ op'.tx = op.tx /\ op'.pc \in {"canon", "finalize", "abort"}
          /\ op'.pc = "abort" => NotYet = op.tx.temps
        <3>1. "batch" \notin faults'
            OBVIOUS
        <3> QED BY <1>4, <2>1, <3>1 DEF WriteCanon, Go, UploadOps
    <2>5. op'.pc # "abort" =>
             \A i \in op.tx.temps : canon[op.tx.file][i] = op.tx.op => canon'[op.tx.file][i] = op.tx.op
        <3>1. CASE NotYet # {} /\ canon' = [canon EXCEPT ![op.tx.file] = Over(@, {Least(NotYet)}, temp[op.tx.file])]
            <4>1. canon'[op.tx.file] = Over(canon[op.tx.file], {Least(NotYet)}, temp[op.tx.file])
                BY <2>2, <3>1
            <4>2. \A i \in Idx : canon'[op.tx.file][i] =
                     IF i \in {Least(NotYet)} THEN temp[op.tx.file][i] ELSE canon[op.tx.file][i]
                BY <4>1, OverFacts
            <4> QED BY <2>2, <4>2 DEF Written
        <3>2. CASE canon' = canon
            BY <3>2
        <3> QED BY <1>4, <2>1, <3>1, <3>2 DEF WriteCanon, Go, UploadOps
    <2>6. \A f \in Files, i \in Idx : \A d : True(f, i, d) => True(f, i, d)'
        <3> SUFFICES ASSUME NEW f \in Files, NEW i \in Idx, NEW d, True(f, i, d) PROVE True(f, i, d)'
            OBVIOUS
        <3>1. CASE d = mem[f].content[i]
            BY <2>1, <3>1 DEF True
        <3>2. CASE d # mem[f].content[i]
            <4>1. op.tx.file = f /\ i \in op.tx.temps /\ d = op.tx.op /\ canon[f][i] = op.tx.op
                BY <3>2 DEF True
            <4>2. i \notin NotYet
                BY <4>1 DEF NotYet
            <4>3. op'.pc \in {"canon", "finalize"} /\ canon'[f][i] = op.tx.op
                BY <2>4, <2>5, <4>1, <4>2
            <4> QED BY <2>4, <4>1, <4>3 DEF True
        <3> QED BY <3>1, <3>2
    <2>7. ~Invalidated'
        BY <2>4 DEF Invalidated
    <2> QED BY <2>1, <2>6, <2>7, CacheKept
<1>5. CASE FinalizeUpload
    <2>1. op.kind = "upload" /\ op \in UploadOps /\ op.tx.file \in Files /\ mem \in [Files -> Versions]
        BY <1>5, OpFields DEF FinalizeUpload, TypeOK
    <2>2. op'.kind = "upload" /\ op'.tx = op.tx /\ InvalidateNode(op.tx.file) /\ UNCHANGED readVars
        BY <1>5, <2>1 DEF FinalizeUpload, Go, UploadOps
    <2>3. \A g \in Files \ {op.tx.file} : mem'[g] = mem[g]
        BY <1>5, <2>1 DEF FinalizeUpload, Uploaded
    <2>4. Changing' = op.tx.file
        BY <2>2 DEF Changing
    <2> QED BY <2>1, <2>2, <2>3, <2>4, CacheInvalidated
<1>6. CASE SaveUpload \/ CleanUpload \/ UndoUpload \/ CleanAborted \/ DropUpload
    <2>1. op.kind = "upload" /\ op \in UploadOps /\ UNCHANGED <<readVars, cacheVars>> /\ ~Placing
        BY <1>6, OpFields DEF SaveUpload, CleanUpload, UndoUpload, CleanAborted, DropUpload, Placing
    <2>2. op'.kind # "replace" /\ (op' = NoOp \/ op'.tx = op.tx)
        BY <1>6, <2>1 DEF SaveUpload, CleanUpload, UndoUpload, CleanAborted, DropUpload, Go, UploadOps, NoOp
    <2>3. op.pc \in {"save", "undo", "undone"} \/ op'.pc \in {"drop"} \/ op' = NoOp
        BY <1>6, <2>1 DEF SaveUpload, CleanUpload, UndoUpload, CleanAborted, DropUpload, Go, UploadOps
    <2>4. Invalidated' => Invalidated /\ Changing' = Changing
        BY <2>1, <2>2, <2>3 DEF Invalidated, Changing, NoOp
    <2>5. \A f \in Files : ~(Invalidated /\ f = Changing) => mem'[f] = mem[f]
        <3>1. CASE SaveUpload
            <4>1. Invalidated /\ Changing = op.tx.file
                BY <2>1, <3>1 DEF SaveUpload, Invalidated, Changing
            <4>2. \A f \in Files \ {op.tx.file} : mem'[f] = mem[f]
                BY <3>1 DEF SaveUpload, TypeOK
            <4> QED BY <4>1, <4>2
        <3>2. CASE CleanUpload \/ UndoUpload \/ CleanAborted \/ DropUpload
            BY <3>2 DEF CleanUpload, UndoUpload, CleanAborted, DropUpload, catVars
        <3> QED BY <1>6, <3>1, <3>2
    <2> QED BY <2>1, <2>4, <2>5, CacheQuiet
<1>7. ASSUME NEW n \in Idx, BeginReplace(n) PROVE CacheOK'
    <2>1. /\ InvalidateNode(1) /\ 1 \in Files /\ ~Placing /\ Changing' = 1 /\ UNCHANGED <<readVars, mem>>
        BY <1>7 DEF BeginReplace, Files, Placing, Ready, Changing, catVars
    <2> QED BY <2>1, CacheInvalidated
<1>8. CASE ReplaceChunk
    <2>1. op.kind = "replace" /\ op'.kind = "replace" /\ UNCHANGED <<readVars, cacheVars, mem>>
        BY <1>8, Kinds DEF ReplaceChunk, catVars, ReplaceOps
    <2>2. Invalidated /\ ~Placing /\ Changing' = Changing
        BY <2>1 DEF Invalidated, Changing, Placing
    <2> QED BY <2>1, <2>2, CacheQuiet
<1>9. CASE EndReplace
    <2>1. op.kind = "replace" /\ op'.kind = "none" /\ UNCHANGED readVars /\ 1 \in Files
        BY <1>9 DEF EndReplace, NoOp, Files
    <2>2. ~Invalidated' /\ ~Placing
        BY <2>1 DEF Invalidated, Placing
    <2>3. CASE mem' = [mem EXCEPT ![1] = [rev |-> op.op, content |-> op.new]] /\ InvalidateNode(1)
        <3>1. \A g \in Files \ {1} : mem'[g] = mem[g]
            BY <2>3 DEF TypeOK
        <3> QED BY <2>1, <2>2, <2>3, <3>1, CacheInvalidated
    <2>4. CASE UNCHANGED <<catVars, cacheVars>>
        <3>1. mem' = mem
            BY <2>4 DEF catVars
        <3> QED BY <2>1, <2>2, <2>4, <3>1, CacheQuiet
    <2> QED BY <1>9, <2>3, <2>4 DEF EndReplace
<1>10. CASE Lock \/ Crash
    <2>1. cache' = {} /\ ~Live'
        <3>1. CASE Lock
            <4>1. reader # NoReader => reader \in Readers
                BY Kinds
            <4>2. Detached = NoReader \/ ~Detached.cached
                BY <4>1 DEF Detached, Readers
            <4> QED BY <3>1, <4>2 DEF Lock, FreshCache, Live
        <3>2. CASE Crash
            BY <3>2 DEF Crash, FreshCache, Live
        <3> QED BY <1>10, <3>1, <3>2
    <2> QED BY <2>1 DEF CacheOK
<1>11. CASE Unlock \/ RecoverChunks \/ RecoverClean \/ RecoverDrop
    <2>2. op.kind \in {"none", "recover"} /\ op'.kind \in {"none", "recover"}
        BY <1>11, RecoverNext
    <2>3. ~Invalidated' /\ ~Placing
        BY <2>2 DEF Invalidated, Placing
    <2>4. UNCHANGED <<readVars, cacheVars>> /\ mem' = mem
        BY <1>11, <2>2 DEF Unlock, RecoverChunks, RecoverClean, RecoverDrop, catVars, Core, StepOK, IdleOK
    <2> QED BY <2>3, <2>4, CacheQuiet
<1> QED BY <1>1, <1>2, <1>3, <1>4, <1>5, <1>6, <1>7, <1>8, <1>9, <1>10, <1>11 DEF Upload

(***************************************************************************)
(* The invariant.                                                          *)
(***************************************************************************)
LEMMA InitInv == Init => Inv
<1> SUFFICES ASSUME Init PROVE Inv
    OBVIOUS
<1>1. TypeOK
    BY InitTypes
<1>2. ReaderOK
    <2>1. IsFiniteSet({}) /\ Cardinality({}) = 0 /\ 0 <= MaxEntries
        BY FS_EmptySet, CacheAssumption
    <2>2. cache = {} /\ open /\ ~Live
        BY DEF Init, CacheInit, Live
    <2> QED BY <2>1, <2>2 DEF ReaderOK
<1>3. /\ tx.phase = "none" /\ op.kind = "none" /\ mem = cat /\ nextOp = 2 /\ open /\ cache = {} /\ ~Live
      /\ canon = [f \in Files |-> mem[f].content]
    BY DEF Init, NoTx, NoOp, CacheInit, Live
<1>4. FilesOK
    <2>1. Whole(All(1))
        <3>1. \A i \in Idx : All(1)[i] # Absent <=> i <= MaxChunks
            BY EmptyFacts, Basics DEF Absent
        <3> QED BY <3>1, UploadAssumption DEF Whole
    <2>2. Whole(Empty)
        <3>1. \A i \in Idx : ~(i <= 0)
            BY Basics
        <3>2. \A i \in Idx : Empty[i] # Absent <=> i <= 0
            BY <3>1, EmptyFacts
        <3> QED BY <3>2, UploadAssumption DEF Whole
    <2>3. \A f \in Files : cat[f] = [rev |-> 1, content |-> All(1)] \/ cat[f] = NoNode
        BY DEF Init
    <2>4. \A f \in Files : Whole(cat[f].content) /\ cat[f].rev < 2
        BY <2>1, <2>2, <2>3 DEF NoNode
    <2> QED BY <1>3, <2>4 DEF FilesOK, Same, Old
<1>5. MarkerOK /\ StepOK /\ CacheOK
    BY <1>3 DEF MarkerOK, StepOK, UploadOK, ReplaceOK, RecoverOK, IdleOK, CacheOK, Invalidated
<1> QED BY <1>1, <1>2, <1>4, <1>5 DEF Inv

LEMMA FaultsStay == [Next]_vars => faults \subseteq faults'
<1> SUFFICES ASSUME [Next]_vars PROVE faults \subseteq faults'
    OBVIOUS
<1>1. CASE Upload
    BY <1>1 DEF Upload, ContinueUpload, AbortUpload, WriteTemp, StageUpload, BackupUpload, CommitMarker,
       WriteCanon, FinalizeUpload, SaveUpload, CleanUpload, UndoUpload, CleanAborted, DropUpload, faultVars
<1>2. CASE UNCHANGED vars
    BY <1>2 DEF vars, faultVars
<1>3. CASE ~Upload /\ Next
    BY <1>3 DEF Next, BeginUpload, OpenReader, BeginReplace, ReplaceChunk, EndReplace, ReaderGet, ReaderRead,
       ReaderInsert, Lock, Crash, Unlock, RecoverChunks, RecoverClean, RecoverDrop, faultVars
<1> QED BY <1>1, <1>2, <1>3

LEMMA NextCore ==
    ASSUME TypeOK, TypeOK', Core, Next, faults' = {}
    PROVE  Core'
<1>1. CASE \E f \in Files : OpenReader(f)
    <2>1. UNCHANGED <<canon, temp, backup, cat, mem, tx, open, op, nextOp>>
        BY <1>1 DEF OpenReader, diskVars, catVars, boundVars
    <2> QED BY <2>1, ReaderCore
<1>2. CASE ReaderGet \/ ReaderRead \/ ReaderInsert
    <2>1. UNCHANGED <<canon, temp, backup, cat, mem, tx, open, op, nextOp>>
        BY <1>2 DEF ReaderGet, ReaderRead, ReaderInsert, diskVars, catVars, boundVars
    <2> QED BY <2>1, ReaderCore
<1>3. CASE Upload
    BY <1>3, ResumeCore, WriteTempCore, StageUploadCore, BackupUploadCore, CommitMarkerCore, WriteCanonCore,
       FinalizeUploadCore, SaveUploadCore, CleanUploadCore, UndoUploadCore, EndUploadCore DEF Upload
<1> QED BY <1>1, <1>2, <1>3, BeginUploadCore, BeginReplaceCore, ReplaceChunkCore, EndReplaceCore,
           EndSessionCore, UnlockCore, RecoverChunksCore, RecoverCleanCore, RecoverDropCore DEF Next

LEMMA NextInv == Inv /\ [Next]_vars => Inv'
<1> SUFFICES ASSUME Inv, [Next]_vars PROVE Inv'
    OBVIOUS
<1>1. TypeOK /\ ReaderOK /\ TypeOK' /\ faults \subseteq faults'
    BY NextTypes, FaultsStay DEF Inv
<1>2. CASE UNCHANGED vars
    <2>1. UNCHANGED <<canon, temp, backup, cat, mem, tx, open, op, nextOp, readVars, cacheVars, faults>>
        BY <1>2 DEF vars, diskVars, catVars, boundVars, faultVars
    <2>2. ReaderOK'
        <3>1. Invalidated' => Invalidated
            BY <2>1 DEF Invalidated
        <3> QED BY <1>1, <2>1, <3>1, ReaderKept
    <2>3. ASSUME faults = {} PROVE Core' /\ CacheOK'
        <3>1. Core /\ CacheOK
            BY <2>3 DEF Inv, Core
        <3>2. Core'
            BY <2>1, <3>1, ReaderCore
        <3>3. CacheOK'
            BY <2>1, <3>1 DEF CacheOK, Invalidated, Changing, True, Live, readVars, cacheVars
        <3> QED BY <3>2, <3>3
    <2> QED BY <1>1, <2>1, <2>2, <2>3 DEF Inv, Core
<1>3. CASE Next
    <2>1. ReaderOK'
        BY <1>1, <1>3, CommandsReaderOK, ReadersReaderOK DEF Next
    <2>2. ASSUME faults' = {} PROVE Core' /\ CacheOK'
        <3>1. Core /\ CacheOK
            BY <1>1, <2>2 DEF Inv, Core
        <3>2. Core'
            BY <1>1, <1>3, <2>2, <3>1, NextCore
        <3>3. CacheOK'
            BY <1>1, <1>3, <2>2, <3>1, CommandsCache, ReadersCache DEF Next
        <3> QED BY <3>2, <3>3
    <2> QED BY <1>1, <2>1, <2>2 DEF Inv, Core
<1> QED BY <1>2, <1>3

LEMMA UploadInvariant == Spec => []Inv
BY InitInv, NextInv, PTL DEF Spec

\* Between two commands every file has exactly the chunks the catalog describes, whatever
\* uploads were begun, continued, aborted, committed or recovered before (upload.rs,
\* file_streams/transactions).
THEOREM UploadFilesIntact == Spec => []FilesIntact
<1>1. Inv => FilesIntact
    <2> SUFFICES ASSUME Inv, Ready, faults = {} PROVE mem = cat /\ \A f \in Files : canon[f] = mem[f].content
        BY DEF FilesIntact
    <2>1. FilesOK /\ IdleOK /\ open /\ op.kind = "none"
        BY DEF Inv, StepOK, Ready
    <2>2. mem = cat /\ tx.phase # "committing"
        BY <2>1 DEF IdleOK
    <2>3. \A f \in Files : Same(f)
        BY <2>1, <2>2, AllSame
    <2> QED BY <2>2, <2>3 DEF Same, Old
<1> QED BY <1>1, UploadInvariant, PTL

\* A crash at any step of an upload, of its abort or of its recovery leaves what the
\* recovery of the next unlock needs for the catalog's version.
THEOREM UploadsRecover == Spec => []UploadRecoverable
<1>1. Inv => UploadRecoverable
    <2> SUFFICES ASSUME Inv, faults = {}, ~InRollbackTail, op.kind # "replace", NEW f \in Files
                 PROVE  Recovered(f) = cat[f].content
        BY DEF UploadRecoverable
    <2>1. TypeOK /\ FilesOK /\ MarkerOK
        BY DEF Inv
    <2>2. CASE ~(tx.phase = "committing" /\ tx.file = f)
        <3>1. Same(f)
            BY <2>1, <2>2 DEF FilesOK
        <3>2. Recovered(f) = canon[f]
            BY <2>2 DEF Recovered, NoTx
        <3> QED BY <3>1, <3>2 DEF Same, Old
    <2>3. CASE tx.phase = "committing" /\ tx.file = f
        <3>1. tx \in Uploads /\ tx # NoTx
            BY <2>1, <2>3, Kinds DEF NoTx
        <3>2. CASE Undoable(tx)
            <4>1. Recovered(f) = Restored(tx)[f]
                BY <2>3, <3>1, <3>2 DEF Recovered, Undoable
            <4> QED BY <2>1, <2>3, <3>1, <3>2, <4>1, UndoneFacts DEF Old
        <3>3. CASE Done(tx)
            <4>1. Length(cat[f].content) = tx.total /\ cat[f].rev = tx.rev
                BY <2>3, <3>1, <3>3, NewFacts DEF Done, Complete
            <4>2. Recovered(f) = Over(canon[f], (tx.uploaded + 1)..tx.oldLen, Empty)
                BY <2>3, <3>1, <4>1 DEF Recovered
            <4> QED BY <2>1, <2>3, <3>1, <3>3, <4>2, TailFacts DEF Old
        <3> QED BY <2>1, <2>3, <3>2, <3>3 DEF MarkerOK
    <2> QED BY <2>2, <2>3
<1> QED BY <1>1, UploadInvariant, PTL

\* The cache never exceeds its limit and holds, under the current revision of a file, only
\* the bytes of that revision, however readers and commands interleave
\* (decrypted_chunk_cache.rs, blob_range_reader.rs).
THEOREM UploadCacheTrue == Spec => []CacheIsTrue
<1>1. Inv => CacheIsTrue
    <2> SUFFICES ASSUME Inv PROVE CacheIsTrue
        OBVIOUS
    <2>1. Cardinality(cache) <= MaxEntries
        BY DEF Inv, ReaderOK
    <2>2. ASSUME Ready, faults = {}, NEW e \in cache, e.key[2] = mem[e.key[1]].rev
          PROVE  e.data = mem[e.key[1]].content[e.key[3]]
        <3>1. True(e.key[1], e.key[3], e.data)
            BY <2>2 DEF Inv, CacheOK
        <3> QED BY <2>2, <3>1 DEF True, Ready
    <2> QED BY <2>1, <2>2 DEF CacheIsTrue
<1> QED BY <1>1, UploadInvariant, PTL
=============================================================================
