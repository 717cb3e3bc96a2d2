---------------------------- MODULE FileTxProofs ----------------------------
(***************************************************************************)
(* Proofs about FileTx, for any number of files, chunks, operations and    *)
(* crashes: between two commands every file is what its catalog entry      *)
(* describes, and at every instant the disk holds what the next unlock     *)
(* needs to bring that about.                                              *)
(***************************************************************************)
EXTENDS FileTx, FiniteSetTheorems, WellFoundedInduction, TLAPS

(***************************************************************************)
(* The types of the markers and of the command under way.                  *)
(***************************************************************************)
WriteTxs == [op : Ops, file : Files, idx : SUBSET Idx, had : SUBSET Idx]
EraseTxs == [op : Ops, file : Files, idx : SUBSET Idx, phase : {"staging", "committing"},
             oldRev : 0..MaxOps]
Candidates == [name : Names \cup {EraseMarker}, held : Held \ {Absent}]

Commands(kind, pcs) ==
    [kind : {kind}, pc : pcs, file : Files, op : Ops, content : Contents, idx : SUBSET Idx,
     todo : SUBSET Idx, old : Contents, undo : BOOLEAN]
Writes == Commands("write", {"marker", "giveUp", "copy", "undo", "save", "clean", "drop"})
Erases == Commands("erase", {"stage", "commit", "delete", "undo", "save", "drop", "clean"})
Recoveries == [kind : {"recoverWrite"}, pc : {"decide", "restore", "clean", "drop"}, todo : SUBSET Idx]
              \cup [kind : {"recoverErase"}, pc : {"decide", "delete", "restore", "clean", "drop"},
                    todo : SUBSET Idx]
Collections == [kind : {"gc", "recoverGc"}, pc : {"delete"}, todo : SUBSET Candidates]

TypesOK ==
    /\ disk \in [Names -> Held]
    /\ cat \in [Files -> Versions] /\ mem \in [Files -> Versions]
    /\ session \in {"locked", "unlocking", "open"}
    /\ replaceTx = NoTx \/ replaceTx \in WriteTxs
    /\ eraseTx = NoTx \/ eraseTx \in EraseTxs
    /\ op = NoOp \/ op \in Writes \cup Erases \cup Recoveries \cup Collections
    /\ op.kind = "recoverWrite" /\ op.pc # "decide" => replaceTx # NoTx
    /\ op.kind = "recoverErase" /\ op.pc # "decide" => eraseTx # NoTx
    /\ nextOp \in 1..(MaxOps + 1) /\ crashes \in 0..MaxCrashes
    /\ scan \subseteq Candidates /\ manifest \subseteq Candidates
    /\ unlockFailed \in BOOLEAN /\ stranded \in BOOLEAN /\ overlapped \in BOOLEAN

\* The session is unlocking while a recovery runs; only an open one runs commands.
SessionKind ==
    /\ op.kind \in {"recoverWrite", "recoverErase", "recoverGc"} <=> session = "unlocking"
    /\ session = "locked" => op = NoOp

\* An unlock is refused only over a marker without backups.  In an open session
\* such a marker is the one of a patch that gave up.
SessionOK ==
    /\ SessionKind
    /\ session # "open" => mem = cat
    /\ session = "open" /\ stranded => op.kind = "none" /\ replaceTx # NoTx
    /\ unlockFailed => session = "locked" /\ stranded

(***************************************************************************)
(* What the disk holds.                                                    *)
(***************************************************************************)
Committing == eraseTx # NoTx /\ eraseTx.phase = "committing"

\* The markers and what they say of operations that have begun.
MarkersOK ==
    /\ replaceTx # NoTx => replaceTx.op < nextOp /\ replaceTx.had \subseteq replaceTx.idx /\ ~Committing
    /\ eraseTx # NoTx => eraseTx.op < nextOp /\ eraseTx.oldRev < eraseTx.op
    /\ \A f \in Files : /\ Prefix(cat[f].content) /\ cat[f].rev < nextOp
                        /\ Prefix(mem[f].content) /\ mem[f].rev < nextOp

\* A rollback whose backups are gone.
Undone == InRollbackTail \/ stranded

\* An uncommitted write to f can be undone: c comes back.
WriteUndoable(f, c) ==
    /\ \A i \in Idx \ replaceTx.idx : disk[Canon(f, i)] = c[i]
    /\ \A i \in replaceTx.idx : i \in replaceTx.had <=> c[i] # Absent
    /\ \/ \A i \in replaceTx.had : disk[Bak(replaceTx.op, i)] = c[i]
       \/ /\ Undone /\ \A i \in Idx : disk[Canon(f, i)] = c[i]
          /\ \A i \in Idx : disk[Bak(replaceTx.op, i)] = Absent

\* The erase of f can be completed, or undone.
EraseDecided(f, v) ==
    /\ \A i \in Idx \ eraseTx.idx : disk[Canon(f, i)] = Absent /\ v.content[i] = Absent
    /\ \/ v.rev = eraseTx.op /\ v.content = Empty
       \/ /\ v.rev = eraseTx.oldRev /\ \A i \in eraseTx.idx : v.content[i] # Absent
          /\ \/ \A i \in eraseTx.idx : disk[Bak(eraseTx.op, i)] = v.content[i]
             \/ /\ Undone /\ \A i \in Idx : disk[Canon(f, i)] = v.content[i]
                /\ \A i \in Idx : disk[Bak(eraseTx.op, i)] = Absent

InPlace(f, c) == \A i \in Idx : disk[Canon(f, i)] = c[i]

\* The disk holds version v of file f, or all it takes to restore it.
FileSound(f, v) ==
    /\ replaceTx # NoTx /\ replaceTx.file = f /\ v.rev < replaceTx.op => WriteUndoable(f, v.content)
    /\ Committing /\ eraseTx.file = f => EraseDecided(f, v)
    /\ ~(replaceTx # NoTx /\ replaceTx.file = f /\ v.rev < replaceTx.op)
       /\ ~(Committing /\ eraseTx.file = f) => InPlace(f, v.content)

SoundNow == \A f \in Files : FileSound(f, cat[f])

\* Between two commands the session's catalog is right, and can become the durable one.
ReadyOK ==
    session = "open" /\ op.kind = "none" =>
        /\ \A f \in Files : InPlace(f, mem[f].content)
        /\ \A f \in Files : FileSound(f, mem[f])
        /\ ~Pending => mem = cat

(***************************************************************************)
(* The commands and the recovery, step by step.                            *)
(***************************************************************************)
\* While a command runs on a file, the others are in place.
OthersOK(f) == \A g \in Files \ {f} : InPlace(g, cat[g].content)

BackedUp(c) == \A i \in op.idx : disk[Bak(op.op, i)] = c[i]
Discarded(o) == \A i \in Idx : disk[Bak(o, i)] = Absent

WriteOK ==
    op.kind = "write" =>
        LET old == cat[op.file].content IN
        /\ session = "open" /\ mem = cat /\ OthersOK(op.file) /\ op.op < nextOp /\ ~Committing
        /\ replaceTx = NoTx \/ replaceTx = WriteTx
        /\ op.pc = "marker" => replaceTx = NoTx /\ op.todo = op.idx
        /\ op.pc \in {"copy", "save"} => replaceTx = WriteTx
        /\ op.pc = "save" => op.todo = {}
        /\ op.pc = "undo" => op.undo
        /\ op.undo => op.pc \in {"undo", "clean", "drop"}
        /\ op.pc \in {"marker", "giveUp", "copy", "save", "undo"} \/ op.undo =>
              /\ cat[op.file].rev < op.op /\ op.old = old /\ op.todo \subseteq op.idx
              /\ Prefix(op.content)
              /\ \A i \in Idx \ op.idx : disk[Canon(op.file, i)] = old[i] /\ op.content[i] = old[i]
        /\ op.pc \in {"marker", "giveUp", "copy", "save", "undo"} => BackedUp(old)
        /\ op.pc = "clean" /\ op.undo => BackedUp(old)
        /\ op.pc \in {"marker", "giveUp"} \/ (op.pc = "undo" /\ replaceTx = NoTx) => InPlace(op.file, old)
        /\ op.pc \in {"copy", "save"} =>
              \A i \in op.idx : disk[Canon(op.file, i)] = IF i \in op.todo THEN old[i] ELSE op.content[i]
        /\ op.pc \in {"clean", "drop"} => InPlace(op.file, old)
        /\ op.pc \in {"clean", "drop"} /\ ~op.undo => cat[op.file].rev = op.op
        /\ op.pc = "drop" => Discarded(op.op)

EraseOK ==
    op.kind = "erase" =>
        LET old == cat[op.file].content IN
        /\ session = "open" /\ mem = cat /\ OthersOK(op.file) /\ op.op < nextOp /\ replaceTx = NoTx
        /\ op.content = Empty
        /\ op.pc \in {"stage", "clean"} => ~Committing
        /\ op.pc \in {"stage", "commit"} => op.todo = op.idx
        /\ op.pc = "undo" => op.undo
        /\ op.undo => op.pc \in {"undo", "clean", "drop"}
        /\ op.pc = "save" => op.todo = {}
        /\ op.pc \in {"commit", "delete", "save", "undo", "drop"} =>
              /\ eraseTx # NoTx /\ eraseTx.op = op.op /\ eraseTx.file = op.file
              /\ eraseTx.idx = op.idx
              /\ op.pc # "drop" => eraseTx.phase = IF op.pc = "commit" THEN "staging" ELSE "committing"
        /\ op.pc \notin {"drop", "clean"} \/ op.undo =>
              /\ cat[op.file].rev < op.op /\ op.todo \subseteq op.idx
              /\ op.idx = {i \in Idx : old[i] # Absent} /\ BackedUp(old)
              /\ \A i \in Idx \ op.idx : disk[Canon(op.file, i)] = Absent
              /\ op.pc \notin {"stage", "clean"} => eraseTx.oldRev = cat[op.file].rev
        /\ op.pc = "drop" /\ ~op.undo => cat[op.file].rev = op.op /\ old = Empty
        /\ op.pc \in {"stage", "commit", "drop", "clean"} => InPlace(op.file, old)
        /\ op.pc = "delete" =>
              \A i \in op.idx : disk[Canon(op.file, i)] = IF i \in op.todo THEN old[i] ELSE Absent
        /\ op.pc = "save" => InPlace(op.file, Empty)

RecoverWriteOK ==
    op.kind = "recoverWrite" =>
        /\ op.pc = "clean" => ReplaceCommitted
        /\ op.pc = "restore" =>
              /\ ~ReplaceCommitted /\ op.todo \subseteq replaceTx.idx
              /\ \A i \in replaceTx.idx \ op.todo :
                    disk[Canon(replaceTx.file, i)] = cat[replaceTx.file].content[i]
        /\ op.pc = "drop" => /\ Discarded(replaceTx.op)
                             /\ InPlace(replaceTx.file, cat[replaceTx.file].content)

RecoverEraseOK ==
    op.kind = "recoverErase" =>
        /\ replaceTx = NoTx
        /\ op.pc = "clean" => eraseTx.phase = "staging"
        /\ op.pc = "delete" => /\ eraseTx.phase = "committing" /\ EraseCommitted
                               /\ op.todo \subseteq eraseTx.idx
                               /\ \A i \in eraseTx.idx \ op.todo : disk[Canon(eraseTx.file, i)] = Absent
        /\ op.pc = "restore" => /\ eraseTx.phase = "committing" /\ EraseNotSaved
                                /\ op.todo \subseteq eraseTx.idx
                                /\ \A i \in eraseTx.idx \ op.todo :
                                      disk[Canon(eraseTx.file, i)] = cat[eraseTx.file].content[i]
        /\ op.pc = "drop" => /\ Discarded(eraseTx.op)
                             /\ InPlace(eraseTx.file, cat[eraseTx.file].content)

\* A collection deletes no chunk of a file.
CollectOK ==
    op.kind \in {"gc", "recoverGc"} =>
        /\ mem = cat /\ replaceTx = NoTx /\ ~Committing
        /\ op.kind = "gc" => session = "open" /\ \A c \in op.todo : c.name[1] # "canon"
        /\ op.kind = "recoverGc" => eraseTx = NoTx

Steps == WriteOK /\ EraseOK /\ RecoverWriteOK /\ RecoverEraseOK /\ CollectOK

Body == SessionOK /\ MarkersOK /\ SoundNow /\ ReadyOK /\ Steps

\* Nothing is claimed once a command has started before a failed one was recovered.
Inv == TypesOK /\ SessionKind /\ (~overlapped => Body)

(***************************************************************************)
(* Facts about the operators of the model.                                 *)
(***************************************************************************)
\* The first chunk of a non-empty set.
LEMMA LeastFacts ==
    ASSUME NEW S \in SUBSET Idx, S # {}
    PROVE  Least(S) \in S
<1>1. S \subseteq Nat
    BY DEF Idx
<1>2. PICK x \in S : \A y \in S : ~(<<y, x>> \in OpToRel(<, Nat))
    BY <1>1, WFMin, NatLessThanWellFounded, Zenon
<1>3. \A y \in S : x <= y
    <2> SUFFICES ASSUME NEW y \in S PROVE x <= y
        OBVIOUS
    <2>1. x \in Nat /\ y \in Nat /\ <<y, x>> \in Nat \X Nat
        BY <1>1
    <2>2. ~(y < x)
        BY <1>2, <2>1, Zenon DEF OpToRel
    <2> QED BY <2>1, <2>2
<1> QED BY <1>2, <1>3 DEF Least

\* The names of chunks and backups.
LEMMA NameFacts ==
    /\ \A f \in Files, i \in Idx : Canon(f, i) \in Names
    /\ \A o \in Ops, i \in Idx : Bak(o, i) \in Names
BY DEF Canon, Bak, Names

\* Chunks of file f get new contents.
LEMMA WithCanonFacts ==
    ASSUME NEW d \in [Names -> Held], NEW f \in Files, NEW S, NEW c, \A i \in S : c[i] \in Held
    PROVE  /\ WithCanon(d, f, S, c) \in [Names -> Held]
           /\ \A g \in Files, i \in Idx : WithCanon(d, f, S, c)[Canon(g, i)] =
                 IF g = f /\ i \in S THEN c[i] ELSE d[Canon(g, i)]
           /\ \A o \in Ops, i \in Idx : WithCanon(d, f, S, c)[Bak(o, i)] = d[Bak(o, i)]
<1>1. WithCanon(d, f, S, c) \in [Names -> Held]
    BY DEF WithCanon
<1>2. \A g \in Files, i \in Idx : /\ Canon(g, i)[1] = "canon" /\ Canon(g, i)[2] = g
                                  /\ Canon(g, i)[3] = i
    BY DEF Canon
<1>3. \A o \in Ops, i \in Idx : Bak(o, i)[1] # "canon"
    BY DEF Bak
<1> QED BY <1>1, <1>2, <1>3, NameFacts DEF WithCanon

\* Backups of operation o are written or removed.
LEMMA WithBackupsFacts ==
    ASSUME NEW d \in [Names -> Held], NEW o \in Ops, NEW S, NEW c, \A i \in S : c[i] \in Held
    PROVE  /\ WithBackups(d, o, S, c) \in [Names -> Held]
           /\ \A g \in Files, i \in Idx : WithBackups(d, o, S, c)[Canon(g, i)] = d[Canon(g, i)]
           /\ \A q \in Ops, i \in Idx : WithBackups(d, o, S, c)[Bak(q, i)] =
                 IF q = o /\ i \in S THEN c[i] ELSE d[Bak(q, i)]
<1>1. WithBackups(d, o, S, c) \in [Names -> Held]
    BY DEF WithBackups
<1>2. \A q \in Ops, i \in Idx : Bak(q, i)[1] = "backup" /\ Bak(q, i)[2] = q /\ Bak(q, i)[3] = i
    BY DEF Bak
<1>3. \A g \in Files, i \in Idx : Canon(g, i)[1] # "backup"
    BY DEF Canon
<1> QED BY <1>1, <1>2, <1>3, NameFacts DEF WithBackups

\* What a file consists of, and the backups of an operation.
LEMMA ContentFacts ==
    ASSUME disk \in [Names -> Held]
    PROVE  /\ \A f \in Files : ContentOf(f) \in Contents
                               /\ \A i \in Idx : ContentOf(f)[i] = disk[Canon(f, i)]
           /\ \A o \in Ops : BackupsOf(o) \in Contents
                             /\ \A i \in Idx : BackupsOf(o)[i] = disk[Bak(o, i)]
           /\ Empty \in Contents /\ \A i \in Idx : Empty[i] = Absent
BY NameFacts DEF ContentOf, BackupsOf, Contents, Empty, Held

\* A file in place is what its catalog entry says.
LEMMA InPlaceFacts ==
    ASSUME disk \in [Names -> Held], NEW f \in Files, NEW c \in Contents
    PROVE  InPlace(f, c) <=> ContentOf(f) = c
BY ContentFacts DEF InPlace, Contents

\* A content without holes ends at its length.
LEMMA LengthFacts ==
    ASSUME NEW c \in Contents, Prefix(c), NEW i \in Idx, i > Length(c)
    PROVE  c[i] = Absent
<1> SUFFICES ASSUME c[i] # Absent PROVE FALSE
    OBVIOUS
<1> DEFINE T == {j \in Idx : c[j] # Absent}
<1>1. IsFiniteSet(Idx)
    BY FS_Interval, FileTxAssumption DEF Idx
<1>2. IsFiniteSet(T)
    BY <1>1, FS_Subset
<1>3. i \in Nat /\ i >= 1 /\ 1..i \subseteq T
    BY FileTxAssumption DEF Idx, Prefix
<1>4. Cardinality(1..i) <= Cardinality(T)
    BY <1>2, <1>3, FS_Subset
<1>5. Cardinality(1..i) = i
    BY <1>3, FS_Interval
<1>6. Cardinality(T) \in Nat
    BY <1>2, FS_CardinalityType
<1> QED BY <1>3, <1>4, <1>5, <1>6 DEF Length

\* A chunk that is not live has no content.
LEMMA LiveFacts ==
    ASSUME NEW f \in Files, NEW i \in Idx, mem[f].content \in Contents,
           Prefix(mem[f].content), Canon(f, i) \notin Live
    PROVE  mem[f].content[i] = Absent
<1> DEFINE n == Length(mem[f].content)
<1>1. i \notin 1..OrOne(n)
    BY DEF Live
<1>2. n \in Nat
    <2>1. IsFiniteSet(Idx)
        BY FS_Interval, FileTxAssumption DEF Idx
    <2> QED BY <2>1, FS_Subset, FS_CardinalityType DEF Length
<1> HIDE DEF n
<1>3. i > n
    BY <1>1, <1>2, FileTxAssumption DEF OrOne, Idx
<1> QED BY <1>3, LengthFacts DEF n

\* The fields of a command that its steps leave alone.
SameCommand(w) ==
    /\ w.kind = op.kind /\ w.file = op.file /\ w.op = op.op /\ w.content = op.content
    /\ w.idx = op.idx /\ w.old = op.old

\* The kinds of what is under way.
LEMMA Kinds ==
    ASSUME TypesOK
    PROVE  /\ op.kind = "none" <=> op = NoOp
           /\ op.kind = "write" => op \in Writes
           /\ op.kind = "erase" => op \in Erases
           /\ op.kind = "recoverWrite" =>
                 op \in [kind : {"recoverWrite"}, pc : {"decide", "restore", "clean", "drop"},
                         todo : SUBSET Idx]
           /\ op.kind = "recoverErase" =>
                 op \in [kind : {"recoverErase"},
                         pc : {"decide", "delete", "restore", "clean", "drop"}, todo : SUBSET Idx]
           /\ op.kind \in {"gc", "recoverGc"} => op \in Collections
BY DEF TypesOK, Writes, Erases, Commands, Recoveries, Collections, NoOp

\* The fields of a command.
LEMMA CommandFields ==
    ASSUME TypesOK, op.kind \in {"write", "erase"}
    PROVE  /\ op.file \in Files /\ op.op \in Ops /\ op.content \in Contents /\ op.old \in Contents
           /\ op.idx \subseteq Idx /\ op.todo \subseteq Idx /\ op.undo \in BOOLEAN
BY Kinds DEF Writes, Erases, Commands

\* The fields of the markers.
LEMMA MarkerFields ==
    ASSUME TypesOK
    PROVE  /\ replaceTx # NoTx => /\ replaceTx.op \in Ops /\ replaceTx.file \in Files
                                  /\ replaceTx.idx \subseteq Idx /\ replaceTx.had \subseteq Idx
           /\ eraseTx # NoTx => /\ eraseTx.op \in Ops /\ eraseTx.file \in Files
                                /\ eraseTx.idx \subseteq Idx /\ eraseTx.oldRev \in 0..MaxOps
                                /\ eraseTx.phase \in {"staging", "committing"}
BY DEF TypesOK, WriteTxs, EraseTxs

\* A version of a file.
LEMMA VersionFields ==
    ASSUME NEW c \in [Files -> Versions], NEW f \in Files
    PROVE  c[f] \in Versions /\ c[f].rev \in 0..MaxOps /\ c[f].content \in Contents
BY DEF Versions

\* The marker of a write, and that of an erase.
LEMMA MarkerTypes ==
    ASSUME TypesOK
    PROVE  /\ op.kind = "write" => /\ WriteTx \in WriteTxs /\ WriteTx.op = op.op
                                   /\ WriteTx.file = op.file /\ WriteTx.idx = op.idx
                                   /\ WriteTx.had = {i \in op.idx : op.old[i] # Absent}
                                   /\ WriteTx # NoTx
           /\ op.kind = "erase" => \A p \in {"staging", "committing"} :
                 /\ EraseTx(p) \in EraseTxs /\ EraseTx(p).op = op.op /\ EraseTx(p).file = op.file
                 /\ EraseTx(p).idx = op.idx /\ EraseTx(p).phase = p
                 /\ EraseTx(p).oldRev = mem[op.file].rev /\ EraseTx(p) # NoTx
<1>1. CASE op.kind = "write"
    <2>1. /\ op.file \in Files /\ op.op \in Ops /\ op.idx \subseteq Idx
          /\ {i \in op.idx : op.old[i] # Absent} \in SUBSET Idx
        BY <1>1, CommandFields
    <2>2. /\ WriteTx \in WriteTxs /\ WriteTx.op = op.op
          /\ WriteTx.file = op.file /\ WriteTx.idx = op.idx
          /\ WriteTx.had = {i \in op.idx : op.old[i] # Absent}
        BY <2>1 DEF WriteTx, WriteTxs
    <2>3. op.op # 0
        BY <2>1, FileTxAssumption DEF Ops
    <2> QED BY <1>1, <2>2, <2>3 DEF NoTx
<1>2. ASSUME op.kind = "erase", NEW p \in {"staging", "committing"}
      PROVE  /\ EraseTx(p) \in EraseTxs /\ EraseTx(p).op = op.op /\ EraseTx(p).file = op.file
             /\ EraseTx(p).idx = op.idx /\ EraseTx(p).phase = p
             /\ EraseTx(p).oldRev = mem[op.file].rev /\ EraseTx(p) # NoTx
    <2>1. /\ op.file \in Files /\ op.op \in Ops /\ op.idx \subseteq Idx
          /\ mem[op.file].rev \in 0..MaxOps
        BY <1>2, CommandFields, VersionFields DEF TypesOK
    <2>2. /\ EraseTx(p) \in EraseTxs /\ EraseTx(p).op = op.op /\ EraseTx(p).file = op.file
          /\ EraseTx(p).idx = op.idx /\ EraseTx(p).phase = p
          /\ EraseTx(p).oldRev = mem[op.file].rev
        BY <2>1 DEF EraseTx, EraseTxs
    <2>3. op.op # 0
        BY <2>1, FileTxAssumption DEF Ops
    <2> QED BY <2>2, <2>3 DEF NoTx
<1> QED BY <1>1, <1>2

(***************************************************************************)
(* Types.                                                                  *)
(***************************************************************************)
\* Every step of a write keeps the types.
LEMMA WriteTypes ==
    ASSUME TypesOK, Write
    PROVE  TypesOK'
<1>1. op \in Writes /\ op.kind = "write" /\ op.file \in Files /\ op.op \in Ops
    BY Kinds, CommandFields DEF Write, MarkWrite, GiveUpWrite, CopyChunk, UndoWrite, SaveWrite, CleanWrite, DropWrite
<1>2. op.content \in Contents /\ op.old \in Contents /\ disk \in [Names -> Held]
    BY <1>1, CommandFields DEF TypesOK
<1>3. op' \in Writes \/ op' = NoOp
    <2>1. /\ \A p \in {"marker", "giveUp", "copy", "undo", "save", "clean", "drop"} :
                /\ [op EXCEPT !.pc = p] \in Writes
                /\ [op EXCEPT !.pc = p, !.undo = TRUE] \in Writes
          /\ [op EXCEPT !.todo = @ \ {Least(op.todo)}] \in Writes
        BY <1>1 DEF Writes, Commands
    <2> QED BY <2>1
        DEF Write, MarkWrite, GiveUpWrite, CopyChunk, UndoWrite, SaveWrite, CleanWrite, DropWrite, WriteFails,
            StagingFails
<1>4. op'.kind \in {"write", "none"}
    BY <1>3 DEF Writes, Commands, NoOp
<1>5. disk' \in [Names -> Held]
    <2>1. \A S \in SUBSET Idx : WithCanon(disk, op.file, S, op.content) \in [Names -> Held]
        BY <1>1, <1>2, WithCanonFacts DEF Contents
    <2>2. \A S \in SUBSET Idx : WithCanon(disk, op.file, S, op.old) \in [Names -> Held]
        BY <1>1, <1>2, WithCanonFacts DEF Contents
    <2>3. WithBackups(disk, op.op, Idx, Empty) \in [Names -> Held]
        BY <1>1, <1>2, WithBackupsFacts, ContentFacts DEF Contents
    <2>4. op.todo \subseteq Idx /\ op.idx \subseteq Idx
        BY <1>1, CommandFields
    <2>5. op.todo # {} => {Least(op.todo)} \in SUBSET Idx
        BY <2>4, LeastFacts
    <2> QED BY <1>2, <2>1, <2>2, <2>3, <2>4, <2>5
        DEF Write, MarkWrite, GiveUpWrite, CopyChunk, UndoWrite, SaveWrite, CleanWrite, DropWrite
<1>6. replaceTx' = NoTx \/ replaceTx' \in WriteTxs
    BY <1>1, MarkerTypes DEF TypesOK, StagingFails, Write, MarkWrite, GiveUpWrite, CopyChunk, UndoWrite, SaveWrite, CleanWrite,
       DropWrite, txVars
<1>7. cat' \in [Files -> Versions] /\ mem' \in [Files -> Versions]
    <2>1. op.op \in 0..MaxOps
        BY <1>1 DEF Ops
    <2>2. Saved \in [Files -> Versions]
        BY <1>1, <1>2, <2>1 DEF Saved, TypesOK, Versions
    <2> QED BY <2>2 DEF TypesOK, Write, MarkWrite, GiveUpWrite, CopyChunk, UndoWrite, SaveWrite, CleanWrite, DropWrite
<1>8. UNCHANGED <<eraseTx, session, nextOp, gcVars, crashes, unlockFailed, overlapped>>
    BY DEF Write, MarkWrite, GiveUpWrite, CopyChunk, UndoWrite, SaveWrite, CleanWrite, DropWrite, txVars,
       faultVars
<1>9. stranded' \in BOOLEAN
    BY DEF Write, MarkWrite, GiveUpWrite, CopyChunk, UndoWrite, SaveWrite, CleanWrite, DropWrite, faultVars,
       TypesOK
<1> QED BY <1>3, <1>4, <1>5, <1>6, <1>7, <1>8, <1>9 DEF TypesOK, gcVars

\* Every step of an erase keeps the types.
LEMMA EraseTypes ==
    ASSUME TypesOK, Erase
    PROVE  TypesOK'
<1>1. op \in Erases /\ op.kind = "erase" /\ op.file \in Files /\ op.op \in Ops
    BY Kinds, CommandFields
    DEF Erase, StageErase, CommitErase, EraseChunk, UndoErase, SaveErase, DropErase, CleanErase
<1>2. op.content \in Contents /\ disk \in [Names -> Held] /\ BackupsOf(op.op) \in Contents
    BY <1>1, CommandFields, ContentFacts DEF TypesOK
<1>3. op' \in Erases \/ op' = NoOp
    <2>1. /\ \A p \in {"stage", "commit", "delete", "undo", "save", "drop", "clean"} :
                /\ [op EXCEPT !.pc = p] \in Erases
                /\ [op EXCEPT !.pc = p, !.undo = TRUE] \in Erases
          /\ [op EXCEPT !.todo = @ \ {Least(op.todo)}] \in Erases
        BY <1>1 DEF Erases, Commands
    <2> QED BY <2>1
        DEF Erase, StageErase, CommitErase, EraseChunk, UndoErase, SaveErase, DropErase, CleanErase,
        WriteFails
<1>4. op'.kind \in {"erase", "none"}
    BY <1>3 DEF Erases, Commands, NoOp
<1>5. disk' \in [Names -> Held]
    <2>1. \A S \in SUBSET Idx : WithCanon(disk, op.file, S, Empty) \in [Names -> Held]
        BY <1>1, <1>2, WithCanonFacts, ContentFacts DEF Contents
    <2>2. \A S \in SUBSET Idx : WithCanon(disk, op.file, S, BackupsOf(op.op)) \in [Names -> Held]
        BY <1>1, <1>2, WithCanonFacts DEF Contents
    <2>3. WithBackups(disk, op.op, Idx, Empty) \in [Names -> Held]
        BY <1>1, <1>2, WithBackupsFacts, ContentFacts DEF Contents
    <2>4. op.todo \subseteq Idx /\ op.idx \subseteq Idx
        BY <1>1, CommandFields
    <2>5. op.todo # {} => {Least(op.todo)} \in SUBSET Idx
        BY <2>4, LeastFacts
    <2> QED BY <1>2, <2>1, <2>2, <2>3, <2>4, <2>5
        DEF Erase, StageErase, CommitErase, EraseChunk, UndoErase, SaveErase, DropErase, CleanErase
<1>6. eraseTx' = NoTx \/ eraseTx' \in EraseTxs
    BY <1>1, MarkerTypes
    DEF TypesOK, Erase, StageErase, CommitErase, EraseChunk, UndoErase, SaveErase, DropErase,
        CleanErase, txVars
<1>7. cat' \in [Files -> Versions] /\ mem' \in [Files -> Versions]
    <2>1. op.op \in 0..MaxOps
        BY <1>1 DEF Ops
    <2>2. Saved \in [Files -> Versions]
        BY <1>1, <1>2, <2>1 DEF Saved, TypesOK, Versions
    <2> QED BY <2>2
        DEF TypesOK, Erase, StageErase, CommitErase, EraseChunk, UndoErase, SaveErase, DropErase,
            CleanErase
<1>8. UNCHANGED <<replaceTx, session, nextOp, gcVars, faultVars>>
    BY DEF Erase, StageErase, CommitErase, EraseChunk, UndoErase, SaveErase, DropErase, CleanErase,
           txVars
<1> QED BY <1>3, <1>4, <1>5, <1>6, <1>7, <1>8 DEF TypesOK, gcVars, faultVars

\* A step of the recovery.
LEMMA StepType ==
    ASSUME NEW p, NEW T \in SUBSET Idx
    PROVE  /\ p \in {"decide", "restore", "clean", "drop"} =>
                 RecoveryStep("recoverWrite", p, T) \in Recoveries
           /\ p \in {"decide", "delete", "restore", "clean", "drop"} =>
                 RecoveryStep("recoverErase", p, T) \in Recoveries
           /\ \A k : RecoveryStep(k, p, T).kind = k /\ RecoveryStep(k, p, T).pc = p
                     /\ RecoveryStep(k, p, T).todo = T
BY DEF RecoveryStep, Recoveries

\* Every step of the recovery keeps the types.
LEMMA RecoverTypes ==
    ASSUME TypesOK, Recover
    PROVE  TypesOK'
<1>u. UNCHANGED <<cat, mem, nextOp, gcVars>>
    BY DEF Recover, DecideWrite, RestoreWrite, CleanRecoveredWrite, DropRecoveredWrite, DecideErase,
       RecoverEraseChunk, CleanRecoveredErase, DropRecoveredErase
<1>d. disk \in [Names -> Held] /\ Empty \in Contents
    BY ContentFacts DEF TypesOK
<1>g. /\ RecoveryStep("recoverGc", "delete", manifest) \in Collections
      /\ RecoveryStep("recoverGc", "delete", manifest).kind = "recoverGc"
    BY DEF RecoveryStep, Collections, TypesOK
<1>s. /\ RecoveryStep("recoverErase", "decide", {}) \in Recoveries
      /\ RecoveryStep("recoverErase", "decide", {}).kind = "recoverErase"
      /\ RecoveryStep("recoverErase", "decide", {}).pc = "decide"
    BY StepType
<1>n. NoOp.kind = "none"
    BY DEF NoOp
<1>1. CASE DecideWrite
    <2>1. replaceTx # NoTx => replaceTx.idx \subseteq Idx
        BY MarkerFields
    <2>2. /\ op' \in Recoveries
          /\ \/ op'.kind = "recoverErase" /\ op'.pc = "decide"
             \/ op'.kind = "recoverWrite" /\ replaceTx # NoTx
        <3>1. replaceTx # NoTx =>
                 \A T \in {{}, replaceTx.idx} : \A p \in {"clean", "restore"} :
                     /\ RecoveryStep("recoverWrite", p, T) \in Recoveries
                     /\ RecoveryStep("recoverWrite", p, T).kind = "recoverWrite"
            BY <2>1, StepType
        <3> QED BY <1>1, <1>s, <3>1 DEF DecideWrite
    <2> QED BY <1>1, <1>u, <2>2 DEF DecideWrite, TypesOK, txVars, gcVars, faultVars
<1>2. CASE RestoreWrite
    <2>1. /\ replaceTx # NoTx /\ replaceTx.file \in Files /\ replaceTx.op \in Ops
          /\ BackupsOf(replaceTx.op) \in Contents
        BY <1>2, <1>d, MarkerFields, ContentFacts DEF RestoreWrite, TypesOK
    <2>2. /\ op.todo \subseteq Idx /\ op.todo # {} /\ Least(op.todo) \in Idx /\ op.kind = "recoverWrite"
          /\ op \in [kind : {"recoverWrite"}, pc : {"decide", "restore", "clean", "drop"}, todo : SUBSET Idx]
        BY <1>2, Kinds, LeastFacts DEF RestoreWrite
    <2>3. disk' \in [Names -> Held]
        BY <1>2, <1>d, <2>1, <2>2, WithCanonFacts DEF RestoreWrite, Contents
    <2>4. op' = NoOp \/ (op' \in Recoveries /\ op'.kind = "recoverWrite")
        BY <1>2, <2>2 DEF RestoreWrite, RefuseUnlock, Recoveries
    <2> QED BY <1>2, <1>u, <1>n, <2>1, <2>3, <2>4
        DEF RestoreWrite, RefuseUnlock, TypesOK, txVars, gcVars, faultVars
<1>3. CASE CleanRecoveredWrite
    <2>1. replaceTx # NoTx /\ replaceTx.op \in Ops
        BY <1>3, MarkerFields DEF CleanRecoveredWrite, TypesOK
    <2>2. disk' \in [Names -> Held]
        BY <1>3, <1>d, <2>1, WithBackupsFacts DEF CleanRecoveredWrite, Contents
    <2>3. op' \in Recoveries /\ op'.kind = "recoverWrite"
        BY <1>3, Kinds DEF CleanRecoveredWrite, Recoveries
    <2> QED BY <1>3, <1>u, <2>1, <2>2, <2>3 DEF CleanRecoveredWrite, TypesOK, txVars, gcVars, faultVars
<1>4. CASE DropRecoveredWrite
    BY <1>4, <1>u, <1>s DEF DropRecoveredWrite, TypesOK, gcVars, faultVars
<1>5. CASE DecideErase
    <2>1. eraseTx # NoTx => eraseTx.idx \subseteq Idx
        BY MarkerFields
    <2>2. \/ op' = NoOp \/ (op' \in Collections /\ op'.kind = "recoverGc")
          \/ op' \in Recoveries /\ op'.kind = "recoverErase" /\ eraseTx # NoTx
        <3>1. [op EXCEPT !.pc = "clean"] \in Recoveries /\ [op EXCEPT !.pc = "clean"].kind = "recoverErase"
            BY <1>5, Kinds DEF DecideErase, Recoveries
        <3>2. \A p \in {"delete", "restore"} : eraseTx # NoTx =>
                 /\ RecoveryStep("recoverErase", p, eraseTx.idx) \in Recoveries
                 /\ RecoveryStep("recoverErase", p, eraseTx.idx).kind = "recoverErase"
            BY <2>1, StepType
        <3> QED BY <1>5, <1>g, <3>1, <3>2 DEF DecideErase, RefuseUnlock
    <2> QED BY <1>5, <1>u, <1>n, <2>2 DEF DecideErase, RefuseUnlock, TypesOK, txVars, gcVars, faultVars
<1>6. CASE RecoverEraseChunk
    <2>1. /\ eraseTx # NoTx /\ eraseTx.file \in Files /\ eraseTx.op \in Ops
          /\ BackupsOf(eraseTx.op) \in Contents
        BY <1>6, <1>d, MarkerFields, ContentFacts DEF RecoverEraseChunk, TypesOK
    <2>2. /\ op.todo \subseteq Idx /\ op.todo # {} /\ Least(op.todo) \in Idx /\ op.kind = "recoverErase"
          /\ op \in [kind : {"recoverErase"}, pc : {"decide", "delete", "restore", "clean", "drop"},
                     todo : SUBSET Idx]
        BY <1>6, Kinds, LeastFacts DEF RecoverEraseChunk
    <2>3. disk' \in [Names -> Held]
        BY <1>6, <1>d, <2>1, <2>2, WithCanonFacts DEF RecoverEraseChunk, Contents
    <2>4. op' = NoOp \/ (op' \in Recoveries /\ op'.kind = "recoverErase")
        BY <1>6, <2>2 DEF RecoverEraseChunk, RefuseUnlock, Recoveries
    <2> QED BY <1>6, <1>u, <1>n, <2>1, <2>3, <2>4
        DEF RecoverEraseChunk, RefuseUnlock, TypesOK, txVars, gcVars, faultVars
<1>7. CASE CleanRecoveredErase
    <2>1. eraseTx # NoTx /\ eraseTx.op \in Ops
        BY <1>7, MarkerFields DEF CleanRecoveredErase, TypesOK
    <2>2. disk' \in [Names -> Held]
        BY <1>7, <1>d, <2>1, WithBackupsFacts DEF CleanRecoveredErase, Contents
    <2>3. op' \in Recoveries /\ op'.kind = "recoverErase"
        BY <1>7, Kinds DEF CleanRecoveredErase, Recoveries
    <2> QED BY <1>7, <1>u, <2>1, <2>2, <2>3 DEF CleanRecoveredErase, TypesOK, txVars, gcVars, faultVars
<1>8. CASE DropRecoveredErase
    BY <1>8, <1>u, <1>g DEF DropRecoveredErase, TypesOK, gcVars, faultVars
<1> QED BY <1>1, <1>2, <1>3, <1>4, <1>5, <1>6, <1>7, <1>8 DEF Recover

\* The start of a command.
LEMMA BeginTypes ==
    ASSUME TypesOK, NEW f \in Files,
           BeginErase(f) \/ \E c \in NewContents(f) : BeginWrite(f, c)
    PROVE  TypesOK'
<1>1. /\ disk \in [Names -> Held] /\ ContentOf(f) \in Contents /\ Empty \in Contents
      /\ mem[f].content \in Contents
    BY ContentFacts, VersionFields DEF TypesOK
<1>2. nextOp \in Ops /\ nextOp \in Held /\ Absent \in Held /\ nextOp' = nextOp + 1
      /\ nextOp' \in 1..(MaxOps + 1)
    BY FileTxAssumption DEF BeginErase, BeginWrite, TypesOK, Ops, Held, Absent
<1>3. NewContents(f) \subseteq Contents
    BY <1>1, <1>2 DEF NewContents, Contents
<1>4. Existing(f) \subseteq Idx /\ \A c : Changed(f, c) \subseteq Idx
    BY DEF Existing, Changed
<1>5. op' \in Writes \cup Erases /\ op'.kind \in {"write", "erase"}
    <2>1. CASE BeginErase(f)
        <3>1. op' \in Erases
            BY <1>1, <1>2, <1>4, <2>1 DEF BeginErase, Erases, Commands
        <3> QED BY <3>1 DEF Erases, Commands
    <2>2. CASE \E c \in NewContents(f) : BeginWrite(f, c)
        <3>1. op' \in Writes
            BY <1>1, <1>2, <1>3, <1>4, <2>2 DEF BeginWrite, Writes, Commands
        <3> QED BY <3>1 DEF Writes, Commands
    <2> QED BY <2>1, <2>2
<1>6. disk' \in [Names -> Held]
    <2>1. \A S \in SUBSET Idx : WithBackups(disk, nextOp, S, ContentOf(f)) \in [Names -> Held]
        BY <1>1, <1>2, WithBackupsFacts DEF Contents
    <2> QED BY <1>4, <2>1 DEF BeginErase, BeginWrite
<1>7. overlapped' \in BOOLEAN /\ UNCHANGED <<crashes, unlockFailed, stranded>>
    BY DEF BeginErase, BeginWrite, Overlaps
<1>8. UNCHANGED <<txVars, cat, mem, session, gcVars>>
    BY DEF BeginErase, BeginWrite
<1> QED BY <1>2, <1>5, <1>6, <1>7, <1>8 DEF TypesOK, txVars, gcVars

\* What a collection finds.
LEMMA CandidateTypes ==
    ASSUME TypesOK
    PROVE  Unreachable \subseteq Candidates
<1>1. \A n \in Names \cup {EraseMarker} : At(n) \in Held
    <2>1. eraseTx # NoTx => eraseTx.op \in Held
        BY MarkerFields DEF Held, Ops
    <2>2. Absent \in Held
        BY DEF Held
    <2> QED BY <2>1, <2>2 DEF At, TypesOK
<1> QED BY <1>1 DEF Unreachable, Candidates

\* A deletion of a collection.
LEMMA DeleteTypes ==
    ASSUME TypesOK, NEW n \in Names \cup {EraseMarker}, DeleteAt(n)
    PROVE  /\ disk' \in [Names -> Held] /\ (eraseTx' = eraseTx \/ eraseTx' = NoTx)
           /\ n[1] # "canon" => \A f \in Files, i \in Idx : disk'[Canon(f, i)] = disk[Canon(f, i)]
<1>1. Absent \in Held /\ disk \in [Names -> Held]
    BY DEF Held, TypesOK
<1>2. disk' = disk \/ disk' = [disk EXCEPT ![n] = Absent]
    BY DEF DeleteAt
<1>3. \A f \in Files, i \in Idx : n[1] # "canon" => Canon(f, i) # n
    BY DEF Canon
<1> QED BY <1>1, <1>2, <1>3, NameFacts DEF DeleteAt

\* Every step of a collection keeps the types.
LEMMA GcTypes ==
    ASSUME TypesOK, Gc
    PROVE  TypesOK'
<1>1. CASE GcScan
    BY <1>1, CandidateTypes DEF GcScan, TypesOK, txVars, faultVars
<1>2. CASE GcDelete
    <2>1. {c \in scan : Deletable(c)} \subseteq Candidates
        BY DEF TypesOK
    <2>2. op' \in Collections /\ op'.kind = "gc"
        BY <1>2, <2>1 DEF GcDelete, RecoveryStep, Collections
    <2>3. overlapped' \in BOOLEAN /\ UNCHANGED <<crashes, unlockFailed, stranded>>
        BY <1>2 DEF GcDelete, Overlaps
    <2> QED BY <1>2, <2>1, <2>2, <2>3 DEF GcDelete, TypesOK, txVars
<1>3. CASE GcDeleteOne
    <2>1. op \in Collections /\ op.todo \subseteq Candidates
        BY <1>3, Kinds DEF GcDeleteOne, Collections
    <2>2. PICK c \in op.todo :
             /\ DeleteAt(c.name) \/ UNCHANGED <<disk, eraseTx>>
             /\ op' = [op EXCEPT !.todo = @ \ {c}]
        BY <1>3 DEF GcDeleteOne
    <2>3. c.name \in Names \cup {EraseMarker}
        BY <2>1 DEF Candidates
    <2>4. disk' \in [Names -> Held] /\ (eraseTx' = eraseTx \/ eraseTx' = NoTx)
        BY <2>2, <2>3, DeleteTypes DEF TypesOK
    <2>5. op' \in Collections /\ op'.kind \in {"gc", "recoverGc"}
        BY <2>1, <2>2 DEF Collections
    <2> QED BY <1>3, <2>4, <2>5 DEF GcDeleteOne, TypesOK, gcVars, faultVars
<1>4. CASE GcDone
    BY <1>4 DEF GcDone, TypesOK, NoOp, txVars
<1> QED BY <1>1, <1>2, <1>3, <1>4 DEF Gc

\* Every step keeps the types.
LEMMA TypesKept ==
    ASSUME TypesOK, [Next]_vars
    PROVE  TypesOK'
<1>1. CASE \E f \in Files : (\E c \in NewContents(f) : BeginWrite(f, c)) \/ BeginErase(f)
    BY <1>1, BeginTypes
<1>2. CASE Unlock
    <2>1. RecoveryStep("recoverWrite", "decide", {}) \in Recoveries
        BY StepType
    <2>2. /\ RecoveryStep("recoverWrite", "decide", {}).kind = "recoverWrite"
          /\ RecoveryStep("recoverWrite", "decide", {}).pc = "decide"
        BY StepType
    <2> QED BY <1>2, <2>1, <2>2 DEF Unlock, TypesOK, txVars, gcVars
<1>3. CASE Lock
    BY <1>3 DEF Lock, TypesOK, txVars, gcVars, faultVars
<1>4. CASE Crash
    <2>1. crashes' \in 0..MaxCrashes
        BY <1>4, FileTxAssumption DEF Crash, TypesOK
    <2> QED BY <1>4, <2>1 DEF Crash, TypesOK, NoOp, txVars
<1>5. CASE UNCHANGED vars
    BY <1>5 DEF TypesOK, vars, txVars, gcVars, faultVars
<1> QED BY <1>1, <1>2, <1>3, <1>4, <1>5, WriteTypes, EraseTypes, RecoverTypes, GcTypes DEF Next

(***************************************************************************)
(* A command that runs keeps its file recoverable.                         *)
(***************************************************************************)
IsWrite == op.kind = "write"
IsErase == op.kind = "erase"

\* A write knows enough to have the old file or the new one.
LEMMA WriteSound == TypesOK /\ MarkersOK /\ WriteOK /\ IsWrite => SoundNow
<1> SUFFICES ASSUME TypesOK, MarkersOK, WriteOK, IsWrite, NEW f \in Files
             PROVE  FileSound(f, cat[f])
    BY DEF SoundNow
<1>1. /\ op \in Writes /\ op.file \in Files /\ ~Committing /\ OthersOK(op.file)
      /\ replaceTx = NoTx \/ replaceTx = WriteTx
    BY Kinds, CommandFields DEF IsWrite, WriteOK
<1>2. /\ WriteTx.op = op.op /\ WriteTx.file = op.file /\ WriteTx.idx = op.idx
      /\ WriteTx.had = {i \in op.idx : op.old[i] # Absent} /\ op.idx \subseteq Idx
      /\ WriteTx # NoTx /\ op.op \in Nat
    BY MarkerTypes, CommandFields DEF IsWrite, Ops
<1>3. CASE f # op.file
    BY <1>1, <1>2, <1>3 DEF FileSound, OthersOK
<1>4. CASE f = op.file
    <2>1. CASE replaceTx = WriteTx /\ cat[f].rev < op.op
        <3>1. op.pc \in {"marker", "giveUp", "copy", "save", "undo"} \/ op.undo
            BY <1>1, <1>2, <1>4, <2>1 DEF WriteOK, IsWrite, Writes, Commands
        <3>2. /\ op.old = cat[f].content
              /\ \A i \in Idx \ op.idx : disk[Canon(f, i)] = cat[f].content[i]
            BY <1>4, <3>1 DEF WriteOK, IsWrite
        <3>3. \/ \A i \in op.idx : disk[Bak(op.op, i)] = cat[f].content[i]
              \/ /\ InRollbackTail /\ InPlace(f, cat[f].content)
                 /\ \A i \in Idx : disk[Bak(op.op, i)] = Absent
            <4>1. CASE op.pc = "drop"
                BY <1>4, <3>1, <4>1 DEF WriteOK, IsWrite, Discarded, InRollbackTail
            <4>2. CASE op.pc # "drop"
                BY <1>1, <1>4, <3>1, <4>2 DEF WriteOK, IsWrite, BackedUp, Writes, Commands
            <4> QED BY <4>1, <4>2
        <3>4. WriteUndoable(f, cat[f].content)
            BY <1>2, <2>1, <3>2, <3>3 DEF WriteUndoable, Undone, InPlace
        <3> QED BY <1>1, <1>2, <1>4, <2>1, <3>4 DEF FileSound
    <2>2. CASE replaceTx = NoTx \/ ~(cat[f].rev < op.op)
        <3>1. InPlace(f, cat[f].content)
            BY <1>1, <1>4, <2>2, MarkerTypes DEF WriteOK, IsWrite, Writes, Commands
        <3> QED BY <1>1, <1>2, <2>2, <3>1 DEF FileSound
    <2> QED BY <1>1, <2>1, <2>2
<1> QED BY <1>3, <1>4

\* So does an erase.
LEMMA EraseSound == TypesOK /\ MarkersOK /\ EraseOK /\ IsErase => SoundNow
<1> SUFFICES ASSUME TypesOK, MarkersOK, EraseOK, IsErase, NEW f \in Files
             PROVE  FileSound(f, cat[f])
    BY DEF SoundNow
<1>1. /\ op \in Erases /\ op.file \in Files /\ replaceTx = NoTx /\ OthersOK(op.file)
      /\ op.idx \subseteq Idx
    BY Kinds, CommandFields DEF IsErase, EraseOK
<1>2. Committing => /\ op.pc \in {"delete", "save", "undo", "drop"}
                    /\ eraseTx.op = op.op /\ eraseTx.file = op.file /\ eraseTx.idx = op.idx
    BY <1>1 DEF EraseOK, IsErase, Committing, Erases, Commands
<1>3. CASE f # op.file
    BY <1>1, <1>2, <1>3 DEF FileSound, OthersOK
<1>4. CASE f = op.file /\ Committing
    <2>1. CASE op.pc = "drop" /\ ~op.undo
        BY <1>1, <1>2, <1>4, <2>1, ContentFacts
        DEF EraseOK, IsErase, FileSound, EraseDecided, InPlace, TypesOK
    <2>2. CASE op.pc # "drop" \/ op.undo
        <3>1. /\ cat[f].rev = eraseTx.oldRev /\ BackedUp(cat[f].content)
              /\ op.idx = {i \in Idx : cat[f].content[i] # Absent}
              /\ \A i \in Idx \ op.idx : disk[Canon(f, i)] = Absent
            BY <1>2, <1>4, <2>2 DEF EraseOK, IsErase
        <3> QED BY <1>1, <1>2, <1>4, <3>1 DEF FileSound, EraseDecided, BackedUp
    <2> QED BY <2>1, <2>2
<1>5. CASE f = op.file /\ ~Committing
    <2>1. InPlace(f, cat[f].content)
        BY <1>1, <1>5 DEF EraseOK, IsErase, Committing, Erases, Commands
    <2> QED BY <1>1, <1>5, <2>1 DEF FileSound
<1> QED BY <1>3, <1>4, <1>5

\* The two facts in the next state.
LEMMA WriteSoundNext == TypesOK' /\ MarkersOK' /\ WriteOK' /\ IsWrite' => SoundNow'
BY WriteSound, PTL
LEMMA EraseSoundNext == TypesOK' /\ MarkersOK' /\ EraseOK' /\ IsErase' => SoundNow'
BY EraseSound, PTL

\* It is enough to follow the command itself.
LEMMA WriteGoesOn ==
    ASSUME SessionOK, session = "open", op.kind # "none" \/ replaceTx = NoTx,
           TypesOK', MarkersOK', WriteOK', op'.kind = "write", UNCHANGED <<unlockFailed, stranded>>
    PROVE  Body'
<1>1. SoundNow'
    BY WriteSoundNext DEF IsWrite
<1>2. session' = "open" /\ mem' = cat'
    BY DEF WriteOK
<1>3. SessionOK'
    BY <1>2 DEF SessionOK, SessionKind
<1>4. ReadyOK' /\ EraseOK' /\ RecoverWriteOK' /\ RecoverEraseOK' /\ CollectOK'
    BY DEF ReadyOK, EraseOK, RecoverWriteOK, RecoverEraseOK, CollectOK
<1> QED BY <1>1, <1>3, <1>4 DEF Body, Steps

LEMMA EraseGoesOn ==
    ASSUME SessionOK, session = "open", op.kind # "none" \/ replaceTx = NoTx,
           TypesOK', MarkersOK', EraseOK', op'.kind = "erase", UNCHANGED <<unlockFailed, stranded>>
    PROVE  Body'
<1>1. SoundNow'
    BY EraseSoundNext DEF IsErase
<1>2. session' = "open" /\ mem' = cat'
    BY DEF EraseOK
<1>3. SessionOK'
    BY <1>2 DEF SessionOK, SessionKind
<1>4. ReadyOK' /\ WriteOK' /\ RecoverWriteOK' /\ RecoverEraseOK' /\ CollectOK'
    BY DEF ReadyOK, WriteOK, RecoverWriteOK, RecoverEraseOK, CollectOK
<1> QED BY <1>1, <1>3, <1>4 DEF Body, Steps

(***************************************************************************)
(* Replace and patch.                                                      *)
(***************************************************************************)
\* What a running write may rely on.
LEMMA WriteBase ==
    ASSUME TypesOK, Body, op.kind = "write"
    PROVE  /\ WriteOK /\ SessionOK /\ MarkersOK /\ session = "open" /\ mem = cat
           /\ op \in Writes /\ op.file \in Files /\ op.op \in Ops /\ op.op \in Nat /\ nextOp \in Nat
           /\ op.content \in Contents /\ op.old \in Contents /\ op.undo \in BOOLEAN
           /\ op.idx \subseteq Idx /\ op.todo \subseteq Idx /\ disk \in [Names -> Held]
           /\ ~stranded /\ ~unlockFailed
BY Kinds, CommandFields DEF Body, Steps, WriteOK, SessionOK, SessionKind, TypesOK, Ops

\* The marker of a write does not depend on its progress.
LEMMA SameWriteTx ==
    ASSUME SameCommand(op')
    PROVE  WriteTx' = WriteTx
BY DEF SameCommand, WriteTx

\* A marker may go, and either catalog may become the other.
LEMMA MarkersKept ==
    ASSUME MarkersOK, nextOp' = nextOp,
           replaceTx' = replaceTx \/ replaceTx' = NoTx, eraseTx' = eraseTx \/ eraseTx' = NoTx,
           \A f \in Files : /\ cat'[f] = cat[f] \/ cat'[f] = mem[f]
                            /\ mem'[f] = mem[f] \/ mem'[f] = cat[f]
    PROVE  MarkersOK'
BY DEF MarkersOK, Committing

\* A command has ended, and nothing is left to recover.
LEMMA AllInPlace ==
    ASSUME MarkersOK', session' = "open", op' = NoOp, mem' = cat', ~unlockFailed', ~stranded',
           replaceTx' = NoTx, ~Committing', \A f \in Files : InPlace(f, cat[f].content)'
    PROVE  Body'
<1>1. op'.kind = "none"
    BY DEF NoOp
<1>2. \A f \in Files : FileSound(f, cat[f])' /\ FileSound(f, mem[f])'
    BY DEF FileSound
<1>3. SessionOK' /\ SoundNow' /\ ReadyOK'
    BY <1>1, <1>2 DEF SessionOK, SessionKind, SoundNow, ReadyOK
<1>4. Steps'
    BY <1>1 DEF Steps, WriteOK, EraseOK, RecoverWriteOK, RecoverEraseOK, CollectOK
<1> QED BY <1>3, <1>4 DEF Body

\* The catalog with the new version of the file.
LEMMA SavedFacts ==
    ASSUME TypesOK, op.kind \in {"write", "erase"}
    PROVE  /\ Saved[op.file].rev = op.op /\ Saved[op.file].content = op.content
           /\ \A g \in Files \ {op.file} : Saved[g] = mem[g]
BY CommandFields DEF Saved, TypesOK

\* A replace or a patch begins.
LEMMA BeginWriteBody ==
    ASSUME TypesOK, Body, ~Pending, NEW f \in Files, NEW c \in NewContents(f), BeginWrite(f, c), TypesOK'
    PROVE  Body'
<1>1. /\ op.kind = "none" /\ session = "open" /\ mem = cat /\ SessionOK /\ MarkersOK
      /\ \A g \in Files : InPlace(g, cat[g].content)
    BY DEF BeginWrite, Ready, Body, ReadyOK
<1>2. /\ nextOp \in Ops /\ nextOp \in Nat /\ disk \in [Names -> Held] /\ nextOp' = nextOp + 1
      /\ UNCHANGED <<txVars, cat, mem, session, unlockFailed, stranded>>
    BY FileTxAssumption DEF BeginWrite, TypesOK, Ops, Overlaps
<1>3. cat[f].content \in Contents /\ cat[f].rev \in Nat
    BY VersionFields DEF TypesOK
<1>4. ContentOf(f) = cat[f].content
    BY <1>1, <1>2, <1>3, InPlaceFacts
<1>5. replaceTx = NoTx /\ ~Committing
    BY DEF Pending, Committing
<1>6. /\ op'.kind = "write" /\ op'.pc = "marker" /\ op'.file = f /\ op'.op = nextOp
      /\ op'.content = c /\ op'.idx = Changed(f, c) /\ op'.todo = op'.idx
      /\ op'.old = cat[f].content /\ op'.undo = FALSE
    BY <1>4 DEF BeginWrite
<1>7. /\ Changed(f, c) \subseteq Idx /\ Prefix(c)
      /\ \A i \in Idx \ Changed(f, c) : c[i] = cat[f].content[i]
    BY <1>1 DEF Changed, NewContents
<1>8. /\ \A g \in Files, i \in Idx : disk'[Canon(g, i)] = disk[Canon(g, i)]
      /\ \A i \in Changed(f, c) : disk'[Bak(nextOp, i)] = cat[f].content[i]
    <2>1. disk' = WithBackups(disk, nextOp, Changed(f, c), cat[f].content)
        BY <1>4 DEF BeginWrite
    <2>2. \A i \in Changed(f, c) : cat[f].content[i] \in Held
        BY <1>3, <1>7 DEF Contents
    <2> QED BY <1>2, <1>7, <2>1, <2>2, WithBackupsFacts
<1>9. MarkersOK'
    <2>1. \A g \in Files : cat[g].rev \in Nat /\ mem[g].rev \in Nat
        BY VersionFields DEF TypesOK
    <2>2. eraseTx # NoTx => eraseTx.op \in Nat /\ eraseTx.oldRev \in Nat
        BY MarkerFields DEF Ops
    <2> QED BY <1>1, <1>2, <1>5, <2>1, <2>2 DEF MarkersOK, Committing, txVars
<1>10. WriteOK'
    <2>1. cat[f].rev < nextOp
        BY <1>1 DEF MarkersOK
    <2>2. replaceTx' = NoTx /\ ~Committing' /\ session' = "open" /\ mem' = cat'
        BY <1>1, <1>2, <1>5 DEF txVars, Committing
    <2>3. OthersOK(f)' /\ InPlace(f, cat[f].content)'
        BY <1>1, <1>2, <1>8 DEF OthersOK, InPlace
    <2>4. nextOp < nextOp'
        BY <1>2
    <2> QED BY <1>2, <1>6, <1>7, <1>8, <2>1, <2>2, <2>3, <2>4 DEF WriteOK, BackedUp, InPlace
<1> QED BY <1>1, <1>2, <1>5, <1>6, <1>9, <1>10, WriteGoesOn

\* The marker is written.
LEMMA MarkWriteBody ==
    ASSUME TypesOK, Body, MarkWrite, TypesOK'
    PROVE  Body'
<1>1. op.kind = "write" /\ op.pc = "marker"
    BY DEF MarkWrite
<1>2. /\ WriteOK /\ SessionOK /\ MarkersOK /\ session = "open" /\ op \in Writes /\ op.op \in Nat
      /\ UNCHANGED <<disk, eraseTx, cat, mem, session, nextOp, unlockFailed, stranded>>
    BY <1>1, WriteBase DEF MarkWrite, faultVars
<1>7. CASE op' = NoOp
    <2>1. replaceTx' = replaceTx
        <3>1. op.kind # NoOp.kind
            BY <1>1 DEF NoOp
        <3>2. /\ [op EXCEPT !.pc = "copy"] # NoOp /\ [op EXCEPT !.pc = "giveUp"] # NoOp
              /\ [op EXCEPT !.pc = "undo", !.undo = TRUE] # NoOp
            BY <1>2, <3>1 DEF Writes, Commands
        <3> QED BY <1>7, <3>2 DEF MarkWrite, StagingFails, WriteFails
    <2>2. /\ replaceTx = NoTx /\ mem = cat /\ ~Committing
          /\ OthersOK(op.file) /\ InPlace(op.file, cat[op.file].content)
        BY <1>1, <1>2 DEF WriteOK
    <2>3. MarkersOK' /\ ~Committing' /\ mem' = cat' /\ \A f \in Files : InPlace(f, cat[f].content)'
        BY <1>2, <2>1, <2>2, MarkersKept DEF Committing, OthersOK, InPlace
    <2> QED BY <1>1, <1>2, <1>7, <2>1, <2>2, <2>3, WriteBase, AllInPlace
<1> SUFFICES ASSUME op' # NoOp PROVE Body'
    BY <1>7
<1>3. /\ SameCommand(op') /\ op'.todo = op.todo
      /\ \/ op'.pc = "copy" /\ ~op'.undo /\ replaceTx' = WriteTx
         \/ op'.pc = "undo" /\ op'.undo /\ (replaceTx' = WriteTx \/ replaceTx' = NoTx)
         \/ op'.pc = "giveUp" /\ ~op'.undo /\ (replaceTx' = WriteTx \/ replaceTx' = NoTx)
    <2>1. CASE replaceTx' = WriteTx /\ op' = [op EXCEPT !.pc = "copy"]
        BY <1>1, <1>2, <2>1 DEF WriteOK, Writes, Commands, SameCommand
    <2>2. CASE replaceTx' \in {replaceTx, WriteTx} /\ WriteFails
        BY <1>1, <1>2, <2>2 DEF WriteFails, WriteOK, Writes, Commands, SameCommand
    <2>3. CASE replaceTx' \in {replaceTx, WriteTx} /\ op' = [op EXCEPT !.pc = "giveUp"]
        BY <1>1, <1>2, <2>3 DEF WriteOK, Writes, Commands, SameCommand
    <2> QED BY <2>1, <2>2, <2>3 DEF MarkWrite, StagingFails
<1>4. WriteTx' = WriteTx /\ op'.kind = "write"
    BY <1>1, <1>3, SameWriteTx DEF SameCommand
<1>5. MarkersOK'
    <2>1. WriteTx.op = op.op /\ WriteTx.had \subseteq WriteTx.idx
        BY <1>1, MarkerTypes
    <2>2. op.op < nextOp /\ ~Committing
        BY <1>1, <1>2 DEF WriteOK
    <2> QED BY <1>2, <1>3, <2>1, <2>2 DEF MarkersOK, Committing
<1>6. WriteOK'
    <2>1. /\ OthersOK(op.file)' /\ InPlace(op.file, cat[op.file].content)' /\ ~Committing'
          /\ BackedUp(cat[op.file].content)'
        BY <1>1, <1>2, <1>3 DEF WriteOK, SameCommand, OthersOK, InPlace, BackedUp, Committing
    <2>2. /\ cat[op.file].rev < op.op /\ op.old = cat[op.file].content /\ op.todo = op.idx
          /\ Prefix(op.content) /\ op.op < nextOp /\ mem = cat
          /\ \A i \in Idx \ op.idx : disk[Canon(op.file, i)] = cat[op.file].content[i]
                                    /\ op.content[i] = cat[op.file].content[i]
          /\ InPlace(op.file, cat[op.file].content)
        BY <1>1, <1>2 DEF WriteOK
    <2>3. op.idx \subseteq Idx
        BY <1>1, CommandFields
    <2>4. CASE op'.pc = "copy"
        <3>1. replaceTx' = WriteTx'
            BY <1>3, <1>4, <2>4
        <3> QED BY <1>2, <1>3, <1>4, <2>1, <2>2, <2>3, <2>4, <3>1 DEF WriteOK, SameCommand, InPlace
    <2>5. CASE op'.pc = "undo"
        <3>1. replaceTx' = NoTx \/ replaceTx' = WriteTx'
            BY <1>3, <1>4, <2>5
        <3> QED BY <1>2, <1>3, <1>4, <2>1, <2>2, <2>5, <3>1 DEF WriteOK, SameCommand
    <2>6. CASE op'.pc = "giveUp"
        <3>1. replaceTx' = NoTx \/ replaceTx' = WriteTx'
            BY <1>3, <1>4, <2>6
        <3> QED BY <1>2, <1>3, <1>4, <2>1, <2>2, <2>6, <3>1 DEF WriteOK, SameCommand
    <2> QED BY <1>3, <2>4, <2>5, <2>6
<1> QED BY <1>1, <1>2, <1>4, <1>5, <1>6, WriteGoesOn

\* A patch gives up: its backups go, and its marker may be on disk.
LEMMA GiveUpWriteBody ==
    ASSUME TypesOK, Body, GiveUpWrite, TypesOK'
    PROVE  Body'
<1> DEFINE old == cat[op.file].content
<1>1. op.kind = "write" /\ op.pc = "giveUp" /\ op' = NoOp /\ op'.kind = "none"
    BY DEF GiveUpWrite, NoOp
<1>2. /\ WriteOK /\ SessionOK /\ MarkersOK /\ session = "open" /\ op \in Writes /\ op.op \in Ops
      /\ op.file \in Files /\ disk \in [Names -> Held] /\ mem = cat /\ ~stranded /\ ~unlockFailed
      /\ UNCHANGED <<replaceTx, eraseTx, cat, mem, session, nextOp, unlockFailed>>
      /\ stranded' = (replaceTx = WriteTx)
    BY <1>1, WriteBase DEF GiveUpWrite, txVars
<1>3. /\ ~Committing /\ (replaceTx = NoTx \/ replaceTx = WriteTx)
      /\ OthersOK(op.file) /\ InPlace(op.file, old) /\ op.old = old /\ cat[op.file].rev < op.op
    BY <1>1, <1>2 DEF WriteOK
<1>4. /\ \A i \in Idx : disk'[Bak(op.op, i)] = Absent
      /\ \A g \in Files, i \in Idx : disk'[Canon(g, i)] = disk[Canon(g, i)]
    <2>1. \A i \in Idx : Empty[i] \in Held /\ Empty[i] = Absent
        BY <1>2, ContentFacts DEF Contents
    <2>2. disk' = WithBackups(disk, op.op, Idx, Empty)
        BY DEF GiveUpWrite
    <2> QED BY <1>2, <2>1, <2>2, WithBackupsFacts
<1>5. MarkersOK' /\ ~Committing' /\ mem' = cat' /\ \A f \in Files : InPlace(f, cat[f].content)'
    BY <1>2, <1>3, <1>4, MarkersKept DEF Committing, OthersOK, InPlace
<1>6. CASE replaceTx = NoTx
    <2>1. ~stranded'
        BY <1>1, <1>2, <1>6, MarkerTypes
    <2> QED BY <1>1, <1>2, <1>5, <1>6, <2>1, AllInPlace
<1>7. CASE replaceTx = WriteTx
    <2>1. /\ replaceTx' # NoTx /\ replaceTx'.op = op.op /\ replaceTx'.file = op.file
          /\ replaceTx'.idx = op.idx /\ replaceTx'.had = {i \in op.idx : op.old[i] # Absent}
          /\ op.idx \subseteq Idx
        BY <1>1, <1>2, <1>7, MarkerTypes, CommandFields
    <2>2. stranded' /\ Undone'
        BY <1>2, <1>7 DEF Undone
    <2>3. ASSUME NEW f \in Files, f = op.file
          PROVE  WriteUndoable(f, cat[f].content)'
        <3>1. \A i \in Idx : disk'[Canon(f, i)] = cat'[f].content[i]
            BY <1>5 DEF InPlace
        <3>2. \A i \in op.idx : op.old[i] = cat'[f].content[i]
            BY <1>2, <1>3, <2>3
        <3> QED BY <1>4, <2>1, <2>2, <3>1, <3>2 DEF WriteUndoable
    <2>4. \A f \in Files : FileSound(f, cat[f])' /\ FileSound(f, mem[f])'
        <3> SUFFICES ASSUME NEW f \in Files PROVE FileSound(f, cat[f])' /\ FileSound(f, mem[f])'
            OBVIOUS
        <3>1. CASE f = op.file
            BY <1>2, <1>3, <1>5, <2>1, <2>3, <3>1 DEF FileSound
        <3>2. CASE f # op.file
            BY <1>5, <2>1, <3>2 DEF FileSound
        <3> QED BY <3>1, <3>2
    <2>5. SoundNow' /\ ReadyOK'
        BY <1>5, <2>4 DEF SoundNow, ReadyOK
    <2>6. SessionOK'
        BY <1>1, <1>2, <1>5, <2>1 DEF SessionOK, SessionKind
    <2>7. Steps'
        BY <1>1 DEF Steps, WriteOK, EraseOK, RecoverWriteOK, RecoverEraseOK, CollectOK
    <2> QED BY <1>5, <2>5, <2>6, <2>7 DEF Body
<1> QED BY <1>3, <1>6, <1>7

\* A chunk is written, or the writing fails.
LEMMA CopyChunkBody ==
    ASSUME TypesOK, Body, CopyChunk, TypesOK'
    PROVE  Body'
<1> DEFINE old == cat[op.file].content
           i0 == Least(op.todo)
<1>1. op.kind = "write" /\ op.pc = "copy"
    BY DEF CopyChunk
<1>2. /\ WriteOK /\ SessionOK /\ MarkersOK /\ session = "open" /\ op \in Writes /\ op.op \in Ops
      /\ op.file \in Files /\ op.idx \subseteq Idx /\ op.content \in Contents
      /\ disk \in [Names -> Held] /\ op.todo \in SUBSET Idx
      /\ UNCHANGED <<replaceTx, eraseTx, cat, mem, session, nextOp, unlockFailed, stranded>>
    BY <1>1, WriteBase DEF CopyChunk, faultVars, txVars
<1>3. /\ cat[op.file].rev < op.op /\ op.old = old /\ op.todo \subseteq op.idx
      /\ Prefix(op.content) /\ op.op < nextOp /\ mem = cat /\ replaceTx = WriteTx /\ ~Committing
      /\ ~op.undo
      /\ \A i \in Idx \ op.idx : disk[Canon(op.file, i)] = old[i] /\ op.content[i] = old[i]
      /\ \A i \in op.idx : disk[Canon(op.file, i)] = IF i \in op.todo THEN old[i] ELSE op.content[i]
      /\ \A i \in op.idx : disk[Bak(op.op, i)] = old[i]
      /\ OthersOK(op.file)
    BY <1>1, <1>2 DEF WriteOK, BackedUp
<1>4. /\ SameCommand(op')
      /\ \/ op'.pc = "copy" /\ ~op'.undo /\ op'.todo = op.todo \ {i0} /\ op.todo # {}
            /\ disk' = WithCanon(disk, op.file, {i0}, op.content)
         \/ op'.pc = "undo" /\ op'.undo /\ op'.todo = op.todo /\ disk' = disk
         \/ op'.pc = "save" /\ ~op'.undo /\ op'.todo = {} /\ op.todo = {} /\ disk' = disk
    <2>1. CASE op.todo # {} /\ op' = [op EXCEPT !.todo = @ \ {Least(op.todo)}]
               /\ disk' = WithCanon(disk, op.file, {Least(op.todo)}, op.content)
        BY <1>1, <1>2, <1>3, <2>1 DEF Writes, Commands, SameCommand
    <2>2. CASE WriteFails /\ UNCHANGED disk
        BY <1>2, <2>2 DEF WriteFails, Writes, Commands, SameCommand
    <2>3. CASE op.todo = {} /\ op' = [op EXCEPT !.pc = "save"] /\ UNCHANGED disk
        BY <1>2, <1>3, <2>3 DEF Writes, Commands, SameCommand
    <2> QED BY <2>1, <2>2, <2>3 DEF CopyChunk
<1>5. WriteTx' = WriteTx /\ op'.kind = "write"
    BY <1>1, <1>4, SameWriteTx DEF SameCommand
<1>6. MarkersOK'
    BY <1>2, MarkersKept
<1>7. op.todo # {} => i0 \in op.todo /\ i0 \in Idx
    BY <1>2, LeastFacts
<1> HIDE DEF old, i0
<1>8. /\ \A o \in Ops, i \in Idx : disk'[Bak(o, i)] = disk[Bak(o, i)]
      /\ \A g \in Files, i \in Idx : ~(g = op.file /\ i \in op.todo) => disk'[Canon(g, i)] = disk[Canon(g, i)]
      /\ op'.pc = "copy" => \A i \in Idx : disk'[Canon(op.file, i)] =
                               IF i = i0 THEN op.content[i] ELSE disk[Canon(op.file, i)]
    <2>1. CASE op'.pc = "copy"
        <3>1. op.content[i0] \in Held
            BY <1>4, <1>7, <1>2, <2>1 DEF Contents
        <3>2. /\ \A o \in Ops, i \in Idx : disk'[Bak(o, i)] = disk[Bak(o, i)]
              /\ \A g \in Files, i \in Idx : disk'[Canon(g, i)] =
                    IF g = op.file /\ i \in {i0} THEN op.content[i] ELSE disk[Canon(g, i)]
            BY <1>2, <1>4, <2>1, <3>1, WithCanonFacts
        <3> QED BY <1>2, <1>4, <1>7, <2>1, <3>2, ZenonT(60)
    <2>2. CASE op'.pc # "copy"
        BY <1>4, <2>2
    <2> QED BY <2>1, <2>2
<1>9. /\ OthersOK(op.file)' /\ \A i \in op.idx : disk'[Bak(op.op, i)] = old[i]
      /\ \A i \in Idx \ op.idx : disk'[Canon(op.file, i)] = old[i] /\ op.content[i] = old[i]
    <2>1. OthersOK(op.file)'
        BY <1>2, <1>3, <1>4, <1>8 DEF OthersOK, InPlace, SameCommand
    <2> QED BY <1>2, <1>3, <1>8, <2>1
<1>10. WriteOK'
    <2>1. cat'[op'.file].content = old /\ ~Committing' /\ replaceTx' = WriteTx'
        BY <1>2, <1>3, <1>4, <1>5 DEF SameCommand, Committing, old
    <2>2. CASE op'.pc = "undo"
        BY <1>2, <1>3, <1>4, <1>5, <1>9, <2>1, <2>2, MarkerTypes DEF WriteOK, SameCommand, BackedUp
    <2>3. CASE op'.pc = "copy"
        <3>1. \A i \in op.idx : disk'[Canon(op.file, i)] =
                 IF i \in op.todo \ {i0} THEN old[i] ELSE op.content[i]
            BY <1>2, <1>3, <1>8, <2>3
        <3>2. op'.todo = op.todo \ {i0}
            BY <1>4, <2>3
        <3>3. /\ op'.todo \subseteq op'.idx
              /\ \A i \in op'.idx : disk'[Canon(op'.file, i)] =
                    IF i \in op'.todo THEN old[i] ELSE op'.content[i]
            BY <1>3, <1>4, <3>1, <3>2 DEF SameCommand
        <3>4. SameCommand(op')
            BY <1>4
        <3>5. session' = "open" /\ mem' = cat' /\ op'.op < nextOp' /\ cat'[op'.file].rev < op'.op
            BY <1>2, <1>3, <3>4 DEF SameCommand
        <3>6. op'.old = old /\ Prefix(op'.content) /\ BackedUp(cat[op.file].content)'
            BY <1>3, <1>9, <2>1, <3>4 DEF SameCommand, BackedUp
        <3>7. ~op'.undo
            BY <1>4, <2>3
        <3> QED BY <1>5, <1>9, <2>1, <2>3, <3>3, <3>4, <3>5, <3>6, <3>7 DEF WriteOK, SameCommand
    <2>4. CASE op'.pc = "save"
        BY <1>2, <1>3, <1>4, <1>5, <1>9, <2>1, <2>4 DEF WriteOK, SameCommand, BackedUp
    <2> QED BY <1>4, <2>2, <2>3, <2>4
<1> QED BY <1>1, <1>2, <1>5, <1>6, <1>10, WriteGoesOn

\* The old chunks are put back.
LEMMA UndoWriteBody ==
    ASSUME TypesOK, Body, UndoWrite, TypesOK'
    PROVE  Body'
<1> DEFINE old == cat[op.file].content
<1>1. op.kind = "write" /\ op.pc = "undo"
    BY DEF UndoWrite
<1>2. /\ WriteOK /\ SessionOK /\ MarkersOK /\ session = "open" /\ op \in Writes /\ op.op \in Ops
      /\ op.file \in Files /\ op.idx \in SUBSET Idx /\ op.old \in Contents
      /\ disk \in [Names -> Held]
      /\ UNCHANGED <<replaceTx, eraseTx, cat, mem, session, nextOp, unlockFailed, stranded>>
    BY <1>1, WriteBase DEF UndoWrite, faultVars, txVars
<1>3. /\ cat[op.file].rev < op.op /\ op.old = old /\ op.todo \subseteq op.idx
      /\ Prefix(op.content) /\ op.op < nextOp /\ mem = cat /\ ~Committing
      /\ replaceTx = NoTx \/ replaceTx = WriteTx
      /\ \A i \in Idx \ op.idx : disk[Canon(op.file, i)] = old[i] /\ op.content[i] = old[i]
      /\ \A i \in op.idx : disk[Bak(op.op, i)] = old[i]
      /\ OthersOK(op.file)
    BY <1>1, <1>2 DEF WriteOK, BackedUp
<1>4. SameCommand(op') /\ op'.pc = "clean" /\ op'.todo = op.todo /\ op'.undo = op.undo
    BY <1>2 DEF UndoWrite, Writes, Commands, SameCommand
<1>5. WriteTx' = WriteTx /\ op'.kind = "write"
    BY <1>1, <1>4, SameWriteTx DEF SameCommand
<1>6. MarkersOK'
    BY <1>2, MarkersKept
<1> HIDE DEF old
<1>7. /\ \A o \in Ops, i \in Idx : disk'[Bak(o, i)] = disk[Bak(o, i)]
      /\ \A g \in Files, i \in Idx : disk'[Canon(g, i)] =
            IF g = op.file /\ i \in op.idx THEN op.old[i] ELSE disk[Canon(g, i)]
    <2>1. \A i \in op.idx : op.old[i] \in Held
        BY <1>2 DEF Contents
    <2>2. disk' = WithCanon(disk, op.file, op.idx, op.old)
        BY DEF UndoWrite
    <2> QED BY <1>2, <2>1, <2>2, WithCanonFacts
<1>8. /\ OthersOK(op.file)' /\ \A i \in op.idx : disk'[Bak(op.op, i)] = old[i]
      /\ \A i \in Idx : disk'[Canon(op.file, i)] = old[i]
    <2>1. OthersOK(op.file)'
        BY <1>2, <1>3, <1>4, <1>7 DEF OthersOK, InPlace, SameCommand
    <2> QED BY <1>2, <1>3, <1>7, <2>1
<1>9. WriteOK'
    <2>1. cat'[op'.file].content = old /\ ~Committing' /\ (replaceTx' = NoTx \/ replaceTx' = WriteTx')
        BY <1>2, <1>3, <1>4, <1>5 DEF SameCommand, Committing, old
    <2>2. op.undo
        BY <1>1, <1>2 DEF WriteOK
    <2> QED BY <1>2, <1>3, <1>4, <1>5, <1>8, <2>1, <2>2 DEF WriteOK, SameCommand, BackedUp, InPlace
<1> QED BY <1>1, <1>2, <1>5, <1>6, <1>9, WriteGoesOn

\* The new version is saved, or not, or nobody knows.
LEMMA SaveWriteBody ==
    ASSUME TypesOK, Body, SaveWrite, TypesOK'
    PROVE  Body'
<1> DEFINE old == cat[op.file].content
<1>1. op.kind = "write" /\ op.pc = "save"
    BY DEF SaveWrite
<1>2. /\ WriteOK /\ SessionOK /\ MarkersOK /\ session = "open" /\ op \in Writes /\ op.op \in Nat
      /\ op.file \in Files /\ op.idx \subseteq Idx /\ ~stranded /\ SoundNow
      /\ UNCHANGED <<disk, replaceTx, eraseTx, session, nextOp, unlockFailed, stranded>>
    BY <1>1, WriteBase DEF SaveWrite, faultVars, txVars, Body
<1>3. /\ cat[op.file].rev < op.op /\ op.old = old /\ op.todo = {} /\ ~op.undo
      /\ Prefix(op.content) /\ op.op < nextOp /\ mem = cat /\ replaceTx = WriteTx /\ ~Committing
      /\ \A i \in Idx \ op.idx : disk[Canon(op.file, i)] = old[i] /\ op.content[i] = old[i]
      /\ \A i \in Idx : disk[Canon(op.file, i)] = op.content[i]
      /\ BackedUp(old) /\ OthersOK(op.file)
    BY <1>1, <1>2 DEF WriteOK
<1>4. /\ Saved[op.file].rev = op.op /\ Saved[op.file].content = op.content
      /\ \A g \in Files \ {op.file} : Saved[g] = cat[g]
    BY <1>1, <1>3, SavedFacts
<1>5. WriteTx # NoTx /\ WriteTx.op = op.op /\ WriteTx.file = op.file
    BY <1>1, MarkerTypes
<1>6. \A g \in Files : \A i \in Idx : disk[Canon(g, i)] = Saved[g].content[i]
    BY <1>3, <1>4 DEF OthersOK, InPlace
<1>7. (cat' = cat \/ cat' = Saved) /\ (mem' = mem \/ mem' = Saved) => MarkersOK'
    BY <1>2, <1>3, <1>4 DEF MarkersOK, Committing
<1>8. CASE mem' = Saved /\ cat' = Saved /\ op' = [op EXCEPT !.pc = "clean"]
    <2>1. SameCommand(op') /\ op'.pc = "clean" /\ op'.todo = {} /\ ~op'.undo
        BY <1>2, <1>3, <1>8 DEF Writes, Commands, SameCommand
    <2>2. WriteTx' = WriteTx /\ op'.kind = "write"
        BY <1>1, <2>1, SameWriteTx DEF SameCommand
    <2>3. OthersOK(op.file)' /\ InPlace(op.file, cat[op.file].content)'
        BY <1>2, <1>6, <1>8, <2>1 DEF OthersOK, InPlace, SameCommand
    <2>4. ~Committing' /\ replaceTx' = WriteTx'
        BY <1>2, <1>3, <2>2 DEF Committing
    <2>5. session' = "open" /\ mem' = cat' /\ op'.op < nextOp' /\ cat'[op'.file].rev = op'.op
        BY <1>2, <1>3, <1>4, <1>8, <2>1 DEF SameCommand
    <2>6. WriteOK'
        BY <2>1, <2>2, <2>3, <2>4, <2>5 DEF WriteOK
    <2> QED BY <1>1, <1>2, <1>7, <1>8, <2>2, <2>6, WriteGoesOn
<1>9. CASE UNCHANGED <<mem, cat>> /\ WriteFails
    <2>1. SameCommand(op') /\ op'.pc = "undo" /\ op'.todo = {} /\ op'.undo
        BY <1>2, <1>3, <1>9 DEF WriteFails, Writes, Commands, SameCommand
    <2>2. WriteTx' = WriteTx /\ op'.kind = "write"
        BY <1>1, <2>1, SameWriteTx DEF SameCommand
    <2>3. OthersOK(op.file)' /\ BackedUp(cat[op.file].content)' /\ ~Committing'
        BY <1>2, <1>3, <1>9, <2>1 DEF OthersOK, InPlace, SameCommand, BackedUp, Committing
    <2>4. replaceTx' = WriteTx' /\ replaceTx' # NoTx
        BY <1>2, <1>3, <1>5, <2>2
    <2>5. WriteOK'
        BY <1>2, <1>3, <1>9, <2>1, <2>2, <2>3, <2>4 DEF WriteOK, SameCommand
    <2> QED BY <1>1, <1>2, <1>7, <1>9, <2>2, <2>5, WriteGoesOn
<1>10. CASE mem' = Saved /\ cat' \in {cat, Saved} /\ op' = NoOp
    <2>1. op'.kind = "none"
        BY <1>10 DEF NoOp
    <2>2. SessionOK' /\ Steps'
        BY <1>2, <2>1 DEF SessionOK, SessionKind, Steps, WriteOK, EraseOK, RecoverWriteOK, RecoverEraseOK, CollectOK
    <2>3. \A g \in Files : FileSound(g, mem[g])' /\ InPlace(g, mem[g].content)'
        BY <1>2, <1>3, <1>4, <1>5, <1>6, <1>10 DEF FileSound, InPlace, Committing
    <2>4. ReadyOK'
        BY <1>2, <1>3, <1>5, <2>3 DEF ReadyOK, Pending
    <2>5. SoundNow'
        <3>1. CASE cat' = mem'
            BY <2>3, <3>1 DEF SoundNow, FileSound, InPlace, WriteUndoable, EraseDecided
        <3>2. CASE cat' = cat
            <4>1. ~Undone
                BY <1>1, <1>2 DEF Undone, InRollbackTail
            <4> QED BY <1>2, <1>3, <3>2, <4>1 DEF SoundNow, FileSound, InPlace, WriteUndoable, Committing
        <3> QED BY <1>10, <3>1, <3>2
    <2> QED BY <1>7, <1>10, <2>2, <2>4, <2>5 DEF Body
<1> QED BY <1>8, <1>9, <1>10 DEF SaveWrite

\* The backups are removed.
LEMMA CleanWriteBody ==
    ASSUME TypesOK, Body, CleanWrite, TypesOK'
    PROVE  Body'
<1> DEFINE old == cat[op.file].content
<1>1. op.kind = "write" /\ op.pc = "clean"
    BY DEF CleanWrite
<1>2. /\ WriteOK /\ SessionOK /\ MarkersOK /\ session = "open" /\ op \in Writes /\ op.op \in Ops
      /\ op.file \in Files /\ disk \in [Names -> Held]
      /\ UNCHANGED <<replaceTx, eraseTx, cat, mem, session, nextOp, unlockFailed, stranded>>
    BY <1>1, WriteBase DEF CleanWrite, faultVars, txVars
<1>3. /\ op.op < nextOp /\ mem = cat /\ ~Committing /\ (replaceTx = NoTx \/ replaceTx = WriteTx)
      /\ OthersOK(op.file) /\ InPlace(op.file, old)
      /\ op.undo => /\ cat[op.file].rev < op.op /\ op.old = old /\ op.todo \subseteq op.idx
                    /\ Prefix(op.content)
                    /\ \A i \in Idx \ op.idx : disk[Canon(op.file, i)] = old[i] /\ op.content[i] = old[i]
      /\ ~op.undo => cat[op.file].rev = op.op
    BY <1>1, <1>2 DEF WriteOK
<1>4. SameCommand(op') /\ op'.pc = "drop" /\ op'.todo = op.todo /\ op'.undo = op.undo
    BY <1>2 DEF CleanWrite, Writes, Commands, SameCommand
<1>5. WriteTx' = WriteTx /\ op'.kind = "write"
    BY <1>1, <1>4, SameWriteTx DEF SameCommand
<1>6. MarkersOK'
    BY <1>2, MarkersKept
<1>7. /\ \A i \in Idx : disk'[Bak(op.op, i)] = Absent
      /\ \A g \in Files, i \in Idx : disk'[Canon(g, i)] = disk[Canon(g, i)]
    <2>1. \A i \in Idx : Empty[i] \in Held /\ Empty[i] = Absent
        BY <1>2, ContentFacts DEF Contents
    <2>2. disk' = WithBackups(disk, op.op, Idx, Empty)
        BY DEF CleanWrite
    <2> QED BY <1>2, <2>1, <2>2, WithBackupsFacts
<1>8. OthersOK(op.file)' /\ InPlace(op.file, cat[op.file].content)' /\ Discarded(op.op)'
    BY <1>2, <1>3, <1>4, <1>7 DEF OthersOK, InPlace, SameCommand, Discarded
<1>9. WriteOK'
    <2>1. ~Committing' /\ (replaceTx' = NoTx \/ replaceTx' = WriteTx')
        BY <1>2, <1>3, <1>5 DEF Committing
    <2>2. session' = "open" /\ mem' = cat' /\ op'.op < nextOp'
        BY <1>2, <1>3, <1>4 DEF SameCommand
    <2>3. CASE op.undo
        BY <1>2, <1>3, <1>4, <1>5, <1>7, <1>8, <2>1, <2>2, <2>3 DEF WriteOK, SameCommand
    <2>4. CASE ~op.undo
        BY <1>2, <1>3, <1>4, <1>5, <1>8, <2>1, <2>2, <2>4 DEF WriteOK, SameCommand
    <2> QED BY <2>3, <2>4
<1> QED BY <1>1, <1>2, <1>5, <1>6, <1>9, WriteGoesOn

\* The marker is removed.
LEMMA DropWriteBody ==
    ASSUME TypesOK, Body, DropWrite, TypesOK'
    PROVE  Body'
<1>1. op.kind = "write" /\ op.pc = "drop"
    BY DEF DropWrite
<1>2. /\ WriteOK /\ SessionOK /\ MarkersOK /\ session = "open" /\ op.file \in Files
      /\ UNCHANGED <<disk, eraseTx, cat, mem, session, nextOp, unlockFailed, stranded>>
      /\ ~unlockFailed /\ ~stranded
      /\ replaceTx' = NoTx /\ op' = NoOp
    BY <1>1, WriteBase DEF DropWrite, faultVars
<1>3. /\ mem = cat /\ ~Committing /\ OthersOK(op.file) /\ InPlace(op.file, cat[op.file].content)
    BY <1>1, <1>2 DEF WriteOK
<1>4. MarkersOK'
    BY <1>2, MarkersKept
<1>5. \A f \in Files : InPlace(f, cat[f].content)'
    BY <1>2, <1>3 DEF OthersOK, InPlace
<1>6. ~Committing' /\ mem' = cat'
    BY <1>2, <1>3 DEF Committing
<1> QED BY <1>2, <1>4, <1>5, <1>6, AllInPlace

(***************************************************************************)
(* Erase.                                                                  *)
(***************************************************************************)
\* What a running erase may rely on.
LEMMA EraseBase ==
    ASSUME TypesOK, Body, op.kind = "erase"
    PROVE  /\ EraseOK /\ SessionOK /\ MarkersOK /\ SoundNow /\ session = "open" /\ mem = cat
           /\ op \in Erases /\ op.file \in Files /\ op.op \in Ops /\ op.op \in Nat /\ nextOp \in Nat
           /\ op.content = Empty /\ op.undo \in BOOLEAN /\ replaceTx = NoTx /\ op.op < nextOp
           /\ op.idx \subseteq Idx /\ op.todo \subseteq Idx /\ disk \in [Names -> Held]
           /\ OthersOK(op.file) /\ ~stranded /\ ~unlockFailed
           /\ cat[op.file].content \in Contents /\ cat[op.file].rev \in Nat
BY Kinds, CommandFields, VersionFields DEF Body, Steps, EraseOK, SessionOK, SessionKind, TypesOK, Ops

\* What the erase has not lost: the old version.
Undoable ==
    LET old == cat[op.file].content IN
    /\ cat[op.file].rev < op.op /\ op.todo \subseteq op.idx
    /\ op.idx = {i \in Idx : old[i] # Absent} /\ BackedUp(old)
    /\ \A i \in Idx \ op.idx : disk[Canon(op.file, i)] = Absent

\* An erase begins.
LEMMA BeginEraseBody ==
    ASSUME TypesOK, Body, ~Pending, NEW f \in Files, BeginErase(f), TypesOK'
    PROVE  Body'
<1>1. /\ op.kind = "none" /\ session = "open" /\ mem = cat /\ SessionOK /\ MarkersOK
      /\ \A g \in Files : InPlace(g, cat[g].content)
    BY DEF BeginErase, Ready, Body, ReadyOK
<1>2. /\ nextOp \in Ops /\ nextOp \in Nat /\ disk \in [Names -> Held] /\ nextOp' = nextOp + 1
      /\ UNCHANGED <<txVars, cat, mem, session, unlockFailed, stranded>>
    BY FileTxAssumption DEF BeginErase, TypesOK, Ops, Overlaps
<1>3. cat[f].content \in Contents /\ cat[f].rev \in Nat
    BY VersionFields DEF TypesOK
<1>4. ContentOf(f) = cat[f].content
    BY <1>1, <1>2, <1>3, InPlaceFacts
<1>5. replaceTx = NoTx /\ ~Committing
    BY DEF Pending, Committing
<1>6. /\ op'.kind = "erase" /\ op'.pc = "stage" /\ op'.file = f /\ op'.op = nextOp
      /\ op'.content = Empty /\ op'.idx = Existing(f) /\ op'.todo = op'.idx /\ op'.undo = FALSE
    BY <1>4 DEF BeginErase
<1>7. Existing(f) = {i \in Idx : cat[f].content[i] # Absent}
    <2>1. \A i \in Idx : disk[Canon(f, i)] = cat[f].content[i]
        BY <1>1 DEF InPlace
    <2>2. \A i \in Idx : i \in Nat /\ i \in 1..i /\ 1..i \subseteq Idx
        BY FileTxAssumption DEF Idx
    <2>3. \A i, j \in Idx : i < j /\ cat[f].content[j] # Absent => cat[f].content[i] # Absent
        BY <1>1 DEF MarkersOK, Prefix
    <2>4. \A i \in Idx : \A j \in 1..i : j = i \/ j < i
        BY FileTxAssumption DEF Idx
    <2>5. \A i \in Idx : (\A j \in 1..i : disk[Canon(f, j)] # Absent) <=> cat[f].content[i] # Absent
        BY <2>1, <2>2, <2>3, <2>4
    <2> QED BY <2>5 DEF Existing
<1>8. /\ \A g \in Files, i \in Idx : disk'[Canon(g, i)] = disk[Canon(g, i)]
      /\ \A i \in Existing(f) : disk'[Bak(nextOp, i)] = cat[f].content[i]
    <2>1. disk' = WithBackups(disk, nextOp, Existing(f), cat[f].content)
        BY <1>4 DEF BeginErase
    <2>2. \A i \in Existing(f) : i \in Idx /\ cat[f].content[i] \in Held
        BY <1>3, <1>7 DEF Contents
    <2> QED BY <1>2, <2>1, <2>2, WithBackupsFacts
<1>9. MarkersOK'
    <2>1. \A g \in Files : cat[g].rev \in Nat /\ mem[g].rev \in Nat
        BY VersionFields DEF TypesOK
    <2>2. eraseTx # NoTx => eraseTx.op \in Nat /\ eraseTx.oldRev \in Nat
        BY MarkerFields DEF Ops
    <2> QED BY <1>1, <1>2, <1>5, <2>1, <2>2 DEF MarkersOK, Committing, txVars
<1>10. EraseOK'
    <2>1. cat[f].rev < nextOp
        BY <1>1 DEF MarkersOK
    <2>2. replaceTx' = NoTx /\ ~Committing' /\ session' = "open" /\ mem' = cat'
        BY <1>1, <1>2, <1>5 DEF txVars, Committing
    <2>3. \A g \in Files : InPlace(g, cat[g].content)'
        BY <1>1, <1>2, <1>8 DEF InPlace
    <2>4. nextOp < nextOp'
        BY <1>2
    <2>5. \A i \in Idx \ op'.idx : disk'[Canon(f, i)] = Absent
        BY <1>1, <1>6, <1>7, <1>8 DEF InPlace
    <2>6. BackedUp(cat[op.file].content)'
        BY <1>2, <1>6, <1>8 DEF BackedUp
    <2>7. OthersOK(op.file)' /\ InPlace(op.file, cat[op.file].content)'
        BY <1>6, <2>3 DEF OthersOK
    <2> QED BY <1>2, <1>6, <1>7, <2>1, <2>2, <2>4, <2>5, <2>6, <2>7 DEF EraseOK
<1> QED BY <1>1, <1>2, <1>5, <1>6, <1>9, <1>10, EraseGoesOn

\* The marker is written, first as staging.
LEMMA StageEraseBody ==
    ASSUME TypesOK, Body, StageErase, TypesOK'
    PROVE  Body'
<1>1. op.kind = "erase" /\ op.pc = "stage"
    BY DEF StageErase
<1>2. /\ EraseOK /\ SessionOK /\ MarkersOK /\ session = "open" /\ mem = cat /\ op \in Erases
      /\ op.content = Empty /\ replaceTx = NoTx /\ op.op < nextOp /\ OthersOK(op.file)
      /\ UNCHANGED <<disk, replaceTx, cat, mem, session, nextOp, unlockFailed, stranded>>
    BY <1>1, EraseBase DEF StageErase, faultVars
<1>3. Undoable /\ InPlace(op.file, cat[op.file].content) /\ ~Committing /\ op.todo = op.idx /\ ~op.undo
    BY <1>1, <1>2 DEF EraseOK, Undoable
<1>4. /\ EraseTx("staging") # NoTx /\ EraseTx("staging").op = op.op /\ EraseTx("staging").file = op.file
      /\ EraseTx("staging").idx = op.idx /\ EraseTx("staging").phase = "staging"
      /\ EraseTx("staging").oldRev = cat[op.file].rev
    BY <1>1, <1>2, MarkerTypes
<1>5. /\ SameCommand(op') /\ op'.todo = op.todo
      /\ \/ op'.pc = "commit" /\ ~op'.undo /\ eraseTx' = EraseTx("staging")
         \/ op'.pc = "clean" /\ op'.undo /\ (eraseTx' = eraseTx \/ eraseTx' = EraseTx("staging"))
    BY <1>2, <1>3 DEF StageErase, Erases, Commands, SameCommand
<1>6. ~Committing'
    BY <1>3, <1>4, <1>5 DEF Committing
<1>7. MarkersOK'
    BY <1>2, <1>3, <1>4, <1>5, <1>6 DEF MarkersOK, Undoable
<1>8. Undoable' /\ OthersOK(op.file)' /\ InPlace(op.file, cat[op.file].content)'
    BY <1>2, <1>3, <1>5 DEF Undoable, OthersOK, InPlace, SameCommand, BackedUp
<1>9. /\ op'.kind = "erase" /\ op'.content = Empty /\ replaceTx' = NoTx /\ op'.op < nextOp'
      /\ session' = "open" /\ mem' = cat' /\ op'.todo = op'.idx
    BY <1>1, <1>2, <1>3, <1>5 DEF SameCommand
<1>10. EraseOK'
    <2>1. CASE op'.pc = "commit"
        <3>1. /\ eraseTx' # NoTx /\ eraseTx'.op = op'.op /\ eraseTx'.file = op'.file
              /\ eraseTx'.idx = op'.idx /\ eraseTx'.phase = "staging"
              /\ eraseTx'.oldRev = cat'[op'.file].rev
            BY <1>2, <1>4, <1>5, <2>1 DEF SameCommand
        <3>2. ~op'.undo
            BY <1>5, <2>1
        <3> QED BY <1>8, <1>9, <2>1, <3>1, <3>2 DEF EraseOK, Undoable
    <2>2. CASE op'.pc = "clean"
        <3>1. op'.undo
            BY <1>5, <2>2
        <3> QED BY <1>6, <1>8, <1>9, <2>2, <3>1 DEF EraseOK, Undoable
    <2> QED BY <1>5, <2>1, <2>2
<1> QED BY <1>1, <1>2, <1>7, <1>9, <1>10, EraseGoesOn

\* Then as committing.
LEMMA CommitEraseBody ==
    ASSUME TypesOK, Body, CommitErase, TypesOK'
    PROVE  Body'
<1>1. op.kind = "erase" /\ op.pc = "commit"
    BY DEF CommitErase
<1>2. /\ EraseOK /\ SessionOK /\ MarkersOK /\ session = "open" /\ mem = cat /\ op \in Erases
      /\ op.content = Empty /\ replaceTx = NoTx /\ op.op < nextOp /\ OthersOK(op.file)
      /\ UNCHANGED <<disk, replaceTx, cat, mem, session, nextOp, unlockFailed, stranded>>
    BY <1>1, EraseBase DEF CommitErase, faultVars
<1>3. Undoable /\ InPlace(op.file, cat[op.file].content) /\ op.todo = op.idx /\ ~op.undo
    BY <1>1, <1>2 DEF EraseOK, Undoable
<1>4. /\ EraseTx("committing") # NoTx /\ EraseTx("committing").op = op.op
      /\ EraseTx("committing").file = op.file /\ EraseTx("committing").idx = op.idx
      /\ EraseTx("committing").phase = "committing" /\ EraseTx("committing").oldRev = cat[op.file].rev
    BY <1>1, <1>2, MarkerTypes
<1>5. /\ eraseTx # NoTx /\ eraseTx.op = op.op /\ eraseTx.file = op.file /\ eraseTx.idx = op.idx
      /\ eraseTx.oldRev = cat[op.file].rev
    BY <1>1, <1>2 DEF EraseOK
<1>6. /\ SameCommand(op') /\ op'.todo = op.todo
      /\ \/ op'.pc = "delete" /\ ~op'.undo /\ eraseTx' = EraseTx("committing")
         \/ op'.pc = "drop" /\ op'.undo /\ (eraseTx' = eraseTx \/ eraseTx' = EraseTx("committing"))
    BY <1>2, <1>3 DEF CommitErase, Erases, Commands, SameCommand
<1>7. /\ eraseTx' # NoTx /\ eraseTx'.op = op'.op /\ eraseTx'.file = op'.file /\ eraseTx'.idx = op'.idx
      /\ eraseTx'.oldRev = cat'[op'.file].rev
    BY <1>2, <1>4, <1>5, <1>6 DEF SameCommand
<1>8. Undoable' /\ OthersOK(op.file)' /\ InPlace(op.file, cat[op.file].content)'
    BY <1>2, <1>3, <1>6 DEF Undoable, OthersOK, InPlace, SameCommand, BackedUp
<1>9. /\ op'.kind = "erase" /\ op'.content = Empty /\ replaceTx' = NoTx /\ op'.op < nextOp'
      /\ session' = "open" /\ mem' = cat' /\ op'.todo = op'.idx
    BY <1>1, <1>2, <1>3, <1>6 DEF SameCommand
<1>10. MarkersOK'
    BY <1>2, <1>7, <1>8, <1>9 DEF MarkersOK, Undoable
<1>11. EraseOK'
    <2>1. CASE op'.pc = "delete"
        <3>1. eraseTx'.phase = "committing" /\ ~op'.undo
            BY <1>4, <1>6, <2>1
        <3>2. \A i \in op'.idx : disk'[Canon(op'.file, i)] = cat'[op'.file].content[i]
            BY <1>8 DEF InPlace, Undoable
        <3> QED BY <1>7, <1>8, <1>9, <2>1, <3>1, <3>2 DEF EraseOK, Undoable
    <2>2. CASE op'.pc = "drop"
        <3>1. op'.undo
            BY <1>6, <2>2
        <3> QED BY <1>7, <1>8, <1>9, <2>2, <3>1 DEF EraseOK, Undoable
    <2> QED BY <1>6, <2>1, <2>2
<1> QED BY <1>1, <1>2, <1>9, <1>10, <1>11, EraseGoesOn

\* The marker of a running erase that has committed.
Marked ==
    /\ eraseTx # NoTx /\ eraseTx.op = op.op /\ eraseTx.file = op.file /\ eraseTx.idx = op.idx
    /\ eraseTx.oldRev = cat[op.file].rev /\ eraseTx.phase = "committing"

\* A chunk is deleted, or the deletion fails.
LEMMA EraseChunkBody ==
    ASSUME TypesOK, Body, EraseChunk, TypesOK'
    PROVE  Body'
<1> DEFINE i0 == Least(op.todo)
<1>1. op.kind = "erase" /\ op.pc = "delete"
    BY DEF EraseChunk
<1>2. /\ EraseOK /\ SessionOK /\ MarkersOK /\ session = "open" /\ mem = cat /\ op \in Erases
      /\ op.content = Empty /\ replaceTx = NoTx /\ op.op < nextOp /\ OthersOK(op.file)
      /\ op.file \in Files /\ op.op \in Ops /\ disk \in [Names -> Held] /\ op.todo \in SUBSET Idx
      /\ UNCHANGED <<replaceTx, eraseTx, cat, mem, session, nextOp, unlockFailed, stranded>>
    BY <1>1, EraseBase DEF EraseChunk, faultVars, txVars
<1>3. /\ Undoable /\ Marked /\ ~op.undo
      /\ \A i \in op.idx : disk[Canon(op.file, i)] =
            IF i \in op.todo THEN cat[op.file].content[i] ELSE Absent
    BY <1>1, <1>2 DEF EraseOK, Undoable, Marked
<1>4. /\ SameCommand(op')
      /\ \/ op'.pc = "delete" /\ ~op'.undo /\ op'.todo = op.todo \ {i0} /\ op.todo # {}
            /\ disk' = WithCanon(disk, op.file, {i0}, Empty)
         \/ op'.pc = "undo" /\ op'.undo /\ op'.todo = op.todo /\ disk' = disk
         \/ op'.pc = "save" /\ ~op'.undo /\ op'.todo = {} /\ op.todo = {} /\ disk' = disk
    <2>1. CASE op.todo # {} /\ op' = [op EXCEPT !.todo = @ \ {Least(op.todo)}]
               /\ disk' = WithCanon(disk, op.file, {Least(op.todo)}, Empty)
        BY <1>1, <1>2, <1>3, <2>1 DEF Erases, Commands, SameCommand
    <2>2. CASE WriteFails /\ UNCHANGED disk
        BY <1>2, <2>2 DEF WriteFails, Erases, Commands, SameCommand
    <2>3. CASE op.todo = {} /\ op' = [op EXCEPT !.pc = "save"] /\ UNCHANGED disk
        BY <1>2, <1>3, <2>3 DEF Erases, Commands, SameCommand
    <2> QED BY <2>1, <2>2, <2>3 DEF EraseChunk
<1>5. op.todo # {} => i0 \in op.todo /\ i0 \in Idx
    BY <1>2, LeastFacts
<1> HIDE DEF i0
<1>6. /\ \A o \in Ops, i \in Idx : disk'[Bak(o, i)] = disk[Bak(o, i)]
      /\ \A g \in Files, i \in Idx : ~(g = op.file /\ i \in op.todo) => disk'[Canon(g, i)] = disk[Canon(g, i)]
      /\ op'.pc = "delete" => \A i \in Idx : disk'[Canon(op.file, i)] =
                               IF i = i0 THEN Absent ELSE disk[Canon(op.file, i)]
    <2>1. CASE op'.pc = "delete"
        <3>1. i0 \in Idx /\ Empty[i0] \in Held /\ Empty[i0] = Absent
            BY <1>2, <1>4, <1>5, <2>1, ContentFacts DEF Contents
        <3>2. disk' = WithCanon(disk, op.file, {i0}, Empty)
            BY <1>4, <2>1
        <3>3. /\ \A o \in Ops, i \in Idx : disk'[Bak(o, i)] = disk[Bak(o, i)]
              /\ \A g \in Files, i \in Idx : disk'[Canon(g, i)] =
                    IF g = op.file /\ i \in {i0} THEN Empty[i] ELSE disk[Canon(g, i)]
            BY <1>2, <3>1, <3>2, WithCanonFacts
        <3> QED BY <1>2, <1>4, <1>5, <2>1, <3>1, <3>3, ZenonT(60)
    <2>2. CASE op'.pc # "delete"
        BY <1>4, <2>2
    <2> QED BY <2>1, <2>2
<1>7. SameCommand(op') /\ op'.kind = "erase"
    BY <1>1, <1>4 DEF SameCommand
<1>8. Undoable' /\ OthersOK(op.file)' /\ Marked'
    <2>1. op'.todo \subseteq op'.idx
        BY <1>3, <1>4 DEF SameCommand, Undoable
    <2>2. \A i \in Idx \ op'.idx : disk'[Canon(op'.file, i)] = Absent
        BY <1>2, <1>3, <1>6, <1>7 DEF SameCommand, Undoable
    <2>3. BackedUp(cat[op.file].content)'
        <3>1. op.idx \subseteq Idx
            BY <1>3 DEF Undoable
        <3> QED BY <1>2, <1>3, <1>6, <1>7, <3>1 DEF SameCommand, Undoable, BackedUp
    <2>4. Undoable'
        BY <1>2, <1>3, <1>7, <2>1, <2>2, <2>3 DEF SameCommand, Undoable
    <2>5. OthersOK(op.file)'
        BY <1>2, <1>3, <1>6, <1>7 DEF OthersOK, InPlace, SameCommand
    <2> QED BY <1>2, <1>3, <1>7, <2>4, <2>5 DEF Marked, SameCommand
<1>9. MarkersOK'
    BY <1>2, MarkersKept
<1>10. /\ op'.content = Empty /\ replaceTx' = NoTx /\ op'.op < nextOp' /\ session' = "open" /\ mem' = cat'
    BY <1>1, <1>2, <1>7 DEF SameCommand
<1>11. EraseOK'
    <2>1. CASE op'.pc = "delete"
        <3>1. ~op'.undo /\ op'.todo = op.todo \ {i0}
            BY <1>4, <2>1
        <3>2. \A i \in op'.idx : disk'[Canon(op'.file, i)] =
                 IF i \in op'.todo THEN cat'[op'.file].content[i] ELSE Absent
            BY <1>2, <1>3, <1>6, <1>7, <2>1, <3>1 DEF SameCommand, Undoable
        <3> QED BY <1>7, <1>8, <1>10, <2>1, <3>1, <3>2 DEF EraseOK, Undoable, Marked
    <2>2. CASE op'.pc = "undo"
        <3>1. op'.undo
            BY <1>4, <2>2
        <3> QED BY <1>7, <1>8, <1>10, <2>2, <3>1 DEF EraseOK, Undoable, Marked
    <2>3. CASE op'.pc = "save"
        <3>1. ~op'.undo /\ op'.todo = {} /\ op.todo = {} /\ disk' = disk
            BY <1>4, <2>3
        <3>2. InPlace(op.file, Empty)'
            <4>1. \A i \in Idx : disk[Canon(op.file, i)] = Absent
                BY <1>3, <3>1 DEF Undoable
            <4> QED BY <1>2, <1>7, <3>1, <4>1, ContentFacts DEF InPlace, SameCommand
        <3> QED BY <1>7, <1>8, <1>10, <2>3, <3>1, <3>2 DEF EraseOK, Undoable, Marked
    <2> QED BY <1>4, <2>1, <2>2, <2>3
<1> QED BY <1>1, <1>2, <1>7, <1>9, <1>11, EraseGoesOn

\* The backups put back what the erase has deleted.
LEMMA BackupsRestore ==
    ASSUME TypesOK, Body, op.kind = "erase", Undoable,
           disk' = WithCanon(disk, op.file, op.idx, BackupsOf(op.op))
    PROVE  /\ \A o \in Ops, i \in Idx : disk'[Bak(o, i)] = disk[Bak(o, i)]
           /\ \A g \in Files, i \in Idx : g # op.file => disk'[Canon(g, i)] = disk[Canon(g, i)]
           /\ \A i \in Idx : disk'[Canon(op.file, i)] = cat[op.file].content[i]
<1>1. op.file \in Files /\ op.op \in Ops /\ disk \in [Names -> Held] /\ op.idx \subseteq Idx
    BY EraseBase
<1>2. BackupsOf(op.op) \in Contents /\ \A i \in Idx : BackupsOf(op.op)[i] = disk[Bak(op.op, i)]
    BY <1>1, ContentFacts
<1>3. \A i \in op.idx : BackupsOf(op.op)[i] \in Held
    BY <1>1, <1>2 DEF Contents
<1>4. /\ \A o \in Ops, i \in Idx : disk'[Bak(o, i)] = disk[Bak(o, i)]
      /\ \A g \in Files, i \in Idx : disk'[Canon(g, i)] =
            IF g = op.file /\ i \in op.idx THEN BackupsOf(op.op)[i] ELSE disk[Canon(g, i)]
    BY <1>1, <1>3, WithCanonFacts
<1> QED BY <1>1, <1>2, <1>4 DEF Undoable, BackedUp

\* The deleted chunks are put back.
LEMMA UndoEraseBody ==
    ASSUME TypesOK, Body, UndoErase, TypesOK'
    PROVE  Body'
<1>1. op.kind = "erase" /\ op.pc = "undo"
    BY DEF UndoErase
<1>2. /\ EraseOK /\ SessionOK /\ MarkersOK /\ session = "open" /\ mem = cat /\ op \in Erases
      /\ op.content = Empty /\ replaceTx = NoTx /\ op.op < nextOp /\ OthersOK(op.file)
      /\ op.file \in Files /\ op.op \in Ops /\ op.idx \subseteq Idx
      /\ UNCHANGED <<replaceTx, eraseTx, cat, mem, session, nextOp, unlockFailed, stranded>>
    BY <1>1, EraseBase DEF UndoErase, faultVars, txVars
<1>3. Undoable /\ Marked /\ op.undo
    BY <1>1, <1>2 DEF EraseOK, Undoable, Marked
<1>4. SameCommand(op') /\ op'.pc = "drop" /\ op'.todo = op.todo /\ op'.undo /\ op'.kind = "erase"
    BY <1>1, <1>2, <1>3 DEF UndoErase, Erases, Commands, SameCommand
<1>5. /\ \A o \in Ops, i \in Idx : disk'[Bak(o, i)] = disk[Bak(o, i)]
      /\ \A g \in Files, i \in Idx : g # op.file => disk'[Canon(g, i)] = disk[Canon(g, i)]
      /\ \A i \in Idx : disk'[Canon(op.file, i)] = cat[op.file].content[i]
    BY <1>1, <1>3, BackupsRestore DEF UndoErase
<1>6. Undoable' /\ OthersOK(op.file)' /\ Marked' /\ InPlace(op.file, cat[op.file].content)'
    <2>1. BackedUp(cat[op.file].content)'
        BY <1>2, <1>3, <1>4, <1>5 DEF SameCommand, Undoable, BackedUp
    <2>2. Undoable'
        BY <1>2, <1>3, <1>4, <1>5, <2>1 DEF SameCommand, Undoable
    <2>3. OthersOK(op.file)' /\ InPlace(op.file, cat[op.file].content)'
        BY <1>2, <1>4, <1>5 DEF OthersOK, InPlace, SameCommand
    <2> QED BY <1>2, <1>3, <1>4, <2>2, <2>3 DEF Marked, SameCommand
<1>7. MarkersOK'
    BY <1>2, MarkersKept
<1>8. EraseOK'
    <2>1. /\ op'.content = Empty /\ replaceTx' = NoTx /\ op'.op < nextOp' /\ session' = "open"
          /\ mem' = cat'
        BY <1>2, <1>4 DEF SameCommand
    <2> QED BY <1>4, <1>6, <2>1 DEF EraseOK, Undoable, Marked
<1> QED BY <1>1, <1>2, <1>4, <1>7, <1>8, EraseGoesOn

\* The node without content is saved, or not, or nobody knows.
LEMMA SaveEraseBody ==
    ASSUME TypesOK, Body, SaveErase, TypesOK'
    PROVE  Body'
<1>1. op.kind = "erase" /\ op.pc = "save"
    BY DEF SaveErase
<1>2. /\ EraseOK /\ SessionOK /\ MarkersOK /\ session = "open" /\ mem = cat /\ op \in Erases
      /\ op.content = Empty /\ replaceTx = NoTx /\ op.op < nextOp /\ OthersOK(op.file)
      /\ op.file \in Files /\ op.op \in Ops /\ op.op \in Nat /\ ~stranded /\ disk \in [Names -> Held]
      /\ op.idx \subseteq Idx /\ cat[op.file].rev \in Nat
      /\ UNCHANGED <<replaceTx, eraseTx, session, nextOp, unlockFailed, stranded>>
    BY <1>1, EraseBase DEF SaveErase, faultVars, txVars
<1>3. Undoable /\ Marked /\ ~op.undo /\ InPlace(op.file, Empty) /\ op.todo = {}
    BY <1>1, <1>2 DEF EraseOK, Undoable, Marked
<1>4. /\ Saved[op.file].rev = op.op /\ Saved[op.file].content = Empty
      /\ \A g \in Files \ {op.file} : Saved[g] = cat[g]
    BY <1>1, <1>2, SavedFacts
<1>5. (cat' = cat \/ cat' = Saved) /\ (mem' = mem \/ mem' = Saved) => MarkersOK'
    <2>1. Prefix(Empty)
        BY <1>2, ContentFacts DEF Prefix
    <2> QED BY <1>2, <1>4, <2>1 DEF MarkersOK, Committing
<1>6. CASE mem' = Saved /\ cat' = Saved /\ op' = [op EXCEPT !.pc = "drop"] /\ UNCHANGED disk
    <2>1. SameCommand(op') /\ op'.pc = "drop" /\ ~op'.undo /\ op'.kind = "erase"
        BY <1>1, <1>2, <1>3, <1>6 DEF Erases, Commands, SameCommand
    <2>2. OthersOK(op.file)' /\ InPlace(op.file, cat[op.file].content)'
        BY <1>2, <1>3, <1>4, <1>6, <2>1 DEF OthersOK, InPlace, SameCommand
    <2>3. /\ eraseTx' # NoTx /\ eraseTx'.op = op'.op /\ eraseTx'.file = op'.file
          /\ eraseTx'.idx = op'.idx
        BY <1>2, <1>3, <2>1 DEF SameCommand, Marked
    <2>4. /\ op'.content = Empty /\ replaceTx' = NoTx /\ op'.op < nextOp' /\ session' = "open"
          /\ mem' = cat' /\ cat'[op'.file].rev = op'.op /\ cat'[op'.file].content = Empty
        BY <1>2, <1>4, <1>6, <2>1 DEF SameCommand
    <2>5. EraseOK'
        BY <2>1, <2>2, <2>3, <2>4 DEF EraseOK
    <2> QED BY <1>1, <1>2, <1>5, <1>6, <2>1, <2>5, EraseGoesOn
<1>7. CASE UNCHANGED <<mem, cat, disk>> /\ WriteFails
    <2>1. SameCommand(op') /\ op'.pc = "undo" /\ op'.todo = {} /\ op'.undo /\ op'.kind = "erase"
        BY <1>1, <1>2, <1>3, <1>7 DEF WriteFails, Erases, Commands, SameCommand
    <2>2. OthersOK(op.file)' /\ Marked' /\ Undoable'
        BY <1>2, <1>3, <1>7, <2>1 DEF OthersOK, InPlace, SameCommand, Marked, Undoable, BackedUp
    <2>3. /\ op'.content = Empty /\ replaceTx' = NoTx /\ op'.op < nextOp' /\ session' = "open"
          /\ mem' = cat'
        BY <1>2, <1>7, <2>1 DEF SameCommand
    <2>4. EraseOK'
        BY <2>1, <2>2, <2>3 DEF EraseOK, Undoable, Marked
    <2> QED BY <1>1, <1>2, <1>5, <1>7, <2>1, <2>4, EraseGoesOn
<1>8. CASE /\ disk' = WithCanon(disk, op.file, op.idx, BackupsOf(op.op))
           /\ cat' \in {cat, Saved} /\ mem' = mem /\ op' = NoOp
    <2>1. op'.kind = "none"
        BY <1>8 DEF NoOp
    <2>2. SessionOK' /\ Steps'
        BY <1>2, <2>1 DEF SessionOK, SessionKind, Steps, WriteOK, EraseOK, RecoverWriteOK, RecoverEraseOK, CollectOK
    <2>3. /\ \A o \in Ops, i \in Idx : disk'[Bak(o, i)] = disk[Bak(o, i)]
          /\ \A g \in Files, i \in Idx : g # op.file => disk'[Canon(g, i)] = disk[Canon(g, i)]
          /\ \A i \in Idx : disk'[Canon(op.file, i)] = cat[op.file].content[i]
        BY <1>1, <1>3, <1>8, BackupsRestore
    <2>4. \A g \in Files : \A i \in Idx : disk'[Canon(g, i)] = cat[g].content[i]
        BY <1>2, <2>3 DEF OthersOK, InPlace
    <2>5. \A i \in op.idx : disk'[Bak(op.op, i)] = cat[op.file].content[i]
        BY <1>2, <1>3, <2>3 DEF Undoable, BackedUp
    <2>6. Committing' /\ eraseTx' = eraseTx /\ replaceTx' = NoTx
        BY <1>2, <1>3 DEF Committing, Marked
    <2>7. \A g \in Files : InPlace(g, mem[g].content)'
        BY <1>2, <1>8, <2>4 DEF InPlace
    <2>8. \A i \in Idx \ op.idx : disk'[Canon(op.file, i)] = Absent /\ cat[op.file].content[i] = Absent
        BY <1>3, <2>3 DEF Undoable
    <2>9. \A g \in Files : FileSound(g, mem[g])'
        <3>1. ASSUME NEW g \in Files, g = op.file
              PROVE  EraseDecided(g, mem[g])'
            <4>1. \A i \in op.idx : cat[op.file].content[i] # Absent
                BY <1>3 DEF Undoable
            <4> QED BY <1>2, <1>3, <1>8, <2>5, <2>6, <2>8, <3>1, <4>1 DEF EraseDecided, Marked
        <3> QED BY <1>2, <1>3, <2>6, <2>7, <3>1 DEF FileSound, Marked
    <2>10. ReadyOK'
        BY <2>6, <2>7, <2>9 DEF ReadyOK, Pending, Committing
    <2>11. SoundNow'
        <3>1. CASE cat' = cat
            BY <1>2, <1>8, <2>9, <3>1 DEF SoundNow, FileSound, InPlace, EraseDecided
        <3>2. CASE cat' = Saved
            <4>1. ASSUME NEW g \in Files, g = op.file
                  PROVE  EraseDecided(g, cat[g])'
                <5>1. \A i \in Idx : Empty[i] = Absent
                    BY <1>2, ContentFacts
                <5> QED BY <1>2, <1>3, <1>4, <2>6, <2>8, <3>2, <4>1, <5>1 DEF EraseDecided, Marked
            <4>2. ASSUME NEW g \in Files, g # op.file
                  PROVE  InPlace(g, cat[g].content)'
                BY <1>4, <2>4, <3>2, <4>2 DEF InPlace
            <4> QED BY <1>3, <2>6, <4>1, <4>2 DEF SoundNow, FileSound, Marked
        <3> QED BY <1>8, <3>1, <3>2
    <2> QED BY <1>5, <1>8, <2>2, <2>10, <2>11 DEF Body
<1> QED BY <1>6, <1>7, <1>8 DEF SaveErase

\* The marker is removed.
LEMMA DropEraseBody ==
    ASSUME TypesOK, Body, DropErase, TypesOK'
    PROVE  Body'
<1>1. op.kind = "erase" /\ op.pc = "drop"
    BY DEF DropErase
<1>2. /\ EraseOK /\ SessionOK /\ MarkersOK /\ session = "open" /\ mem = cat /\ op \in Erases
      /\ op.content = Empty /\ replaceTx = NoTx /\ op.op < nextOp /\ OthersOK(op.file)
      /\ UNCHANGED <<disk, replaceTx, cat, mem, session, nextOp, unlockFailed, stranded>>
      /\ eraseTx' = NoTx
    BY <1>1, EraseBase DEF DropErase, faultVars
<1>3. InPlace(op.file, cat[op.file].content) /\ (op.undo => Undoable)
    BY <1>1, <1>2 DEF EraseOK, Undoable
<1>4. /\ SameCommand(op') /\ op'.todo = op.todo /\ op'.pc = "clean" /\ op'.undo = op.undo
      /\ op'.kind = "erase"
    BY <1>1, <1>2 DEF DropErase, Erases, Commands, SameCommand
<1>5. ~Committing' /\ MarkersOK'
    BY <1>2, MarkersKept DEF Committing
<1>6. OthersOK(op.file)' /\ InPlace(op.file, cat[op.file].content)' /\ (op'.undo => Undoable')
    BY <1>2, <1>3, <1>4 DEF Undoable, OthersOK, InPlace, SameCommand, BackedUp
<1>7. /\ op'.content = Empty /\ replaceTx' = NoTx /\ op'.op < nextOp' /\ session' = "open"
      /\ mem' = cat'
    BY <1>2, <1>4 DEF SameCommand
<1>8. EraseOK'
    BY <1>4, <1>5, <1>6, <1>7 DEF EraseOK, Undoable
<1> QED BY <1>1, <1>2, <1>4, <1>5, <1>8, EraseGoesOn

\* The backups are removed.
LEMMA CleanEraseBody ==
    ASSUME TypesOK, Body, CleanErase, TypesOK'
    PROVE  Body'
<1>1. op.kind = "erase" /\ op.pc = "clean"
    BY DEF CleanErase
<1>2. /\ EraseOK /\ SessionOK /\ MarkersOK /\ session = "open" /\ mem = cat /\ op.op \in Ops
      /\ replaceTx = NoTx /\ OthersOK(op.file) /\ op.file \in Files /\ disk \in [Names -> Held]
      /\ UNCHANGED <<eraseTx, replaceTx, cat, mem, session, nextOp, unlockFailed, stranded>>
      /\ ~unlockFailed /\ ~stranded
      /\ op' = NoOp
    BY <1>1, EraseBase DEF CleanErase, faultVars, txVars
<1>3. ~Committing /\ InPlace(op.file, cat[op.file].content)
    BY <1>1, <1>2 DEF EraseOK
<1>4. \A g \in Files, i \in Idx : disk'[Canon(g, i)] = disk[Canon(g, i)]
    <2>1. \A i \in Idx : Empty[i] \in Held
        BY <1>2, ContentFacts DEF Contents
    <2>2. disk' = WithBackups(disk, op.op, Idx, Empty)
        BY DEF CleanErase
    <2> QED BY <1>2, <2>1, <2>2, WithBackupsFacts
<1>5. \A f \in Files : InPlace(f, cat[f].content)'
    BY <1>2, <1>3, <1>4 DEF OthersOK, InPlace
<1>6. ~Committing' /\ mem' = cat' /\ MarkersOK'
    BY <1>2, <1>3, MarkersKept DEF Committing
<1> QED BY <1>2, <1>5, <1>6, AllInPlace

(***************************************************************************)
(* Recovery.                                                               *)
(***************************************************************************)
\* Nothing on disk has changed, and a rollback without backups is still known.
LEMMA SoundKept ==
    ASSUME SoundNow, UNCHANGED <<disk, replaceTx, eraseTx, cat>>, Undone => Undone'
    PROVE  SoundNow'
BY DEF SoundNow, FileSound, WriteUndoable, EraseDecided, InPlace, Committing

\* What a step of the recovery may rely on, and what it owes.
LEMMA RecoveryBase ==
    ASSUME TypesOK, Body, op.kind \in {"recoverWrite", "recoverErase", "recoverGc"}
    PROVE  /\ session = "unlocking" /\ mem = cat /\ ~unlockFailed /\ MarkersOK /\ SoundNow
           /\ RecoverWriteOK /\ RecoverEraseOK /\ CollectOK /\ disk \in [Names -> Held]
           /\ \A f \in Files : cat[f] \in Versions /\ cat[f].rev \in Nat /\ cat[f].content \in Contents
BY VersionFields DEF Body, SessionOK, SessionKind, Steps, TypesOK

LEMMA RecoveryGoesOn ==
    ASSUME MarkersOK', SoundNow', session' = "unlocking", mem' = cat', ~unlockFailed',
           op'.kind \in {"recoverWrite", "recoverErase", "recoverGc"},
           RecoverWriteOK', RecoverEraseOK', CollectOK'
    PROVE  Body'
BY DEF Body, SessionOK, SessionKind, ReadyOK, Steps, WriteOK, EraseOK

\* The unlock is refused because the backups of a rollback are gone.
LEMMA Refused ==
    ASSUME MarkersOK, SoundNow, mem = cat, stranded, RefuseUnlock,
           UNCHANGED <<disk, replaceTx, eraseTx, cat, mem, nextOp>>
    PROVE  Body'
<1>1. op'.kind = "none" /\ op' = NoOp /\ session' = "locked" /\ unlockFailed' /\ stranded'
    BY DEF RefuseUnlock, NoOp
<1>2. SoundNow'
    BY <1>1, SoundKept DEF Undone
<1>3. MarkersOK'
    BY MarkersKept
<1> QED BY <1>1, <1>2, <1>3
    DEF Body, SessionOK, SessionKind, ReadyOK, Steps, WriteOK, EraseOK, RecoverWriteOK, RecoverEraseOK, CollectOK

\* An unlock begins.
LEMMA UnlockBody ==
    ASSUME TypesOK, Body, Unlock
    PROVE  Body'
<1>1. /\ session = "locked" /\ op = NoOp /\ mem = cat /\ MarkersOK /\ SoundNow
      /\ session' = "unlocking" /\ mem' = cat' /\ ~unlockFailed'
      /\ op' = RecoveryStep("recoverWrite", "decide", {})
      /\ UNCHANGED <<disk, replaceTx, eraseTx, cat, mem, nextOp, stranded>>
    BY DEF Unlock, Body, SessionOK, SessionKind, txVars
<1>2. op'.kind = "recoverWrite" /\ op'.pc = "decide"
    BY <1>1 DEF RecoveryStep
<1>3. Undone => Undone'
    BY <1>1 DEF Undone, InRollbackTail, NoOp
<1>4. SoundNow' /\ MarkersOK'
    BY <1>1, <1>3, SoundKept, MarkersKept
<1> QED BY <1>1, <1>2, <1>4, RecoveryGoesOn DEF RecoverWriteOK, RecoverEraseOK, CollectOK

\* The replace marker decides.
LEMMA DecideWriteBody ==
    ASSUME TypesOK, Body, DecideWrite
    PROVE  Body'
<1>1. /\ op.kind = "recoverWrite" /\ op.pc = "decide"
      /\ UNCHANGED <<disk, replaceTx, eraseTx, cat, mem, session, nextOp, unlockFailed, stranded>>
    BY DEF DecideWrite, txVars, faultVars
<1>2. session = "unlocking" /\ mem = cat /\ ~unlockFailed /\ MarkersOK /\ SoundNow
    BY <1>1, RecoveryBase
<1>3. Undone => Undone'
    BY <1>1 DEF Undone, InRollbackTail
<1>4. SoundNow' /\ MarkersOK'
    BY <1>1, <1>2, <1>3, SoundKept, MarkersKept
<1>5. \/ replaceTx = NoTx /\ op'.kind = "recoverErase" /\ op'.pc = "decide"
      \/ op'.kind = "recoverWrite" /\ op'.pc = "clean" /\ ReplaceCommitted
      \/ op'.kind = "recoverWrite" /\ op'.pc = "restore" /\ ~ReplaceCommitted /\ op'.todo = replaceTx.idx
    BY DEF DecideWrite, RecoveryStep
<1>6. ReplaceCommitted' <=> ReplaceCommitted
    BY <1>1 DEF ReplaceCommitted
<1>7. RecoverWriteOK' /\ RecoverEraseOK' /\ CollectOK'
    BY <1>1, <1>5, <1>6 DEF RecoverWriteOK, RecoverEraseOK, CollectOK
<1> QED BY <1>1, <1>2, <1>4, <1>5, <1>7, RecoveryGoesOn

\* What the recovery of a write may rely on.
LEMMA RecoverWriteBase ==
    ASSUME TypesOK, Body, op.kind = "recoverWrite", op.pc # "decide"
    PROVE  /\ replaceTx # NoTx /\ replaceTx.file \in Files /\ replaceTx.op \in Ops /\ ~Committing
           /\ replaceTx.idx \subseteq Idx /\ replaceTx.had \subseteq replaceTx.idx
           /\ \A f \in Files \ {replaceTx.file} : InPlace(f, cat[f].content)
           /\ ReplaceCommitted => InPlace(replaceTx.file, cat[replaceTx.file].content)
           /\ ~ReplaceCommitted => WriteUndoable(replaceTx.file, cat[replaceTx.file].content)
           /\ ReplaceCommitted <=> ~(cat[replaceTx.file].rev < replaceTx.op)
<1>1. /\ replaceTx # NoTx /\ replaceTx.file \in Files /\ replaceTx.op \in Ops
      /\ replaceTx.idx \subseteq Idx
    BY MarkerFields DEF TypesOK
<1>2. /\ ~Committing /\ replaceTx.had \subseteq replaceTx.idx /\ SoundNow /\ mem = cat
      /\ \A f \in Files : cat[f].rev \in Nat
    BY <1>1, RecoveryBase DEF MarkersOK
<1>3. ReplaceCommitted <=> ~(cat[replaceTx.file].rev < replaceTx.op)
    BY <1>1, <1>2 DEF ReplaceCommitted, Ops
<1> QED BY <1>1, <1>2, <1>3 DEF SoundNow, FileSound

\* A chunk is restored, or its backup is missing.
LEMMA RestoreWriteBody ==
    ASSUME TypesOK, Body, RestoreWrite
    PROVE  Body'
<1> DEFINE i0 == Least(op.todo)
           f0 == replaceTx.file
           c0 == cat[replaceTx.file].content
<1>1. /\ op.kind = "recoverWrite" /\ op.pc = "restore" /\ op.todo # {}
      /\ UNCHANGED <<replaceTx, eraseTx, cat, mem, nextOp>>
    BY DEF RestoreWrite, txVars
<1>2. /\ session = "unlocking" /\ mem = cat /\ ~unlockFailed /\ MarkersOK /\ SoundNow
      /\ RecoverWriteOK /\ disk \in [Names -> Held]
      /\ op \in [kind : {"recoverWrite"}, pc : {"decide", "restore", "clean", "drop"}, todo : SUBSET Idx]
    BY <1>1, RecoveryBase, Kinds
<1>3. /\ replaceTx # NoTx /\ f0 \in Files /\ replaceTx.op \in Ops /\ ~Committing
      /\ replaceTx.idx \subseteq Idx /\ replaceTx.had \subseteq replaceTx.idx
      /\ \A f \in Files \ {f0} : InPlace(f, cat[f].content)
      /\ ~ReplaceCommitted => WriteUndoable(f0, c0)
    BY <1>1, RecoverWriteBase
<1>4. /\ ~ReplaceCommitted /\ op.todo \subseteq replaceTx.idx
      /\ \A i \in replaceTx.idx \ op.todo : disk[Canon(f0, i)] = c0[i]
    BY <1>1, <1>2 DEF RecoverWriteOK
<1>5. i0 \in op.todo /\ i0 \in replaceTx.idx /\ i0 \in Idx
    BY <1>1, <1>2, <1>3, <1>4, LeastFacts
<1>6. /\ \A i \in Idx \ replaceTx.idx : disk[Canon(f0, i)] = c0[i]
      /\ \A i \in replaceTx.idx : i \in replaceTx.had <=> c0[i] # Absent
      /\ \/ \A i \in replaceTx.had : disk[Bak(replaceTx.op, i)] = c0[i]
         \/ /\ stranded /\ \A i \in Idx : disk[Canon(f0, i)] = c0[i]
            /\ \A i \in Idx : disk[Bak(replaceTx.op, i)] = Absent
    BY <1>1, <1>3, <1>4 DEF WriteUndoable, Undone, InRollbackTail
<1> HIDE DEF i0, f0, c0
<1>7. CASE /\ i0 \in replaceTx.had => disk[Bak(replaceTx.op, i0)] # Absent
           /\ disk' = WithCanon(disk, f0, {i0},
                                IF i0 \in replaceTx.had THEN BackupsOf(replaceTx.op) ELSE Empty)
           /\ op' = [op EXCEPT !.todo = @ \ {i0}]
           /\ UNCHANGED <<session, faultVars>>
    <2>1. op'.kind = "recoverWrite" /\ op'.pc = "restore" /\ op'.todo = op.todo \ {i0}
        BY <1>1, <1>2, <1>7
    <2>2. /\ \A o \in Ops, i \in Idx : disk'[Bak(o, i)] = disk[Bak(o, i)]
          /\ \A g \in Files, i \in Idx : ~(g = f0 /\ i = i0) => disk'[Canon(g, i)] = disk[Canon(g, i)]
          /\ disk'[Canon(f0, i0)] = IF i0 \in replaceTx.had THEN disk[Bak(replaceTx.op, i0)] ELSE Absent
        <3> DEFINE c == IF i0 \in replaceTx.had THEN BackupsOf(replaceTx.op) ELSE Empty
        <3>1. /\ c[i0] \in Held
              /\ c[i0] = IF i0 \in replaceTx.had THEN disk[Bak(replaceTx.op, i0)] ELSE Absent
            BY <1>2, <1>3, <1>5, ContentFacts DEF Contents
        <3>2. disk' = WithCanon(disk, f0, {i0}, c)
            BY <1>7
        <3> HIDE DEF c
        <3>3. /\ \A o \in Ops, i \in Idx : disk'[Bak(o, i)] = disk[Bak(o, i)]
              /\ \A g \in Files, i \in Idx : disk'[Canon(g, i)] =
                    IF g = f0 /\ i \in {i0} THEN c[i] ELSE disk[Canon(g, i)]
            BY <1>2, <1>3, <3>1, <3>2, WithCanonFacts
        <3> QED BY <1>3, <1>5, <3>1, <3>3
    <2>3. disk'[Canon(f0, i0)] = c0[i0]
        BY <1>5, <1>6, <1>7, <2>2
    <2>4. /\ \A i \in Idx \ replaceTx.idx : disk'[Canon(f0, i)] = c0[i]
          /\ \/ \A i \in replaceTx.had : disk'[Bak(replaceTx.op, i)] = c0[i]
             \/ /\ stranded /\ \A i \in Idx : disk'[Canon(f0, i)] = c0[i]
                /\ \A i \in Idx : disk'[Bak(replaceTx.op, i)] = Absent
        BY <1>3, <1>5, <1>6, <2>2, <2>3
    <2>5. /\ stranded' = stranded /\ ~unlockFailed' /\ session' = "unlocking"
        BY <1>2, <1>7 DEF faultVars
    <2>6. SoundNow'
        <3>1. ASSUME NEW f \in Files, f = f0 PROVE WriteUndoable(f, cat[f].content)'
            BY <1>1, <1>6, <2>4, <2>5, <3>1 DEF WriteUndoable, Undone, f0, c0
        <3>2. ASSUME NEW f \in Files, f # f0 PROVE InPlace(f, cat[f].content)'
            BY <1>1, <1>3, <2>2, <3>2 DEF InPlace
        <3>3. cat[f0].rev < replaceTx.op /\ ~Committing'
            BY <1>1, <1>3, <1>4, RecoverWriteBase DEF Committing, f0
        <3> QED BY <1>1, <1>3, <3>1, <3>2, <3>3 DEF SoundNow, FileSound, f0
    <2>7. RecoverWriteOK'
        <3>1. ~ReplaceCommitted'
            BY <1>1, <1>4 DEF ReplaceCommitted
        <3>2. \A i \in replaceTx'.idx \ op'.todo :
                 disk'[Canon(replaceTx'.file, i)] = cat'[replaceTx'.file].content[i]
            BY <1>1, <1>3, <1>4, <2>1, <2>2, <2>3 DEF f0, c0
        <3>3. op'.todo \subseteq replaceTx'.idx
            BY <1>1, <1>4, <2>1
        <3> QED BY <2>1, <3>1, <3>2, <3>3 DEF RecoverWriteOK
    <2>8. MarkersOK' /\ RecoverEraseOK' /\ CollectOK' /\ mem' = cat'
        BY <1>1, <1>2, <2>1, MarkersKept DEF RecoverEraseOK, CollectOK
    <2> QED BY <2>1, <2>5, <2>6, <2>7, <2>8, RecoveryGoesOn
<1>8. CASE i0 \in replaceTx.had /\ disk[Bak(replaceTx.op, i0)] = Absent /\ RefuseUnlock /\ UNCHANGED disk
    <2>1. stranded
        BY <1>5, <1>6, <1>8
    <2> QED BY <1>1, <1>2, <1>8, <2>1, Refused
<1> QED BY <1>7, <1>8 DEF RestoreWrite, i0, f0

\* The backups are removed.
LEMMA CleanRecoveredWriteBody ==
    ASSUME TypesOK, Body, CleanRecoveredWrite
    PROVE  Body'
<1> DEFINE f0 == replaceTx.file
           c0 == cat[replaceTx.file].content
<1>1. /\ op.kind = "recoverWrite" /\ (op.pc = "clean" \/ (op.pc = "restore" /\ op.todo = {}))
      /\ UNCHANGED <<replaceTx, eraseTx, cat, mem, session, nextOp, unlockFailed, stranded>>
    BY DEF CleanRecoveredWrite, txVars, faultVars
<1>2. /\ session = "unlocking" /\ mem = cat /\ ~unlockFailed /\ MarkersOK
      /\ RecoverWriteOK /\ disk \in [Names -> Held]
      /\ op \in [kind : {"recoverWrite"}, pc : {"decide", "restore", "clean", "drop"}, todo : SUBSET Idx]
    BY <1>1, RecoveryBase, Kinds
<1>3. /\ replaceTx # NoTx /\ f0 \in Files /\ replaceTx.op \in Ops /\ ~Committing
      /\ replaceTx.idx \subseteq Idx /\ replaceTx.had \subseteq replaceTx.idx
      /\ \A f \in Files \ {f0} : InPlace(f, cat[f].content)
      /\ ReplaceCommitted => InPlace(f0, c0)
      /\ ~ReplaceCommitted => WriteUndoable(f0, c0)
      /\ ReplaceCommitted <=> ~(cat[f0].rev < replaceTx.op)
    BY <1>1, RecoverWriteBase
<1>4. InPlace(f0, c0)
    <2>1. CASE op.pc = "clean"
        BY <1>1, <1>2, <1>3, <2>1 DEF RecoverWriteOK
    <2>2. CASE op.pc = "restore"
        BY <1>1, <1>2, <1>3, <2>2 DEF RecoverWriteOK, WriteUndoable, InPlace
    <2> QED BY <1>1, <2>1, <2>2
<1>5. op'.kind = "recoverWrite" /\ op'.pc = "drop"
    BY <1>1, <1>2 DEF CleanRecoveredWrite
<1>6. /\ \A i \in Idx : disk'[Bak(replaceTx.op, i)] = Absent
      /\ \A g \in Files, i \in Idx : disk'[Canon(g, i)] = disk[Canon(g, i)]
    <2>1. \A i \in Idx : Empty[i] \in Held /\ Empty[i] = Absent
        BY <1>2, ContentFacts DEF Contents
    <2>2. disk' = WithBackups(disk, replaceTx.op, Idx, Empty)
        BY DEF CleanRecoveredWrite
    <2> QED BY <1>2, <1>3, <2>1, <2>2, WithBackupsFacts
<1>7. \A f \in Files : InPlace(f, cat[f].content)'
    BY <1>1, <1>3, <1>4, <1>6 DEF InPlace
<1>8. (ReplaceCommitted' <=> ReplaceCommitted) /\ ~Committing'
    BY <1>1, <1>3 DEF ReplaceCommitted, Committing
<1>9. SoundNow'
    <2>1. ASSUME NEW f \in Files, f = f0, ~ReplaceCommitted PROVE WriteUndoable(f, cat[f].content)'
        <3>1. Undone'
            BY <1>5, <1>8, <2>1 DEF Undone, InRollbackTail
        <3>2. \A i \in replaceTx.idx : i \in replaceTx.had <=> c0[i] # Absent
            BY <1>3, <2>1 DEF WriteUndoable
        <3> QED BY <1>1, <1>3, <1>6, <1>7, <2>1, <3>1, <3>2 DEF WriteUndoable, InPlace
    <2> QED BY <1>1, <1>3, <1>7, <1>8, <2>1 DEF SoundNow, FileSound
<1>10. RecoverWriteOK'
    BY <1>1, <1>3, <1>5, <1>6, <1>7 DEF RecoverWriteOK, Discarded
<1>11. MarkersOK' /\ RecoverEraseOK' /\ CollectOK' /\ mem' = cat'
    BY <1>1, <1>2, <1>5, MarkersKept DEF RecoverEraseOK, CollectOK
<1> QED BY <1>1, <1>2, <1>5, <1>9, <1>10, <1>11, RecoveryGoesOn

\* The marker is removed.
LEMMA DropRecoveredWriteBody ==
    ASSUME TypesOK, Body, DropRecoveredWrite
    PROVE  Body'
<1>1. /\ op.kind = "recoverWrite" /\ op.pc = "drop" /\ replaceTx' = NoTx
      /\ UNCHANGED <<disk, eraseTx, cat, mem, session, nextOp, unlockFailed, stranded>>
    BY DEF DropRecoveredWrite, faultVars
<1>2. session = "unlocking" /\ mem = cat /\ ~unlockFailed /\ MarkersOK /\ RecoverWriteOK
    BY <1>1, RecoveryBase
<1>3. /\ ~Committing /\ InPlace(replaceTx.file, cat[replaceTx.file].content)
      /\ \A f \in Files \ {replaceTx.file} : InPlace(f, cat[f].content)
    BY <1>1, <1>2, RecoverWriteBase DEF RecoverWriteOK
<1>4. op'.kind = "recoverErase" /\ op'.pc = "decide"
    BY DEF DropRecoveredWrite, RecoveryStep
<1>5. SoundNow'
    BY <1>1, <1>3 DEF SoundNow, FileSound, InPlace, Committing
<1>6. MarkersOK' /\ RecoverWriteOK' /\ RecoverEraseOK' /\ CollectOK' /\ mem' = cat'
    BY <1>1, <1>2, <1>4, MarkersKept DEF RecoverWriteOK, RecoverEraseOK, CollectOK
<1> QED BY <1>1, <1>2, <1>4, <1>5, <1>6, RecoveryGoesOn

\* What the recovery of an erase may rely on.
LEMMA RecoverEraseBase ==
    ASSUME TypesOK, Body, op.kind = "recoverErase"
    PROVE  /\ session = "unlocking" /\ mem = cat /\ ~unlockFailed /\ MarkersOK /\ SoundNow
           /\ RecoverEraseOK /\ disk \in [Names -> Held] /\ replaceTx = NoTx
           /\ op \in [kind : {"recoverErase"}, pc : {"decide", "delete", "restore", "clean", "drop"},
                      todo : SUBSET Idx]
           /\ op.pc # "decide" => eraseTx # NoTx
           /\ eraseTx # NoTx => /\ eraseTx.file \in Files /\ eraseTx.op \in Ops
                                /\ eraseTx.idx \subseteq Idx /\ eraseTx.phase \in {"staging", "committing"}
                                /\ eraseTx.oldRev < eraseTx.op /\ eraseTx.oldRev \in Nat
                                /\ cat[eraseTx.file] \in Versions
           /\ \A f \in Files : ~(Committing /\ f = eraseTx.file) => InPlace(f, cat[f].content)
           /\ Committing => EraseDecided(eraseTx.file, cat[eraseTx.file])
<1>1. /\ session = "unlocking" /\ mem = cat /\ ~unlockFailed /\ MarkersOK /\ SoundNow
      /\ RecoverEraseOK /\ disk \in [Names -> Held] /\ replaceTx = NoTx
    BY RecoveryBase DEF RecoverEraseOK
<1>2. /\ op \in [kind : {"recoverErase"}, pc : {"decide", "delete", "restore", "clean", "drop"},
                 todo : SUBSET Idx]
      /\ op.pc # "decide" => eraseTx # NoTx
    BY Kinds DEF TypesOK
<1>3. eraseTx # NoTx => /\ eraseTx.file \in Files /\ eraseTx.op \in Ops
                        /\ eraseTx.idx \subseteq Idx /\ eraseTx.phase \in {"staging", "committing"}
                        /\ eraseTx.oldRev < eraseTx.op /\ eraseTx.oldRev \in Nat
                        /\ cat[eraseTx.file] \in Versions
    BY <1>1, MarkerFields, VersionFields DEF MarkersOK, TypesOK
<1>4. /\ \A f \in Files : ~(Committing /\ f = eraseTx.file) => InPlace(f, cat[f].content)
      /\ Committing => EraseDecided(eraseTx.file, cat[eraseTx.file])
    BY <1>1, <1>3 DEF SoundNow, FileSound, Committing
<1> QED BY <1>1, <1>2, <1>3, <1>4

\* The erase marker decides; it always can.
LEMMA DecideEraseBody ==
    ASSUME TypesOK, Body, DecideErase
    PROVE  Body'
<1>1. /\ op.kind = "recoverErase" /\ op.pc = "decide"
      /\ UNCHANGED <<disk, replaceTx, eraseTx, cat, mem, nextOp>>
    BY DEF DecideErase, txVars
<1>2. /\ session = "unlocking" /\ mem = cat /\ ~unlockFailed /\ MarkersOK /\ SoundNow
      /\ replaceTx = NoTx
      /\ op \in [kind : {"recoverErase"}, pc : {"decide", "delete", "restore", "clean", "drop"},
                 todo : SUBSET Idx]
    BY <1>1, RecoverEraseBase
<1>3. \/ ~Committing \/ EraseCommitted \/ EraseNotSaved
    <2>1. Committing => /\ cat[eraseTx.file] \in Versions
                        /\ EraseDecided(eraseTx.file, cat[eraseTx.file])
        BY <1>1, RecoverEraseBase DEF Committing
    <2> QED BY <1>2, <2>1 DEF EraseDecided, EraseCommitted, EraseNotSaved, Versions
<1>4. /\ UNCHANGED <<session, faultVars>>
      /\ \/ eraseTx = NoTx /\ op'.kind = "recoverGc"
         \/ op'.kind = "recoverErase" /\ op'.pc = "clean" /\ eraseTx.phase = "staging"
         \/ /\ op'.kind = "recoverErase" /\ eraseTx.phase = "committing" /\ op'.todo = eraseTx.idx
            /\ (op'.pc = "delete" /\ EraseCommitted) \/ (op'.pc = "restore" /\ EraseNotSaved)
    <2>1. CASE eraseTx = NoTx /\ op' = RecoveryStep("recoverGc", "delete", manifest)
               /\ UNCHANGED <<session, faultVars>>
        BY <2>1 DEF RecoveryStep
    <2>2. CASE eraseTx # NoTx /\ eraseTx.phase = "staging" /\ op' = [op EXCEPT !.pc = "clean"]
               /\ UNCHANGED <<session, faultVars>>
        BY <1>1, <1>2, <2>2
    <2>3. CASE /\ eraseTx.phase = "committing"
               /\ \/ EraseCommitted /\ op' = RecoveryStep("recoverErase", "delete", eraseTx.idx)
                  \/ EraseNotSaved /\ op' = RecoveryStep("recoverErase", "restore", eraseTx.idx)
               /\ UNCHANGED <<session, faultVars>>
        BY <2>3 DEF RecoveryStep
    <2> QED BY <1>3, <2>1, <2>2, <2>3 DEF DecideErase, Committing
<1>5. Undone => Undone'
    BY <1>1, <1>4 DEF Undone, InRollbackTail, faultVars
<1>6. SoundNow' /\ MarkersOK'
    BY <1>1, <1>2, <1>5, SoundKept, MarkersKept
<1>7. (EraseCommitted => EraseCommitted') /\ (EraseNotSaved => EraseNotSaved')
    BY <1>1 DEF EraseCommitted, EraseNotSaved
<1>8. RecoverWriteOK' /\ RecoverEraseOK' /\ CollectOK'
    BY <1>1, <1>2, <1>4, <1>7 DEF RecoverWriteOK, RecoverEraseOK, CollectOK, Committing
<1>9. session' = "unlocking" /\ mem' = cat' /\ ~unlockFailed'
    BY <1>1, <1>2, <1>4 DEF faultVars
<1> QED BY <1>4, <1>6, <1>8, <1>9, RecoveryGoesOn

\* A chunk is deleted or restored, or its backup is missing.
LEMMA RecoverEraseChunkBody ==
    ASSUME TypesOK, Body, RecoverEraseChunk
    PROVE  Body'
<1> DEFINE i0 == Least(op.todo)
           f0 == eraseTx.file
           v0 == cat[eraseTx.file]
           missing == op.pc = "restore" /\ disk[Bak(eraseTx.op, i0)] = Absent
<1>1. /\ op.kind = "recoverErase" /\ op.pc \in {"delete", "restore"} /\ op.todo # {}
      /\ UNCHANGED <<replaceTx, eraseTx, cat, mem, nextOp>>
    BY DEF RecoverEraseChunk, txVars
<1>2. /\ session = "unlocking" /\ mem = cat /\ ~unlockFailed /\ MarkersOK /\ SoundNow
      /\ RecoverEraseOK /\ disk \in [Names -> Held] /\ replaceTx = NoTx
      /\ op \in [kind : {"recoverErase"}, pc : {"decide", "delete", "restore", "clean", "drop"},
                 todo : SUBSET Idx]
      /\ eraseTx # NoTx /\ f0 \in Files /\ eraseTx.op \in Ops /\ eraseTx.idx \subseteq Idx
      /\ eraseTx.oldRev < eraseTx.op /\ eraseTx.oldRev \in Nat
      /\ \A f \in Files \ {f0} : InPlace(f, cat[f].content)
    BY <1>1, RecoverEraseBase
<1>3. /\ eraseTx.phase = "committing" /\ Committing /\ op.todo \subseteq eraseTx.idx
      /\ op.pc = "delete" => /\ v0.rev = eraseTx.op /\ v0.content = Empty
                             /\ \A i \in eraseTx.idx \ op.todo : disk[Canon(f0, i)] = Absent
      /\ op.pc = "restore" => /\ v0.rev = eraseTx.oldRev
                              /\ \A i \in eraseTx.idx \ op.todo : disk[Canon(f0, i)] = v0.content[i]
    BY <1>1, <1>2 DEF RecoverEraseOK, EraseCommitted, EraseNotSaved, Committing
<1>4. i0 \in op.todo /\ i0 \in eraseTx.idx /\ i0 \in Idx
    BY <1>1, <1>2, <1>3, LeastFacts
<1>5. EraseDecided(f0, v0)
    BY <1>1, <1>3, RecoverEraseBase
<1>6. /\ \A i \in Idx \ eraseTx.idx : disk[Canon(f0, i)] = Absent /\ v0.content[i] = Absent
      /\ op.pc = "restore" =>
            /\ \A i \in eraseTx.idx : v0.content[i] # Absent
            /\ \/ \A i \in eraseTx.idx : disk[Bak(eraseTx.op, i)] = v0.content[i]
               \/ /\ stranded /\ \A i \in Idx : disk[Canon(f0, i)] = v0.content[i]
                  /\ \A i \in Idx : disk[Bak(eraseTx.op, i)] = Absent
    <2>1. ~InRollbackTail
        BY <1>1 DEF InRollbackTail
    <2>2. op.pc = "restore" => v0.rev # eraseTx.op
        BY <1>2, <1>3 DEF Ops
    <2> QED BY <1>5, <2>1, <2>2 DEF EraseDecided, Undone
<1> HIDE DEF i0, f0, v0, missing
<1>7. CASE /\ ~missing
           /\ disk' = WithCanon(disk, f0, {i0},
                                IF op.pc = "restore" THEN BackupsOf(eraseTx.op) ELSE Empty)
           /\ op' = [op EXCEPT !.todo = @ \ {i0}]
           /\ UNCHANGED <<session, faultVars>>
    <2>1. op'.kind = "recoverErase" /\ op'.pc = op.pc /\ op'.todo = op.todo \ {i0}
        BY <1>1, <1>2, <1>7
    <2>2. /\ \A o \in Ops, i \in Idx : disk'[Bak(o, i)] = disk[Bak(o, i)]
          /\ \A g \in Files, i \in Idx : ~(g = f0 /\ i = i0) => disk'[Canon(g, i)] = disk[Canon(g, i)]
          /\ disk'[Canon(f0, i0)] = IF op.pc = "restore" THEN disk[Bak(eraseTx.op, i0)] ELSE Absent
        <3> DEFINE c == IF op.pc = "restore" THEN BackupsOf(eraseTx.op) ELSE Empty
        <3>1. /\ c[i0] \in Held
              /\ c[i0] = IF op.pc = "restore" THEN disk[Bak(eraseTx.op, i0)] ELSE Absent
            BY <1>2, <1>4, ContentFacts DEF Contents
        <3>2. disk' = WithCanon(disk, f0, {i0}, c)
            BY <1>7
        <3> HIDE DEF c
        <3>3. /\ \A o \in Ops, i \in Idx : disk'[Bak(o, i)] = disk[Bak(o, i)]
              /\ \A g \in Files, i \in Idx : disk'[Canon(g, i)] =
                    IF g = f0 /\ i \in {i0} THEN c[i] ELSE disk[Canon(g, i)]
            BY <1>2, <3>1, <3>2, WithCanonFacts
        <3> QED BY <1>2, <1>4, <3>1, <3>3
    <2>3. disk'[Canon(f0, i0)] = IF op.pc = "restore" THEN v0.content[i0] ELSE Absent
        BY <1>4, <1>6, <1>7, <2>2 DEF missing
    <2>4. /\ stranded' = stranded /\ ~unlockFailed' /\ session' = "unlocking"
        BY <1>2, <1>7 DEF faultVars
    <2>5. ASSUME NEW f \in Files, f = f0 PROVE EraseDecided(f, cat[f])'
        <3>1. \A i \in Idx \ eraseTx.idx : disk'[Canon(f0, i)] = Absent /\ v0.content[i] = Absent
            BY <1>2, <1>4, <1>6, <2>2
        <3>2. CASE op.pc = "delete"
            BY <1>1, <1>3, <2>5, <3>1, <3>2 DEF EraseDecided, v0, f0
        <3>3. CASE op.pc = "restore"
            <4>1. \/ \A i \in eraseTx.idx : disk'[Bak(eraseTx.op, i)] = v0.content[i]
                  \/ /\ stranded /\ \A i \in Idx : disk'[Canon(f0, i)] = v0.content[i]
                     /\ \A i \in Idx : disk'[Bak(eraseTx.op, i)] = Absent
                BY <1>2, <1>4, <1>6, <2>2, <2>3, <3>3
            <4> QED BY <1>1, <1>3, <1>6, <2>4, <2>5, <3>1, <3>3, <4>1 DEF EraseDecided, Undone, v0, f0
        <3> QED BY <1>1, <3>2, <3>3
    <2>6. ASSUME NEW f \in Files, f # f0 PROVE InPlace(f, cat[f].content)'
        BY <1>1, <1>2, <2>2, <2>6 DEF InPlace
    <2>7. Committing'
        BY <1>1, <1>3 DEF Committing
    <2>8. SoundNow'
        BY <1>1, <1>2, <2>5, <2>6, <2>7 DEF SoundNow, FileSound, f0
    <2>9. RecoverEraseOK'
        <3>1. op'.todo \subseteq eraseTx'.idx /\ replaceTx' = NoTx /\ eraseTx'.phase = "committing"
            BY <1>1, <1>2, <1>3, <2>1
        <3>2. CASE op.pc = "delete"
            <4>1. EraseCommitted'
                BY <1>1, <1>2, <3>2 DEF RecoverEraseOK, EraseCommitted
            <4>2. \A i \in eraseTx'.idx \ op'.todo : disk'[Canon(eraseTx'.file, i)] = Absent
                BY <1>1, <1>2, <1>3, <2>1, <2>2, <2>3, <3>2 DEF f0
            <4> QED BY <2>1, <3>1, <3>2, <4>1, <4>2 DEF RecoverEraseOK
        <3>3. CASE op.pc = "restore"
            <4>1. EraseNotSaved'
                BY <1>1, <1>2, <3>3 DEF RecoverEraseOK, EraseNotSaved
            <4>2. \A i \in eraseTx'.idx \ op'.todo :
                     disk'[Canon(eraseTx'.file, i)] = cat'[eraseTx'.file].content[i]
                BY <1>1, <1>2, <1>3, <2>1, <2>2, <2>3, <3>3 DEF f0, v0
            <4> QED BY <2>1, <3>1, <3>3, <4>1, <4>2 DEF RecoverEraseOK
        <3> QED BY <1>1, <3>2, <3>3
    <2>10. MarkersOK' /\ RecoverWriteOK' /\ CollectOK' /\ mem' = cat'
        BY <1>1, <1>2, <2>1, MarkersKept DEF RecoverWriteOK, CollectOK
    <2> QED BY <2>1, <2>4, <2>8, <2>9, <2>10, RecoveryGoesOn
<1>8. CASE missing /\ RefuseUnlock /\ UNCHANGED disk
    <2>1. stranded
        BY <1>4, <1>6, <1>8 DEF missing
    <2> QED BY <1>1, <1>2, <1>8, <2>1, Refused
<1> QED BY <1>7, <1>8 DEF RecoverEraseChunk, i0, f0, missing

\* The backups are removed.
LEMMA CleanRecoveredEraseBody ==
    ASSUME TypesOK, Body, CleanRecoveredErase
    PROVE  Body'
<1> DEFINE f0 == eraseTx.file
           v0 == cat[eraseTx.file]
<1>1. /\ op.kind = "recoverErase" /\ op.pc \notin {"decide", "drop"} /\ op.todo = {}
      /\ UNCHANGED <<replaceTx, eraseTx, cat, mem, session, nextOp, unlockFailed, stranded>>
    BY DEF CleanRecoveredErase, txVars, faultVars
<1>2. /\ session = "unlocking" /\ mem = cat /\ ~unlockFailed /\ MarkersOK
      /\ RecoverEraseOK /\ disk \in [Names -> Held] /\ replaceTx = NoTx
      /\ op \in [kind : {"recoverErase"}, pc : {"decide", "delete", "restore", "clean", "drop"},
                 todo : SUBSET Idx]
      /\ eraseTx # NoTx /\ f0 \in Files /\ eraseTx.op \in Ops /\ eraseTx.idx \subseteq Idx
      /\ \A f \in Files : ~(Committing /\ f = f0) => InPlace(f, cat[f].content)
      /\ Committing => EraseDecided(f0, v0)
    BY <1>1, RecoverEraseBase
<1>3. op.pc \in {"clean", "delete", "restore"}
    BY <1>1, <1>2
<1>4. InPlace(f0, v0.content)
    <2>1. CASE op.pc = "clean"
        BY <1>1, <1>2, <2>1 DEF RecoverEraseOK, Committing
    <2>2. CASE op.pc = "delete"
        <3>1. /\ Committing /\ v0.content = Empty /\ \A i \in eraseTx.idx : disk[Canon(f0, i)] = Absent
            BY <1>1, <1>2, <2>2 DEF RecoverEraseOK, EraseCommitted, Committing
        <3>2. \A i \in Idx : disk[Canon(f0, i)] = Absent
            BY <1>2, <3>1 DEF EraseDecided
        <3> QED BY <1>2, <3>1, <3>2, ContentFacts DEF InPlace
    <2>3. CASE op.pc = "restore"
        <3>1. Committing /\ \A i \in eraseTx.idx : disk[Canon(f0, i)] = v0.content[i]
            BY <1>1, <1>2, <2>3 DEF RecoverEraseOK, Committing
        <3> QED BY <1>2, <3>1 DEF EraseDecided, InPlace
    <2> QED BY <1>3, <2>1, <2>2, <2>3
<1>5. op'.kind = "recoverErase" /\ op'.pc = "drop"
    BY <1>1, <1>2 DEF CleanRecoveredErase
<1>6. /\ \A i \in Idx : disk'[Bak(eraseTx.op, i)] = Absent
      /\ \A g \in Files, i \in Idx : disk'[Canon(g, i)] = disk[Canon(g, i)]
    <2>1. \A i \in Idx : Empty[i] \in Held /\ Empty[i] = Absent
        BY <1>2, ContentFacts DEF Contents
    <2>2. disk' = WithBackups(disk, eraseTx.op, Idx, Empty)
        BY DEF CleanRecoveredErase
    <2> QED BY <1>2, <2>1, <2>2, WithBackupsFacts
<1>7. \A f \in Files : InPlace(f, cat[f].content)'
    BY <1>1, <1>2, <1>4, <1>6 DEF InPlace
<1>8. Committing' <=> Committing
    BY <1>1 DEF Committing
<1>9. ASSUME NEW f \in Files, f = f0, Committing PROVE EraseDecided(f, cat[f])'
    <2>1. \A i \in Idx \ eraseTx.idx : disk'[Canon(f0, i)] = Absent /\ v0.content[i] = Absent
        BY <1>2, <1>6, <1>9 DEF EraseDecided
    <2>2. CASE v0.rev = eraseTx.op /\ v0.content = Empty
        BY <1>1, <1>9, <2>1, <2>2 DEF EraseDecided
    <2>3. CASE v0.rev = eraseTx.oldRev /\ \A i \in eraseTx.idx : v0.content[i] # Absent
        <3>1. Undone'
            BY <1>1, <1>2, <1>5, <1>9, <2>3 DEF Undone, InRollbackTail, EraseNotSaved, Committing
        <3>2. \A i \in Idx : disk'[Canon(f, i)] = cat'[f].content[i]
            BY <1>7 DEF InPlace
        <3> QED BY <1>1, <1>6, <1>9, <2>1, <2>3, <3>1, <3>2 DEF EraseDecided
    <2> QED BY <1>2, <1>9, <2>2, <2>3 DEF EraseDecided
<1>10. SoundNow'
    BY <1>1, <1>2, <1>7, <1>8, <1>9 DEF SoundNow, FileSound
<1>11. RecoverEraseOK'
    BY <1>1, <1>2, <1>5, <1>6, <1>7 DEF RecoverEraseOK, Discarded
<1>12. MarkersOK' /\ RecoverWriteOK' /\ CollectOK' /\ mem' = cat'
    BY <1>1, <1>2, <1>5, MarkersKept DEF RecoverWriteOK, CollectOK
<1> QED BY <1>1, <1>2, <1>5, <1>10, <1>11, <1>12, RecoveryGoesOn

\* The marker is removed.
LEMMA DropRecoveredEraseBody ==
    ASSUME TypesOK, Body, DropRecoveredErase
    PROVE  Body'
<1>1. /\ op.kind = "recoverErase" /\ op.pc = "drop" /\ eraseTx' = NoTx
      /\ UNCHANGED <<disk, replaceTx, cat, mem, session, nextOp, unlockFailed, stranded>>
    BY DEF DropRecoveredErase, faultVars
<1>2. /\ session = "unlocking" /\ mem = cat /\ ~unlockFailed /\ MarkersOK /\ replaceTx = NoTx
      /\ InPlace(eraseTx.file, cat[eraseTx.file].content)
      /\ \A f \in Files : ~(Committing /\ f = eraseTx.file) => InPlace(f, cat[f].content)
    BY <1>1, RecoverEraseBase DEF RecoverEraseOK
<1>3. op'.kind = "recoverGc"
    BY DEF DropRecoveredErase, RecoveryStep
<1>4. SoundNow' /\ ~Committing'
    BY <1>1, <1>2 DEF SoundNow, FileSound, InPlace, Committing
<1>5. MarkersOK' /\ RecoverWriteOK' /\ RecoverEraseOK' /\ CollectOK' /\ mem' = cat'
    BY <1>1, <1>2, <1>3, <1>4, MarkersKept DEF RecoverWriteOK, RecoverEraseOK, CollectOK
<1> QED BY <1>1, <1>2, <1>3, <1>4, <1>5, RecoveryGoesOn

(***************************************************************************)
(* Garbage collection, lock, crash.                                        *)
(***************************************************************************)
\* A chunk of a file in place that can be deleted is none of the file's.
LEMMA OnlyGarbage ==
    ASSUME TypesOK, MarkersOK, \A f \in Files : InPlace(f, mem[f].content),
           NEW c \in Candidates, Deletable(c)
    PROVE  c.name[1] # "canon"
<1> SUFFICES ASSUME c.name[1] = "canon" PROVE FALSE
    OBVIOUS
<1>1. c.name \in Names /\ c.name # EraseMarker
    BY DEF Candidates, EraseMarker
<1>2. PICK f \in Files, i \in Idx : c.name = Canon(f, i)
    BY <1>1 DEF Names, Canon
<1>3. mem[f].content \in Contents /\ Prefix(mem[f].content)
    BY VersionFields DEF TypesOK, MarkersOK
<1>4. mem[f].content[i] = Absent
    BY <1>2, <1>3, LiveFacts DEF Deletable
<1>5. disk[Canon(f, i)] = Absent
    BY <1>4 DEF InPlace
<1> QED BY <1>1, <1>2, <1>5 DEF Deletable, At

\* Nothing but the scan changes.
LEMMA BodyFrame ==
    ASSUME Body, UNCHANGED <<disk, replaceTx, eraseTx, cat, mem, session, op, nextOp, unlockFailed,
                             stranded>>
    PROVE  Body'
<1>1. Undone' <=> Undone
    BY DEF Undone, InRollbackTail, ReplaceCommitted, EraseNotSaved
<1>2. SoundNow' /\ MarkersOK' /\ SessionOK'
    BY <1>1, SoundKept, MarkersKept DEF Body, SessionOK, SessionKind
<1>3. ReadyOK'
    BY <1>1 DEF Body, ReadyOK, FileSound, WriteUndoable, EraseDecided, InPlace, Committing, Pending
<1>4. WriteOK'
    <2>1. WriteTx' = WriteTx
        BY DEF WriteTx
    <2> QED BY <2>1 DEF Body, Steps, WriteOK, OthersOK, InPlace, BackedUp, Discarded, Committing
<1>5. EraseOK'
    BY DEF Body, Steps, EraseOK, OthersOK, InPlace, BackedUp, Committing
<1>6. RecoverWriteOK' /\ RecoverEraseOK' /\ CollectOK'
    BY DEF Body, Steps, RecoverWriteOK, RecoverEraseOK, CollectOK, Discarded, InPlace, ReplaceCommitted,
       EraseCommitted, EraseNotSaved, Committing
<1> QED BY <1>2, <1>3, <1>4, <1>5, <1>6 DEF Body, Steps

\* A deletion begins.
LEMMA GcDeleteBody ==
    ASSUME TypesOK, Body, ~Pending, GcDelete
    PROVE  Body'
<1>1. /\ session = "open" /\ op.kind = "none" /\ mem = cat /\ SessionOK /\ MarkersOK /\ SoundNow
      /\ \A f \in Files : InPlace(f, mem[f].content)
    BY DEF GcDelete, Ready, Body, ReadyOK
<1>2. UNCHANGED <<disk, replaceTx, eraseTx, cat, mem, session, nextOp, unlockFailed, stranded>>
    BY DEF GcDelete, Overlaps, txVars
<1>3. op'.kind = "gc" /\ op'.todo = {c \in scan : Deletable(c)}
    BY DEF GcDelete, RecoveryStep
<1>4. \A c \in op'.todo : c.name[1] # "canon"
    BY <1>1, <1>3, OnlyGarbage DEF TypesOK
<1>5. replaceTx' = NoTx /\ ~Committing'
    BY <1>2 DEF Pending, Committing
<1>6. Undone => Undone'
    BY <1>1, <1>2 DEF Undone, InRollbackTail
<1>7. SoundNow' /\ MarkersOK' /\ SessionOK'
    BY <1>1, <1>2, <1>3, <1>5, <1>6, SoundKept, MarkersKept DEF SessionOK, SessionKind
<1>8. CollectOK'
    BY <1>1, <1>2, <1>3, <1>4, <1>5 DEF CollectOK
<1> QED BY <1>3, <1>7, <1>8 DEF Body, ReadyOK, Steps, WriteOK, EraseOK, RecoverWriteOK, RecoverEraseOK

\* What a collection may rely on.
LEMMA GcBase ==
    ASSUME TypesOK, Body, op.kind \in {"gc", "recoverGc"}
    PROVE  /\ mem = cat /\ replaceTx = NoTx /\ ~Committing /\ MarkersOK /\ SessionOK /\ CollectOK
           /\ ~unlockFailed /\ (op.kind = "gc" => ~stranded /\ session = "open")
           /\ \A f \in Files : InPlace(f, cat[f].content)
<1>1. mem = cat /\ replaceTx = NoTx /\ ~Committing /\ MarkersOK /\ SessionOK /\ CollectOK /\ SoundNow
    BY DEF Body, Steps, CollectOK
<1>2. \A f \in Files : InPlace(f, cat[f].content)
    BY <1>1 DEF SoundNow, FileSound
<1> QED BY <1>1, <1>2 DEF SessionOK, SessionKind, CollectOK

\* A deletion.
LEMMA GcDeleteOneBody ==
    ASSUME TypesOK, Body, GcDeleteOne
    PROVE  Body'
<1>1. /\ op.kind \in {"gc", "recoverGc"}
      /\ UNCHANGED <<replaceTx, cat, mem, session, nextOp, unlockFailed, stranded>>
    BY DEF GcDeleteOne, faultVars
<1>2. /\ mem = cat /\ replaceTx = NoTx /\ ~Committing /\ MarkersOK /\ SessionOK /\ CollectOK
      /\ \A f \in Files : InPlace(f, cat[f].content)
    BY <1>1, GcBase
<1>3. op \in Collections /\ op.todo \subseteq Candidates
    BY <1>1, Kinds DEF Collections
<1>4. PICK c \in op.todo :
         /\ IF op.kind = "gc" \/ Deletable(c) THEN DeleteAt(c.name) ELSE UNCHANGED <<disk, eraseTx>>
         /\ op' = [op EXCEPT !.todo = @ \ {c}]
    BY DEF GcDeleteOne
<1>5. op.kind = "gc" \/ Deletable(c) => c.name[1] # "canon"
    BY <1>1, <1>2, <1>3, OnlyGarbage DEF CollectOK
<1>6. c.name \in Names \cup {EraseMarker}
    BY <1>3 DEF Candidates
<1>7. /\ eraseTx' = eraseTx \/ eraseTx' = NoTx
      /\ \A f \in Files, i \in Idx : disk'[Canon(f, i)] = disk[Canon(f, i)]
    BY <1>4, <1>5, <1>6, DeleteTypes
<1>8. op'.kind = op.kind /\ op'.todo \subseteq op.todo
    BY <1>3, <1>4 DEF Collections
<1>9. ~Committing' /\ MarkersOK'
    BY <1>1, <1>2, <1>7, MarkersKept DEF Committing
<1>10. SoundNow'
    <2>1. \A f \in Files : InPlace(f, cat[f].content)'
        BY <1>1, <1>2, <1>7 DEF InPlace
    <2> QED BY <1>1, <1>2, <1>9, <2>1 DEF SoundNow, FileSound
<1>11. CollectOK'
    BY <1>1, <1>2, <1>7, <1>8, <1>9 DEF CollectOK
<1>12. SessionOK'
    BY <1>1, <1>2, <1>8 DEF SessionOK, SessionKind, NoOp
<1> QED BY <1>1, <1>8, <1>9, <1>10, <1>11, <1>12
    DEF Body, ReadyOK, Steps, WriteOK, EraseOK, RecoverWriteOK, RecoverEraseOK

\* A collection ends, and with it a recovery.
LEMMA GcDoneBody ==
    ASSUME TypesOK, Body, GcDone
    PROVE  Body'
<1>1. /\ op.kind \in {"gc", "recoverGc"} /\ op' = NoOp /\ session' = "open"
      /\ stranded' = (op.kind = "gc" /\ stranded)
      /\ UNCHANGED <<disk, replaceTx, eraseTx, cat, mem, nextOp, unlockFailed>>
    BY DEF GcDone, txVars
<1>2. /\ mem = cat /\ replaceTx = NoTx /\ ~Committing /\ MarkersOK /\ ~unlockFailed
      /\ op.kind = "gc" => ~stranded
      /\ \A f \in Files : InPlace(f, cat[f].content)
    BY <1>1, GcBase
<1>3. ~Committing' /\ MarkersOK'
    BY <1>1, <1>2, MarkersKept DEF Committing
<1>4. \A f \in Files : InPlace(f, cat[f].content)'
    BY <1>1, <1>2 DEF InPlace
<1> QED BY <1>1, <1>2, <1>3, <1>4, AllInPlace

\* The vault is locked.
LEMMA LockBody ==
    ASSUME TypesOK, Body, Lock
    PROVE  Body'
<1>1. /\ session = "open" /\ op.kind = "none" /\ SessionOK /\ MarkersOK
      /\ \A f \in Files : FileSound(f, mem[f])
      /\ session' = "locked" /\ cat' = mem
      /\ UNCHANGED <<disk, replaceTx, eraseTx, mem, op, nextOp, unlockFailed, stranded>>
    BY DEF Lock, Ready, Body, ReadyOK, txVars, faultVars
<1>2. op' = NoOp /\ op = NoOp
    BY <1>1, Kinds
<1>3. Undone => Undone'
    BY <1>1 DEF Undone, InRollbackTail
<1>4. SoundNow'
    BY <1>1, <1>3 DEF SoundNow, FileSound, WriteUndoable, EraseDecided, InPlace, Committing
<1>5. MarkersOK'
    BY <1>1, MarkersKept
<1>6. SessionOK'
    BY <1>1, <1>2 DEF SessionOK, SessionKind
<1> QED BY <1>1, <1>4, <1>5, <1>6
    DEF Body, ReadyOK, Steps, WriteOK, EraseOK, RecoverWriteOK, RecoverEraseOK, CollectOK

\* The process stops.
LEMMA CrashBody ==
    ASSUME TypesOK, Body, Crash
    PROVE  Body'
<1>1. /\ session # "locked" /\ session' = "locked" /\ op' = NoOp /\ mem' = cat /\ SessionOK /\ MarkersOK
      /\ SoundNow /\ stranded' = (stranded \/ InRollbackTail)
      /\ UNCHANGED <<disk, replaceTx, eraseTx, cat, nextOp, unlockFailed>>
    BY DEF Crash, Body, txVars
<1>2. op'.kind = "none"
    BY <1>1 DEF NoOp
<1>3. Undone => Undone'
    BY <1>1 DEF Undone
<1>4. SoundNow' /\ MarkersOK' /\ SessionOK'
    BY <1>1, <1>2, <1>3, SoundKept, MarkersKept DEF SessionOK, SessionKind
<1> QED BY <1>1, <1>2, <1>4
    DEF Body, ReadyOK, Steps, WriteOK, EraseOK, RecoverWriteOK, RecoverEraseOK, CollectOK

(***************************************************************************)
(* The invariant.                                                          *)
(***************************************************************************)
\* A running operation goes with the state of the session.
LEMMA SessionKept ==
    ASSUME TypesOK, SessionKind, [Next]_vars
    PROVE  SessionKind'
<1>1. CASE \E f \in Files : (\E c \in NewContents(f) : BeginWrite(f, c)) \/ BeginErase(f)
    BY <1>1 DEF BeginWrite, BeginErase, Ready, SessionKind
<1>2. CASE Write
    <2>1. op.kind = "write" /\ session' = session
        BY <1>2 DEF Write, MarkWrite, GiveUpWrite, CopyChunk, UndoWrite, SaveWrite, CleanWrite, DropWrite
    <2>2. op'.kind \in {"write", "none"}
        <3>1. op \in Writes /\ NoOp.kind = "none"
            BY <2>1, Kinds DEF NoOp
        <3>2. CASE MarkWrite \/ CopyChunk \/ UndoWrite
            BY <3>1, <3>2 DEF MarkWrite, CopyChunk, UndoWrite, WriteFails, StagingFails, Writes, Commands
        <3>4. CASE GiveUpWrite
            BY <3>1, <3>4 DEF GiveUpWrite
        <3>3. CASE SaveWrite \/ CleanWrite \/ DropWrite
            BY <3>1, <3>3 DEF SaveWrite, CleanWrite, DropWrite, WriteFails, Writes, Commands
        <3> QED BY <1>2, <3>2, <3>3, <3>4 DEF Write
    <2> QED BY <2>1, <2>2 DEF SessionKind, NoOp
<1>3. CASE Erase
    <2>1. op.kind = "erase" /\ session' = session
        BY <1>3 DEF Erase, StageErase, CommitErase, EraseChunk, UndoErase, SaveErase, DropErase, CleanErase
    <2>2. op'.kind \in {"erase", "none"}
        <3>1. op \in Erases /\ NoOp.kind = "none"
            BY <2>1, Kinds DEF NoOp
        <3>2. CASE StageErase \/ CommitErase
            BY <3>1, <3>2 DEF StageErase, CommitErase, Erases, Commands
        <3>3. CASE EraseChunk \/ UndoErase
            BY <3>1, <3>3 DEF EraseChunk, UndoErase, WriteFails, Erases, Commands
        <3>4. CASE SaveErase \/ DropErase \/ CleanErase
            BY <3>1, <3>4 DEF SaveErase, DropErase, CleanErase, WriteFails, Erases, Commands
        <3> QED BY <1>3, <3>2, <3>3, <3>4 DEF Erase
    <2> QED BY <2>1, <2>2 DEF SessionKind, NoOp
<1>4. CASE Recover
    <2>1. op.kind \in {"recoverWrite", "recoverErase"} /\ session = "unlocking"
        BY <1>4 DEF Recover, DecideWrite, RestoreWrite, CleanRecoveredWrite, DropRecoveredWrite,
           DecideErase, RecoverEraseChunk, CleanRecoveredErase, DropRecoveredErase, SessionKind
    <2>2. \/ session' = "locked" /\ op' = NoOp
          \/ session' = session /\ op'.kind \in {"recoverWrite", "recoverErase", "recoverGc"}
        BY <1>4, <2>1, Kinds DEF Recover, DecideWrite, RestoreWrite, CleanRecoveredWrite,
           DropRecoveredWrite, DecideErase, RecoverEraseChunk, CleanRecoveredErase, DropRecoveredErase,
           RefuseUnlock, RecoveryStep
    <2> QED BY <2>1, <2>2 DEF SessionKind, NoOp
<1>5. CASE Gc
    <2>1. CASE GcScan
        BY <2>1 DEF GcScan, SessionKind
    <2>2. CASE GcDelete
        BY <2>2 DEF GcDelete, Ready, SessionKind, RecoveryStep
    <2>3. CASE GcDeleteOne
        <3>1. op \in Collections
            BY <2>3, Kinds DEF GcDeleteOne
        <3>2. op'.kind = op.kind /\ session' = session
            BY <2>3, <3>1 DEF GcDeleteOne, Collections
        <3> QED BY <2>3, <3>2 DEF GcDeleteOne, SessionKind, NoOp
    <2>4. CASE GcDone
        BY <2>4 DEF GcDone, SessionKind, NoOp
    <2> QED BY <1>5, <2>1, <2>2, <2>3, <2>4 DEF Gc
<1>6. CASE Unlock
    BY <1>6 DEF Unlock, SessionKind, RecoveryStep
<1>7. CASE Lock \/ Crash
    BY <1>7, Kinds DEF Lock, Crash, Ready, SessionKind, NoOp
<1>8. CASE UNCHANGED vars
    BY <1>8 DEF vars, SessionKind
<1> QED BY <1>1, <1>2, <1>3, <1>4, <1>5, <1>6, <1>7, <1>8 DEF Next

\* Every step that does not start over a failed command keeps the files sound.
LEMMA BodyKept ==
    ASSUME TypesOK, TypesOK', Body, ~overlapped', [Next]_vars
    PROVE  Body'
<1>1. CASE \E f \in Files : (\E c \in NewContents(f) : BeginWrite(f, c)) \/ BeginErase(f)
    <2>1. ~Pending
        BY <1>1 DEF BeginWrite, BeginErase, Overlaps
    <2> QED BY <1>1, <2>1, BeginWriteBody, BeginEraseBody
<1>2. CASE Write
    BY <1>2, MarkWriteBody, GiveUpWriteBody, CopyChunkBody, UndoWriteBody, SaveWriteBody, CleanWriteBody,
       DropWriteBody
    DEF Write
<1>3. CASE Erase
    BY <1>3, StageEraseBody, CommitEraseBody, EraseChunkBody, UndoEraseBody, SaveEraseBody, DropEraseBody,
       CleanEraseBody
    DEF Erase
<1>4. CASE Recover
    BY <1>4, DecideWriteBody, RestoreWriteBody, CleanRecoveredWriteBody, DropRecoveredWriteBody,
       DecideEraseBody, RecoverEraseChunkBody, CleanRecoveredEraseBody, DropRecoveredEraseBody
    DEF Recover
<1>5. CASE Gc
    <2>1. CASE GcScan
        BY <2>1, BodyFrame DEF GcScan, txVars, faultVars
    <2>2. CASE GcDelete
        <3>1. ~Pending
            BY <2>2 DEF GcDelete, Overlaps
        <3> QED BY <2>2, <3>1, GcDeleteBody
    <2> QED BY <1>5, <2>1, <2>2, GcDeleteOneBody, GcDoneBody DEF Gc
<1>6. CASE UNCHANGED vars
    BY <1>6, BodyFrame DEF vars, txVars, faultVars
<1> QED BY <1>1, <1>2, <1>3, <1>4, <1>5, <1>6, UnlockBody, LockBody, CrashBody DEF Next

\* An overlap is never forgotten.
LEMMA OverlapStays ==
    ASSUME overlapped, [Next]_vars
    PROVE  overlapped'
<1>1. CASE \E f \in Files : (\E c \in NewContents(f) : BeginWrite(f, c)) \/ BeginErase(f)
    BY <1>1 DEF BeginWrite, BeginErase, Overlaps
<1>2. CASE Write \/ Erase
    BY <1>2 DEF Write, MarkWrite, GiveUpWrite, CopyChunk, UndoWrite, SaveWrite, CleanWrite, DropWrite, Erase, StageErase,
       CommitErase, EraseChunk, UndoErase, SaveErase, DropErase, CleanErase, faultVars
<1>3. CASE Recover
    BY <1>3 DEF Recover, DecideWrite, RestoreWrite, CleanRecoveredWrite, DropRecoveredWrite, DecideErase,
       RecoverEraseChunk, CleanRecoveredErase, DropRecoveredErase, RefuseUnlock, faultVars
<1>4. CASE Gc
    BY <1>4 DEF Gc, GcScan, GcDelete, GcDeleteOne, GcDone, Overlaps, faultVars
<1>5. CASE Unlock \/ Lock \/ Crash \/ UNCHANGED vars
    BY <1>5 DEF Unlock, Lock, Crash, vars, faultVars
<1> QED BY <1>1, <1>2, <1>3, <1>4, <1>5 DEF Next

\* The first state.
LEMMA InitInv == Init => Inv
<1> SUFFICES ASSUME Init PROVE Inv
    OBVIOUS
<1>1. \A f \in Files : /\ cat[f].rev = 0 /\ cat[f] \in Versions
                       /\ \A i \in Idx : cat[f].content[i] = IF i = 1 THEN 0 ELSE Absent
    <2>1. [i \in Idx |-> IF i = 1 THEN 0 ELSE Absent] \in Contents
        BY FileTxAssumption DEF Contents, Held
    <2> QED BY <2>1, FileTxAssumption DEF Init, Versions
<1>2. disk \in [Names -> Held]
    BY FileTxAssumption DEF Init, Held
<1>3. cat \in [Files -> Versions] /\ mem \in [Files -> Versions] /\ mem = cat
    BY <1>1 DEF Init
<1>4. op.kind = "none" /\ op = NoOp
    BY DEF Init, NoOp
<1>5. TypesOK /\ SessionKind
    <2>1. nextOp \in 1..(MaxOps + 1) /\ crashes \in 0..MaxCrashes
        BY FileTxAssumption DEF Init
    <2>2. /\ session = "open" /\ replaceTx = NoTx /\ eraseTx = NoTx /\ scan = {} /\ manifest = {}
          /\ unlockFailed = FALSE /\ stranded = FALSE /\ overlapped = FALSE
        BY DEF Init
    <2> QED BY <1>2, <1>3, <1>4, <2>1, <2>2 DEF TypesOK, SessionKind
<1>6. \A f \in Files : InPlace(f, cat[f].content)
    <2>1. \A f \in Files, i \in Idx : Canon(f, i) \in Names /\ Canon(f, i)[1] = "canon" /\ Canon(f, i)[3] = i
        BY NameFacts DEF Canon
    <2> QED BY <1>1, <2>1 DEF Init, InPlace
<1>7. replaceTx = NoTx /\ eraseTx = NoTx /\ ~Committing /\ session = "open" /\ ~stranded /\ ~unlockFailed
    BY DEF Init, Committing
<1>8. \A f \in Files : FileSound(f, cat[f])
    BY <1>6, <1>7 DEF FileSound
<1>9. SoundNow /\ ReadyOK /\ SessionOK
    BY <1>3, <1>4, <1>5, <1>6, <1>7, <1>8 DEF SoundNow, ReadyOK, SessionOK
<1>10. MarkersOK
    <2>1. \A f \in Files : Prefix(cat[f].content)
        BY <1>1, FileTxAssumption DEF Prefix, Idx
    <2>2. nextOp = 1
        BY DEF Init
    <2> QED BY <1>1, <1>3, <1>7, <2>1, <2>2 DEF MarkersOK
<1>11. Steps
    BY <1>4 DEF Steps, WriteOK, EraseOK, RecoverWriteOK, RecoverEraseOK, CollectOK
<1> QED BY <1>5, <1>9, <1>10, <1>11 DEF Inv, Body

\* Every step.
LEMMA NextInv == Inv /\ [Next]_vars => Inv'
<1> SUFFICES ASSUME Inv, [Next]_vars PROVE Inv'
    OBVIOUS
<1>1. TypesOK' /\ SessionKind'
    BY TypesKept, SessionKept DEF Inv
<1>2. ~overlapped' => Body'
    BY <1>1, OverlapStays, BodyKept DEF Inv
<1> QED BY <1>1, <1>2 DEF Inv

LEMMA Invariance == Spec => []Inv
BY InitInv, NextInv, PTL DEF Spec

(***************************************************************************)
(* What follows.                                                           *)
(***************************************************************************)
\* Every variable has its type; an operation runs in a session that allows it.
THEOREM FileTxTypeCorrect == Spec => []TypeOK
<1>1. Inv => TypeOK
    <2> SUFFICES ASSUME Inv PROVE TypeOK
        OBVIOUS
    <2>1. replaceTx.op \in 0..MaxOps /\ eraseTx.op \in 0..MaxOps
        BY MarkerFields, FileTxAssumption DEF Inv, NoTx, Ops
    <2>2. \A c \in scan \cup manifest : c.name \in Names \cup {EraseMarker} /\ c.held \in Held \ {Absent}
        BY DEF Inv, TypesOK, Candidates
    <2> QED BY <2>1, <2>2 DEF Inv, TypesOK, SessionKind, TypeOK
<1> QED BY <1>1, Invariance, PTL

\* Between two commands the chunks of every file are what its catalog entry says,
\* whatever was interrupted, undone or collected (file_replace_tx.rs, erase_tx.rs,
\* recovery.rs, storage_gc).
THEOREM FilesAreWhatTheCatalogSays == Spec => []ContentMatchesCatalog
<1>1. Inv => ContentMatchesCatalog
    <2> SUFFICES ASSUME Inv, Ready, ~Pending, ~overlapped
                 PROVE  mem = cat /\ \A f \in Files : ContentOf(f) = mem[f].content
        BY DEF ContentMatchesCatalog
    <2>1. mem = cat /\ \A f \in Files : InPlace(f, mem[f].content)
        BY DEF Inv, Body, ReadyOK, Ready
    <2>2. disk \in [Names -> Held] /\ \A f \in Files : mem[f].content \in Contents
        BY VersionFields DEF Inv, TypesOK
    <2> QED BY <2>1, <2>2, InPlaceFacts
<1> QED BY <1>1, Invariance, PTL

\* Marker and backups suffice, at every instant, to bring back the version the
\* durable catalog describes, or that version is in place beside a marker whose
\* backups are gone (restore_file_replace_marker_payload, recover_committing,
\* patch/service.rs).
THEOREM RecoverableAtEveryInstant == Spec => []AlwaysRecoverable
<1>1. Inv => AlwaysRecoverable
    <2> SUFFICES ASSUME Inv, ~overlapped, NEW f \in Files
                 PROVE  \/ Recovered(f) = cat[f].content
                        \/ (InRollbackTail \/ stranded) /\ ContentOf(f) = cat[f].content
        BY DEF AlwaysRecoverable
    <2> DEFINE c == cat[f].content
    <2>1. /\ FileSound(f, cat[f]) /\ disk \in [Names -> Held] /\ c \in Contents /\ cat[f].rev \in Nat
          /\ TypesOK /\ MarkersOK
        BY VersionFields DEF Inv, Body, SoundNow, TypesOK
    <2>2. InPlace(f, c) => ContentOf(f) = c
        BY <2>1, InPlaceFacts
    <2>3. CASE replaceTx # NoTx /\ replaceTx.file = f /\ cat[f].rev < replaceTx.op
        <3>1. WriteUndoable(f, c) /\ replaceTx.idx \subseteq Idx /\ replaceTx.had \subseteq replaceTx.idx
            BY <2>1, <2>3, MarkerFields DEF FileSound, MarkersOK
        <3>2. Recovered(f) =
                 [i \in Idx |-> IF i \in replaceTx.had THEN disk[Bak(replaceTx.op, i)]
                                ELSE IF i \in replaceTx.idx THEN Absent ELSE disk[Canon(f, i)]]
            BY <2>3 DEF Recovered
        <3>3. CASE \A i \in replaceTx.had : disk[Bak(replaceTx.op, i)] = c[i]
            <4>1. \A i \in Idx : Recovered(f)[i] = c[i]
                BY <3>1, <3>2, <3>3 DEF WriteUndoable
            <4> QED BY <2>1, <3>2, <4>1 DEF Contents
        <3>4. CASE Undone /\ \A i \in Idx : disk[Canon(f, i)] = c[i]
            BY <2>2, <3>4 DEF Undone, InPlace
        <3> QED BY <3>1, <3>3, <3>4 DEF WriteUndoable
    <2>4. CASE ~(replaceTx # NoTx /\ replaceTx.file = f /\ cat[f].rev < replaceTx.op)
               /\ Committing /\ eraseTx.file = f
        <3>1. EraseDecided(f, cat[f]) /\ eraseTx.idx \subseteq Idx /\ eraseTx.op \in Nat
              /\ eraseTx.oldRev < eraseTx.op
            BY <2>1, <2>4, MarkerFields DEF FileSound, Committing, MarkersOK, Ops
        <3>2. Recovered(f) =
                 [i \in Idx |-> IF i \notin eraseTx.idx THEN disk[Canon(f, i)]
                                ELSE IF cat[f].rev = eraseTx.op THEN Absent ELSE disk[Bak(eraseTx.op, i)]]
            BY <2>4 DEF Recovered, Committing
        <3>3. CASE cat[f].rev = eraseTx.op /\ c = Empty
            <4>1. \A i \in Idx : Recovered(f)[i] = c[i]
                BY <2>1, <3>1, <3>2, <3>3, ContentFacts DEF EraseDecided
            <4> QED BY <2>1, <3>2, <4>1 DEF Contents
        <3>4. CASE cat[f].rev = eraseTx.oldRev /\ \A i \in eraseTx.idx : disk[Bak(eraseTx.op, i)] = c[i]
            <4>1. \A i \in Idx : Recovered(f)[i] = c[i]
                BY <2>1, <3>1, <3>2, <3>4 DEF EraseDecided
            <4> QED BY <2>1, <3>2, <4>1 DEF Contents
        <3>5. CASE Undone /\ \A i \in Idx : disk[Canon(f, i)] = c[i]
            BY <2>2, <3>5 DEF Undone, InPlace
        <3> QED BY <3>1, <3>3, <3>4, <3>5 DEF EraseDecided
    <2>5. CASE ~(replaceTx # NoTx /\ replaceTx.file = f /\ cat[f].rev < replaceTx.op)
               /\ ~(Committing /\ eraseTx.file = f)
        BY <2>1, <2>2, <2>5 DEF FileSound, Recovered, Committing
    <2> QED BY <2>3, <2>4, <2>5
<1> QED BY <1>1, Invariance, PTL

\* An unlock is refused only over a marker without backups, left by a crash that cut
\* a rollback short or by a patch that could not write its marker, or after commands
\* that started over a failed one (restore_file_replace_marker_payload,
\* patch/service.rs).
THEOREM UnlockIsRefusedOnlyWhenStranded == Spec => []UnlockSucceeds
<1>1. Inv => UnlockSucceeds
    BY DEF Inv, Body, SessionOK, UnlockSucceeds
<1> QED BY <1>1, Invariance, PTL
=============================================================================
