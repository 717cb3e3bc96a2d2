------------------------------ MODULE Restore ------------------------------
(***************************************************************************)
(* Restoring a backup on a device, together with everything that creates,    *)
(* replaces or removes the material a vault is opened with: the vault salt,   *)
(* the pepper in the keystore, the master password material and the erase     *)
(* commands.  A vault key is the salt and the pepper it is derived from; a    *)
(* chunk is the key it is encrypted with, and it is readable while the device *)
(* has that salt and that pepper.                                            *)
(*                                                                         *)
(* format.version is left out: it is created again whenever it is missing.   *)
(***************************************************************************)
EXTENDS MasterMaterial

LOCAL INSTANCE SequencesExt

CONSTANTS
    Backup,         \* the chunks of the backup, in the order they are published
    Own,            \* chunks the user may write
    Password,       \* master passwords
    BackupPassword, \* the one the backup was made with
    B,              \* the salt, pepper and master salt in the backup
    IoErrors,       \* whether a durable step may fail
    MaxFresh,       \* bound on random values in use at a time
    MaxOps, MaxCrashes, MaxErrors   \* bounds on commands, crashes and failures

ASSUME RestoreAssumption ==
    BackupPassword \in Password /\ Own \cap ToSet(Backup) = {} /\ B \notin 1..MaxFresh

VARIABLES
    disk,       \* chunks and artifacts on the device, the pepper included
    session,    \* the restore session of the router: the chunks it uploaded
    unlocked,   \* the key of the unlocked vault
    cmd,        \* the command being executed, or None
    mine,       \* chunks with data the user was told is stored
    gone,       \* chunks the user removed since
    lost,       \* chunks whose data became unreadable
    known,      \* master passwords one of which the user was last told is set
    harm,       \* known hazards this behaviour has met, see Properties
    ops, crashes, errors

vars == <<disk, session, unlocked, cmd, mine, gone, lost, known, harm, ops, crashes, errors>>

BackupChunk == ToSet(Backup)
Chunk == BackupChunk \cup Own
Artifact == {"salt", "pepper", "masterSalt", "masterVerify", "masterTemp", "masterTx", "restoreTx"}
Fresh == 1..MaxFresh
Key == (Fresh \cup {B}) \X (Fresh \cup {B})

\* A random value: one that nothing on the device was derived from.
Used == {disk[i] : i \in {"salt", "pepper", "masterSalt"}}
        \cup UNION {{k[1], k[2]} : k \in {disk[c] : c \in Chunk} \cap Key}
        \cup UNION {{k[1]} : k \in {disk["masterVerify"], disk["masterTemp"]} \ {None}}
        \cup IF unlocked = None THEN {} ELSE {unlocked[1], unlocked[2]}
Unused == Fresh \ Used
Random == CHOOSE n \in Unused : TRUE
OtherRandom == CHOOSE n \in Unused \ {Random} : TRUE

(***************************************************************************)
(* The restore transaction: its marker, its recovery and its rollback.       *)
(***************************************************************************)
Marker(phase, chunks, artifacts, pepper) ==
    [phase |-> phase, chunks |-> chunks, artifacts |-> artifacts, pepper |-> pepper]

Dels(items) == [i \in 1..Len(items) |-> Del(items[i])]
Trys(items) == [i \in 1..Len(items) |-> Try(items[i])]

rollback_restore_payload(m) ==
    Dels(m.chunks) \o Dels(m.artifacts)
    \o IF m.phase = "committing" THEN <<Del("pepper")>> ELSE << >>

restore_payload_complete(d, m) ==
    \A i \in ToSet(m.chunks) \cup ToSet(m.artifacts) : d[i] # None

\* Mutant: whatever a committing transaction has published is kept.
RecoverCommitsAll(d) ==
    LET m == d["restoreTx"]
    IN CASE m = None -> << >>
         [] m.phase = "committing" -> <<Del("restoreTx")>>
         [] OTHER -> rollback_restore_payload(m) \o <<Del("restoreTx")>>

\* recover_restore_transaction, on entry of a restore and nowhere else.
Recover(d) ==
    LET m == d["restoreTx"]
    IN CASE m = None -> << >>
         [] m.phase = "committing" /\ m.pepper /\ restore_payload_complete(d, m) ->
              <<Del("restoreTx")>>
         [] OTHER -> rollback_restore_payload(m) \o <<Del("restoreTx")>>

\* rollback_restore_transaction_marker, when there is a marker.
rollback_marker(d) == rollback_restore_payload(d["restoreTx"]) \o <<Del("restoreTx")>>

\* rollback_restore_local, which expiry runs too.  Without a marker it removes
\* whatever a restore could have published.
rollback_restore_local(d, names) ==
    IF d["restoreTx"] # None
    THEN rollback_marker(d) \o Trys(names)
    ELSE Trys(names \o <<"salt", "masterSalt", "masterVerify", "restoreTx", "pepper">>)

\* Mutant: only the chunks are looked at.
BlankButChunks(d) == \A c \in BackupChunk : d[c] = None

require_blank_storage_for_restore(d) == d["salt"] = None /\ \A c \in Chunk : d[c] = None

(***************************************************************************)
(* Commands.                                                                *)
(***************************************************************************)
\* What can destroy data that is in use: a marker an earlier restore left
\* behind, and a session whose marker or chunks are gone: restore:local:start
\* rolls them back even when it then refuses to start, admin:restore replaces
\* the marker.
Why(rolledBack, undercut) ==
    (IF rolledBack THEN {"leftover"} ELSE {}) \cup (IF undercut THEN {"undercut"} ELSE {})

Leftover == disk["restoreTx"] # None /\ disk["restoreTx"].phase = "committing"

\* No restore looks at the marker of an interrupted master rekey.
PendingRekey == IF disk["masterTx"] # None THEN {"rekey"} ELSE {}

\* The passwords a command sets, in order.
Sets(todo) == LET verify == SelectSeq(todo, LAMBDA s : s.item = "masterVerify" /\ s.val # None)
              IN  [i \in 1..Len(verify) |-> verify[i].val[2]]

\* A command that ends well leaves the session, and the vault unlocked, as
\* given, and tells the user that the chunks in ack are stored and that the
\* master password is the last one it set.
Begin(kind, why, todo, sess, key, ack) ==
    /\ cmd = None /\ ops < MaxOps
    /\ cmd' = [kind |-> kind, why |-> why, todo |-> todo, sess |-> sess, key |-> key, ack |-> ack,
               password |-> IF Sets(todo) = << >> THEN None ELSE Last(Sets(todo))]
    /\ known' = known \cup ToSet(Sets(todo))
    /\ ops' = ops + 1
    /\ harm' = harm \cup why
    /\ UNCHANGED <<disk, lost, crashes, errors>>

\* Recovery comes first, whether or not a session is active; then the expiry.
RestoreStart(expired) ==
    LET recovered == Run(disk, Recover(disk))
        rollback == IF expired THEN rollback_restore_local(recovered, session.names) ELSE << >>
        blank == require_blank_storage_for_restore(Run(recovered, rollback))
        left == IF expired THEN None ELSE session
        starts == blank /\ left = None
    IN /\ expired => session # None
       /\ Begin("start", PendingRekey \cup Why(Leftover, expired),
                Recover(disk) \o rollback
                \o IF starts THEN <<Put("restoreTx", Marker("staging", << >>, << >>, FALSE))>> ELSE << >>,
                IF starts THEN [names |-> << >>] ELSE left, unlocked, {})
       /\ UNCHANGED <<session, unlocked, mine, gone>>

Rollback(kind, steps) ==
    /\ Begin(kind, PendingRekey \cup Why(Leftover, disk["restoreTx"] = None), steps, None, unlocked, {})
    /\ UNCHANGED <<session, unlocked, mine, gone>>

OrRollback(steps) == [i \in 1..Len(steps) |-> [steps[i] EXCEPT !.err = "rollback"]]

Publish(chunks) == [i \in 1..Len(chunks) |-> Put(chunks[i], <<B, B>>)]

Staged == Put("restoreTx", Marker("staging", Backup, << >>, FALSE))

\* A pack that is cut short leaves the session and its marker as they are.  The
\* marker of a commit whose rollback failed is replaced.
RestoreUpload(cutShort) ==
    /\ session # None /\ require_blank_storage_for_restore(disk)
    /\ Begin("upload", Why(FALSE, Leftover),
             <<Staged>> \o IF cutShort THEN << >> ELSE OrRollback(Publish(Backup) \o <<Staged>>),
             IF cutShort THEN session ELSE [names |-> Backup], unlocked, {})
    /\ UNCHANGED <<session, unlocked, mine, gone>>

Artifacts == <<"salt", "masterSalt", "masterVerify">>
Committing(pepper) == Put("restoreTx", Marker("committing", Backup, Artifacts, pepper))
Materials == <<Put("masterSalt", B), Put("masterVerify", <<B, BackupPassword>>), Put("salt", B)>>

\* apply_restore_commit between the two markers, then the clean-up.
CommitSteps ==
    <<Committing(FALSE)>> \o Materials \o <<Put("pepper", B), Committing(TRUE)>>

Undercut == disk["restoreTx"] = None \/ \E c \in BackupChunk : disk[c] = None

\* The chunks were counted when they were uploaded.  After a commit that could not
\* clear its marker the session is still there, and may commit again.
RestoreCommit ==
    /\ session # None /\ session.names # << >>
    /\ Begin("commit", PendingRekey \cup Why(Leftover, Undercut),
             OrRollback(CommitSteps) \o <<Del("restoreTx")>>, None, unlocked, BackupChunk)
    /\ UNCHANGED <<session, unlocked, mine, gone>>

\* restore:local:cancel leaves the chunks of the session alone when there is a marker.
RestoreCancel ==
    /\ session # None
    /\ Rollback("cancel", IF disk["restoreTx"] # None THEN rollback_marker(disk)
                          ELSE rollback_restore_local(disk, session.names))

\* An expired session, and a commit that is refused.
RestoreExpire == session # None /\ Rollback("expire", rollback_restore_local(disk, session.names))

\* prepare_local_restore and commit_local_restore: the same in one go.  It can
\* be cancelled until the chunks are there.
RestoreTyped(cancelled) ==
    LET recovered == Run(disk, Recover(disk))
        blank == require_blank_storage_for_restore(recovered)
        orCancel(steps) == [i \in 1..Len(steps) |-> [steps[i] EXCEPT !.err = "cancel"]]
        upload == <<Put("restoreTx", Marker("staging", << >>, << >>, FALSE))>>
                  \o orCancel(<<Staged>> \o Publish(Backup) \o <<Staged>>)
    IN /\ session = None
       /\ Begin("typed", PendingRekey \cup Why(Leftover, FALSE),
                Recover(disk)
                \o (IF blank THEN upload ELSE << >>)
                \o CASE ~blank -> << >>
                     [] cancelled -> rollback_restore_payload(Staged.val) \o <<Del("restoreTx")>>
                     [] OTHER -> OrRollback(CommitSteps) \o <<Del("restoreTx")>>,
                None, unlocked, IF blank /\ ~cancelled THEN BackupChunk ELSE {})
       /\ UNCHANGED <<session, unlocked, mine, gone>>

\* admin:restore.  What fails is undone as far as it was written; the marker stays.
AdminSteps ==
    LET body == Publish(Backup) \o Materials \o <<Put("pepper", B), Committing(TRUE)>>
        written(i) == {body[j].item : j \in 1..i} \ {"restoreTx"}
    IN [i \in 1..Len(body) |->
          [body[i] EXCEPT !.err = "undo",
                          !.undo = IF body[i].item = "pepper" THEN written(i - 1) ELSE written(i)]]

\* The vault has been closed by then.
OrDrop(steps) == [i \in 1..Len(steps) |-> [steps[i] EXCEPT !.err = "drop"]]

AdminRestore ==
    LET recovered == Run(disk, Recover(disk))
        blank == require_blank_storage_for_restore(recovered)
    IN /\ Begin("admin", PendingRekey \cup Why(Leftover, session # None),
                Recover(disk)
                \o IF blank THEN OrDrop(<<Committing(FALSE)>>) \o AdminSteps \o OrDrop(<<Del("restoreTx")>>)
                   ELSE << >>,
                session, None, IF blank THEN BackupChunk ELSE {})
       /\ UNCHANGED <<session, unlocked, mine, gone>>

\* derive_unlock_key: a blank device gets a pepper and a salt.
VaultUnlock ==
    LET chunks == \E c \in Chunk : disk[c] # None
        pepper == IF disk["pepper"] = None THEN Random ELSE disk["pepper"]
        salt == IF disk["salt"] = None THEN OtherRandom ELSE disk["salt"]
    IN /\ unlocked = None
       /\ disk["pepper"] = None => ~chunks /\ disk["salt"] = None
       /\ chunks => disk["salt"] # None
       /\ Begin("unlock", {}, <<Put("pepper", pepper), Put("salt", salt)>>,
                session, <<salt, pepper>>, {})
       /\ UNCHANGED <<session, unlocked, mine, gone>>

\* A command on the catalog of the unlocked vault writes a chunk or removes one.
VaultWrite(c) ==
    /\ unlocked # None
    /\ Begin("write", {}, <<Put(c, unlocked)>>, session, unlocked, {c})
    /\ UNCHANGED <<session, unlocked, mine, gone>>

VaultRemove(c) ==
    /\ unlocked # None /\ disk[c] = unlocked
    /\ Begin("remove", {}, <<Del(c)>>, session, unlocked, {})
    /\ mine' = mine \ {c} /\ gone' = gone \cup {c}
    /\ UNCHANGED <<session, unlocked>>

VaultLock ==
    /\ cmd = None /\ unlocked # None /\ unlocked' = None
    /\ UNCHANGED <<disk, session, cmd, mine, gone, lost, known, harm, ops, crashes, errors>>

MasterSetup(p) ==
    /\ MasterRecoverable(disk)
    /\ Begin("setup", {},
             MasterRecover(disk) \o ensure_master_setup(Run(disk, MasterRecover(disk)), p, Random),
             session, unlocked, {})
    /\ UNCHANGED <<session, unlocked, mine, gone>>

\* A changed master password ends the restore session; its marker stays.
MasterRekey(p, q) ==
    LET d == Run(disk, MasterRecover(disk))
    IN /\ MasterRecoverable(disk) /\ p # q /\ Verifies(d, p)
       /\ Begin("masterRekey", {}, MasterRecover(disk) \o stage_and_commit_verify(d, q),
                None, unlocked, {})
       /\ UNCHANGED <<session, unlocked, mine, gone>>

\* erase:execute ends the restore session, admin:erase does not.
Erase(p, execute) ==
    /\ Verifies(disk, p)
    /\ Begin("erase", {}, EraseSteps(SetToSeq(Chunk)), IF execute THEN None ELSE session, None, {})
    /\ session' = IF execute THEN None ELSE session
    /\ unlocked' = None /\ mine' = {} /\ gone' = {}

\* A command for another restore session, or with a wrong password, is refused.
Refused == cmd = None /\ UNCHANGED vars

(***************************************************************************)
(* The steps of the command being executed.                                  *)
(***************************************************************************)
Readable(d, c) == d[c] # None /\ d[c] = <<d["salt"], d["pepper"]>>

Kept(d) ==
    /\ mine' = {c \in mine : Readable(d, c)}
    /\ lost' = lost \cup (mine \ mine')

Do ==
    /\ cmd # None /\ cmd.todo # << >>
    /\ disk' = [disk EXCEPT ![Head(cmd.todo).item] = Head(cmd.todo).val]
    /\ Kept(disk')
    /\ cmd' = [cmd EXCEPT !.todo = Tail(@)]
    /\ UNCHANGED <<session, unlocked, gone, known, harm, ops, crashes, errors>>

Done ==
    /\ cmd # None /\ cmd.todo = << >>
    /\ cmd' = None
    /\ session' = cmd.sess /\ unlocked' = cmd.key
    /\ mine' = mine \cup {c \in cmd.ack : Readable(disk, c)}
    /\ gone' = gone \ cmd.ack /\ lost' = lost \cup (cmd.ack \ mine')
    /\ known' = IF cmd.password = None THEN known ELSE {cmd.password}
    /\ UNCHANGED <<disk, harm, ops, crashes, errors>>

\* The step fails, after it took effect or before.  A rollback that goes on after
\* a failure may leave something behind.
Fail(effect) ==
    LET s == Head(cmd.todo)
        d == IF effect THEN [disk EXCEPT ![s.item] = s.val] ELSE disk
        instead(steps) == [cmd EXCEPT !.todo = steps, !.sess = None, !.ack = {}, !.password = None]
    IN /\ IoErrors /\ cmd # None /\ cmd.todo # << >> /\ errors < MaxErrors
       /\ errors' = errors + 1
       /\ disk' = d /\ Kept(d)
       /\ cmd' = CASE s.err \in {"stop", "drop"} -> None
                   [] s.err = "skip" -> [cmd EXCEPT !.todo = Tail(@)]
                   [] s.err = "rollback" -> instead(rollback_restore_local(d, Backup))
                   [] s.err = "cancel" ->
                        instead(IF d["restoreTx"] = None THEN << >> ELSE rollback_marker(d))
                   [] s.err = "undo" ->
                        [instead(Trys(SetToSeq(s.undo \ IF effect \/ s.item \in BackupChunk THEN {}
                                                        ELSE {s.item})))
                           EXCEPT !.sess = session]
       /\ unlocked' = IF s.err = "drop" THEN None ELSE unlocked
       /\ harm' = harm \cup (IF cmd.kind = "erase" THEN {"erase"} ELSE {})
                       \cup (IF s.err = "skip" /\ s.item # "masterTemp" /\ d[s.item] # None
                             THEN {"undercut"} ELSE {})
       /\ UNCHANGED <<session, gone, known, ops, crashes>>

Crash ==
    /\ crashes < MaxCrashes /\ crashes' = crashes + 1
    /\ session' = None /\ unlocked' = None /\ cmd' = None
    /\ harm' = harm \cup IF cmd # None /\ cmd.kind = "erase" THEN {"erase"} ELSE {}
    /\ UNCHANGED <<disk, mine, gone, lost, known, ops, errors>>

Init ==
    /\ disk = [i \in Chunk \cup Artifact |-> None]
    /\ session = None /\ unlocked = None /\ cmd = None /\ mine = {} /\ gone = {} /\ lost = {} /\ harm = {}
    /\ known = {}
    /\ ops = 0 /\ crashes = 0 /\ errors = 0

Next ==
    \/ \E e \in BOOLEAN : RestoreStart(e) \/ RestoreUpload(e) \/ RestoreTyped(e)
    \/ RestoreCommit \/ RestoreCancel \/ RestoreExpire \/ AdminRestore
    \/ VaultUnlock \/ VaultLock
    \/ \E c \in Own : VaultWrite(c)
    \/ \E c \in Chunk : VaultRemove(c)
    \/ \E p \in Password : MasterSetup(p)
    \/ \E p, q \in Password : MasterRekey(p, q)
    \/ \E p \in Password, execute \in BOOLEAN : Erase(p, execute)
    \/ Refused \/ Do \/ Done \/ \E effect \in BOOLEAN : Fail(effect)
    \/ Crash

Spec == Init /\ [][Next]_vars

(***************************************************************************)
(* Properties.                                                              *)
(***************************************************************************)
\* Every variable stays in its domain.
TypeOK ==
    /\ \A c \in Chunk : disk[c] \in Key \cup {None}
    /\ {disk["salt"], disk["pepper"], disk["masterSalt"]} \subseteq Fresh \cup {B, None}
    /\ {disk["masterVerify"], disk["masterTemp"]} \subseteq
         ((Fresh \cup {B}) \X Password) \cup {None}
    /\ session \in [names : {<< >>, Backup}] \cup {None}
    /\ unlocked \in Key \cup {None}
    /\ mine \subseteq Chunk /\ gone \subseteq Chunk /\ known \subseteq Password
    /\ harm \subseteq {"erase", "leftover", "undercut", "rekey"}

\* When no restore is under way and none has left a marker, the device has the
\* whole backup, but for what the user removed, or none of its chunks and not
\* its salt.  (Its pepper may stay, when it was stored although the keystore
\* reported an error; the next vault is then made with it.)
RestoreAllOrNothing ==
    cmd = None /\ session = None /\ disk["restoreTx"] = None
    /\ harm \cap {"erase", "undercut"} = {} =>
        \/ disk["salt"] # B /\ \A c \in BackupChunk : disk[c] = None
        \/ disk["salt"] = B /\ disk["pepper"] = B /\ \A c \in BackupChunk \ gone : Readable(disk, c)

\* The master password that verifies is the last one a setup, a rekey or a restore
\* reported as set, or the one of an attempt since that ended in an error or a
\* crash: master.verify is never left beside another salt than the one it was
\* derived from, and no recovery brings an old password back.
MasterPasswordVerifies ==
    cmd = None /\ disk["restoreTx"] = None /\ disk["masterVerify"] # None
    /\ harm \subseteq {"leftover"} =>
        \E p \in known : Verifies(disk, p)

\* Stored data becomes unreadable only by an erase, by the recovery of a
\* marker an earlier restore left behind, or in the name of a restore session
\* that was undercut; a vault that was unlocked then still writes.
OnlyLeftoversDestroy ==
    [][lost' # lost =>
         (IF cmd.kind = "write" THEN harm ELSE cmd.why) \cap {"leftover", "undercut"} # {}]_vars

\* "It must only run against blank storage so it can never overwrite or corrupt
\* an existing vault": stored data stays readable until the user removes it.
\* The code does not keep this.
ExistingVaultSafe == lost = {}
=============================================================================
