--------------------------- MODULE MasterMaterial ---------------------------
(***************************************************************************)
(* The master password material of a device: master.salt, master.verify, and *)
(* the transaction that replaces master.verify.                              *)
(*                                                                         *)
(* A command is a sequence of durable steps, each of which writes or removes  *)
(* one artifact.  What a command does is fixed by the artifacts it finds when *)
(* it begins, because the router runs one command at a time; between two     *)
(* steps the process may die.  A verify value is the salt and the password   *)
(* it was derived from.                                                      *)
(***************************************************************************)
EXTENDS Naturals, Sequences

LOCAL INSTANCE SequencesExt

CONSTANT None

\* What the command does when a step fails: it returns the error, it goes on,
\* or it rolls back what undo names.
Step(item, val, err, undo) == [item |-> item, val |-> val, err |-> err, undo |-> undo]

Put(item, val) == Step(item, val, "stop", {})
Del(item) == Put(item, None)
\* let _ = remove(...): a failure is ignored.
Try(item) == Step(item, None, "skip", {})

\* The artifacts after the given steps, when all of them succeed.
Run(d, steps) == FoldLeft(LAMBDA e, s : [e EXCEPT ![s.item] = s.val], d, steps)

Verifies(d, p) == d["masterSalt"] # None /\ d["masterVerify"] = <<d["masterSalt"], p>>

\* MasterRekeyService::recover, before every access to the material.
MasterRecover(d) ==
    CASE d["masterTx"] = None -> <<Try("masterTemp")>>
      [] d["masterTx"] = "staging" -> <<Del("masterTemp"), Del("masterTx")>>
      [] d["masterTx"] = "committing" /\ d["masterTemp"] # None ->
           <<Put("masterVerify", d["masterTemp"]), Del("masterTemp"), Del("masterTx")>>
      [] OTHER -> <<Del("masterTx")>>

\* A committed switch with neither file left is an integrity failure.
MasterRecoverable(d) ==
    ~(d["masterTx"] = "committing" /\ d["masterTemp"] = None /\ d["masterVerify"] = None)

\* Mutant: a salt that is there is not used.
ensure_master_setup_anew(d, p, salt) ==
    IF d["masterVerify"] # None THEN << >>
    ELSE (IF d["masterSalt"] = None THEN <<Put("masterSalt", salt)>> ELSE << >>)
         \o <<Put("masterVerify", <<salt, p>>)>>

\* ensure_master_setup after the recovery; salt is the one to create if there is none.
ensure_master_setup(d, p, salt) ==
    LET s == IF d["masterSalt"] = None THEN salt ELSE d["masterSalt"]
    IN IF d["masterVerify"] # None THEN << >>
       ELSE (IF d["masterSalt"] = None THEN <<Put("masterSalt", s)>> ELSE << >>)
            \o <<Put("masterVerify", <<s, p>>)>>

\* stage_and_commit_verify.
stage_and_commit_verify(d, q) ==
    LET verify == <<d["masterSalt"], q>>
    IN <<Put("masterTemp", verify), Put("masterTx", "staging"), Put("masterTx", "committing"),
         Put("masterVerify", verify), Del("masterTemp"), Del("masterTx")>>

\* Storage::erase_all, then the master artifacts and the pepper.
EraseSteps(chunks) ==
    [i \in 1..Len(chunks) |-> Del(chunks[i])]
    \o <<Del("salt"), Del("restoreTx"), Try("masterSalt"), Try("masterVerify"),
         Try("masterTemp"), Try("masterTx"), Try("pepper")>>
=============================================================================
