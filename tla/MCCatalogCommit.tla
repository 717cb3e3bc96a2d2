-------------------------- MODULE MCCatalogCommit --------------------------
(***************************************************************************)
(* CatalogCommit for TLC.  A root index is the set of chunks it refers to.  *)
(* Crashes and failing calls draw on a budget, so that a behaviour has only *)
(* finitely many of them and recovery can be required to end.               *)
(***************************************************************************)
EXTENDS CatalogCommit, Naturals, TLC

CONSTANT MaxFaults

MCRoot == SUBSET Chunk
MCRefs(r) == r

Symmetry == Permutations(Chunk) \cup Permutations(Val)

VARIABLE faults
mcvars == <<vars, faults>>

Faulty == \/ Progress(FALSE) \/ Fail \/ Crash

MCInit == Init /\ faults = 0

MCNext ==
    \/ /\ \/ StartUnlock \/ StartSave \/ ReadRecord \/ Loaded
          \/ \E p \in Plan : PlanOK(p) /\ Begin(p)
          \/ Progress(TRUE)
          \/ \E c \in Chunk : GcDelete(c)
       /\ UNCHANGED faults
    \/ /\ faults < MaxFaults
       /\ faults' = faults + 1
       /\ Faulty

\* An operation that was started runs on to its end: the router executes it
\* without waiting for anything.
Fairness ==
    /\ WF_mcvars(ReadRecord /\ UNCHANGED faults)
    /\ WF_mcvars(Progress(TRUE) /\ UNCHANGED faults)
    /\ WF_mcvars(Loaded /\ UNCHANGED faults)
    /\ WF_mcvars(pc = "plan" /\ (\E p \in Plan : PlanOK(p) /\ Begin(p)) /\ UNCHANGED faults)

MCSafety == MCInit /\ [][MCNext]_mcvars

MCSpec == MCSafety /\ Fairness

\* No operation hangs: once the last fault is past, an unlock, a save or a
\* recovery that is under way ends with an open session, however the storage
\* was left by the crashes and errors before it.
OperationEnds ==
    (pc \notin {"locked", "idle"} /\ faults = MaxFaults) ~> (pc = "idle")
=============================================================================
