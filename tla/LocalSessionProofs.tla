------------------------ MODULE LocalSessionProofs ------------------------
(***************************************************************************)
(* Proofs about LocalSession, for any number of requests, generations and   *)
(* commands: what the session reports is what the core is, a revoked        *)
(* request takes no effect, and a session that has ended stays ended.       *)
(***************************************************************************)
EXTENDS LocalSession, TLAPS

(***************************************************************************)
(* The inductive invariant.                                                 *)
(***************************************************************************)
\* The worker runs the job of a request.
Busy == worker.step \in {"checked", "erasing", "handled"}

Open == {"Locked", "Unlocked"}
Revoked == {"Deactivating", "Closed"}

\* In a queue each request is queued once, and has the priority of the queue; the
\* cleanups are in the privacy queue.
QueueOK(r, s, name) ==
    \A i \in 1..Len(s) :
        /\ s[i].id = 0 => name = "privacy"
        /\ s[i].id # 0 =>
              /\ r[s[i].id].job = "queued" /\ r[s[i].id].gen = s[i].gen
              /\ Priority(r[s[i].id].cmd) = name
        /\ \A j \in 1..Len(s) : s[i].id # 0 /\ s[i].id = s[j].id => i = j

QueuesOK ==
    /\ QueueOK(req, privacy, "privacy") /\ QueueOK(req, user, "user") /\ QueueOK(req, low, "low")
    /\ shutdown => ~HasJob /\ worker.step \in {"idle", "exited"}

\* A request belongs to a generation that has been open.
RequestsOK ==
    \A id \in Requests :
        /\ id > lastRequest => req[id] = NoRequest
        /\ req[id].gen <= generation
        /\ req[id].gen = generation => phase \in Open \/ Terminal(phase)
        /\ req[id].fut = "admitted" => req[id].job = "none" /\ req[id].cmd # "none"
        /\ req[id].job # "none" => req[id].cmd # "none"
        /\ req[id].failed => req[id].job = "done"

\* A job outlives its generation only until the cleanup that waits for it.
WorkerOK ==
    /\ Busy =>
          /\ worker.job.id \in Requests /\ req[worker.job.id].job = "running"
          /\ worker.job.gen = req[worker.job.id].gen
          /\ phase \in IF worker.job.gen = generation THEN Open ELSE Revoked
    /\ worker.reset => worker.step \in {"erasing", "handled"}
    /\ worker.step = "erasing" => worker.reset
    /\ worker.reset /\ worker.resetGen = 0 => worker.job.gen < generation \/ Expired
    /\ worker.resetGen # 0 =>
          /\ worker.reset /\ worker.resetGen <= generation /\ worker.job.gen < generation
          /\ worker.resetGen = generation => phase = "Deactivating"
    /\ worker.reset /\ worker.step = "handled" => ~unlocked
    /\ worker.step = "cleaned" => phase \in Revoked /\ (worker.ok => ~unlocked)

Cleanup(i) == privacy[i].id = 0

\* Each revocation is completed by one job.
CleanupOK ==
    /\ \A i \in 1..Len(privacy) : Cleanup(i) => phase \in Revoked
    /\ phase = "Deactivating" =>
          /\ \A i, j \in 1..Len(privacy) : Cleanup(i) /\ Cleanup(j) => i = j
          /\ worker.step = "cleaned" \/ worker.resetGen = generation =>
                \A i \in 1..Len(privacy) : ~Cleanup(i)

\* An open session is in the foreground, only an unlocked one has a running clock,
\* and a master password it reports is lost only to an erase.
PhaseOK ==
    /\ generation >= 1 /\ (phase \in Open => foreground) /\ ClockOnlyWhileUnlocked
    /\ masterConfigured /\ ~worker.reset /\ ~Expired /\ phase \in Open \cup {"Inactive"} => configured

\* What SnapshotIsTrue says, as long as no request is being run.
ReportsTruth ==
    /\ ~Busy /\ ~Expired /\ phase \in Open \cup {"Inactive"} /\ ~ConfigErrorIn(AllCommands)
    => masterConfigured = configured /\ (phase = "Unlocked" <=> unlocked)

Structure == QueuesOK /\ RequestsOK /\ WorkerOK /\ CleanupOK /\ PhaseOK

Inv ==
    /\ TypeOK /\ Structure /\ ReportsTruth /\ LockedMeansLocked
    /\ EventsAreComplete /\ CancelledUnlockIsOver

(***************************************************************************)
(* Facts about the operators of the model.                                  *)
(***************************************************************************)
ReqTable == [Requests -> RequestStates]

\* Two states of a request that differ only in its flags and its reply.
Alike(a, b) ==
    /\ a.cmd = b.cmd /\ a.gen = b.gen /\ a.failed = b.failed
    /\ a.fut = b.fut /\ a.job = b.job

\* A new request.
LEMMA NoRequestType == NoRequest \in RequestStates
BY DEF NoRequest, RequestStates, AllCommands

\* The worker between two jobs.
LEMMA IdleType ==
    /\ Idle \in WorkerStates /\ Idle.step = "idle" /\ Idle.resetGen = 0 /\ Idle.reset = FALSE
    /\ \A j \in Jobs :
          LET w == [Idle EXCEPT !.step = "checked", !.job = j]
          IN  w \in WorkerStates /\ w.step = "checked" /\ w.job = j /\ w.resetGen = 0 /\ w.reset = FALSE
    /\ LET w == [Idle EXCEPT !.step = "exited"]
       IN  w \in WorkerStates /\ w.step = "exited" /\ w.resetGen = 0 /\ w.reset = FALSE
<1>1. CleanupJob(0, FALSE) \in Jobs
    BY SessionAssumption DEF CleanupJob, Jobs
<1>2. /\ Idle \in WorkerStates /\ Idle.step = "idle" /\ Idle.resetGen = 0 /\ Idle.reset = FALSE
      /\ Idle.job = CleanupJob(0, FALSE) /\ Idle.ok = TRUE
    BY <1>1 DEF Idle, WorkerStates
<1> HIDE DEF Idle
<1>3. ASSUME NEW j \in Jobs
      PROVE  LET w == [Idle EXCEPT !.step = "checked", !.job = j]
             IN  /\ w \in WorkerStates /\ w.step = "checked" /\ w.job = j
                 /\ w.resetGen = 0 /\ w.reset = FALSE
    BY <1>2 DEF WorkerStates
<1>4. LET w == [Idle EXCEPT !.step = "exited"]
      IN  w \in WorkerStates /\ w.step = "exited" /\ w.resetGen = 0 /\ w.reset = FALSE
    BY <1>2 DEF WorkerStates
<1> QED BY <1>2, <1>3, <1>4

\* The worker with a cleanup whose core half is done.
Cleaned(j, ok) == [Idle EXCEPT !.step = "cleaned", !.job = j, !.ok = ok]

\* What that worker holds.
LEMMA CleanedType ==
    ASSUME NEW j \in Jobs, NEW ok \in BOOLEAN
    PROVE  LET w == Cleaned(j, ok)
           IN  /\ w \in WorkerStates /\ w.step = "cleaned" /\ w.job = j /\ w.ok = ok
               /\ w.resetGen = 0 /\ w.reset = FALSE
<1>1. CleanupJob(0, FALSE) \in Jobs
    BY SessionAssumption DEF CleanupJob, Jobs
<1>2. Idle \in WorkerStates /\ Idle.resetGen = 0 /\ Idle.reset = FALSE
    BY <1>1 DEF Idle, WorkerStates
<1> HIDE DEF Idle
<1> QED BY <1>2 DEF WorkerStates, Cleaned

\* The jobs of the revocations.
LEMMA CleanupJobType ==
    ASSUME NEW g \in Nat, NEW close \in BOOLEAN
    PROVE  /\ CleanupJob(g, close) \in Jobs
           /\ CleanupJob(g, close).id = 0 /\ CleanupJob(g, close).gen = g
BY SessionAssumption DEF CleanupJob, Jobs

\* And those of the requests.
LEMMA RequestJobType ==
    ASSUME req \in ReqTable, NEW id \in Requests
    PROVE  /\ RequestJob(id) \in Jobs
           /\ RequestJob(id).id = id /\ RequestJob(id).gen = req[id].gen
BY SessionAssumption DEF RequestJob, Jobs, ReqTable, RequestStates, Requests

\* request.revoke() sets flags only.
LEMMA FlaggedFacts ==
    ASSUME req \in ReqTable
    PROVE  Flagged \in ReqTable /\ \A id \in Requests : Alike(Flagged[id], req[id])
<1>1. ASSUME NEW id \in Requests
      PROVE  Flagged[id] \in RequestStates /\ Alike(Flagged[id], req[id])
    <2> DEFINE r == req[id]
    <2>1. r \in RequestStates
        BY DEF ReqTable
    <2>2. Flagged[id] = r \/ Flagged[id] = [r EXCEPT !.cancel = TRUE]
        BY DEF Flagged
    <2> HIDE DEF r
    <2>3. [r EXCEPT !.cancel = TRUE] \in RequestStates /\ Alike([r EXCEPT !.cancel = TRUE], r)
        BY <2>1 DEF RequestStates, Alike
    <2>4. Alike(r, r)
        BY DEF Alike
    <2>5. Flagged[id] \in RequestStates /\ Alike(Flagged[id], r)
        BY <2>1, <2>2, <2>3, <2>4
    <2> QED BY <2>5 DEF r
<1>2. Flagged = [id \in Requests |-> Flagged[id]]
    BY DEF Flagged
<1> QED BY <1>1, <1>2 DEF ReqTable

\* cancel_low_priority() sets flags only.
LEMMA LowStaleFacts ==
    ASSUME NEW r \in ReqTable
    PROVE  /\ LowStale(r) \in ReqTable
           /\ \A id \in Requests : /\ Alike(LowStale(r)[id], r[id])
                                   /\ LowStale(r)[id].cancel = r[id].cancel
<1>1. ASSUME NEW id \in Requests
      PROVE  /\ LowStale(r)[id] \in RequestStates /\ Alike(LowStale(r)[id], r[id])
             /\ LowStale(r)[id].cancel = r[id].cancel
    <2> DEFINE q == r[id]
    <2>1. q \in RequestStates
        BY DEF ReqTable
    <2>2. LowStale(r)[id] = q \/ LowStale(r)[id] = [q EXCEPT !.stale = TRUE]
        BY DEF LowStale
    <2> HIDE DEF q
    <2>3. /\ [q EXCEPT !.stale = TRUE] \in RequestStates /\ Alike([q EXCEPT !.stale = TRUE], q)
          /\ [q EXCEPT !.stale = TRUE].cancel = q.cancel
        BY <2>1 DEF RequestStates, Alike
    <2>4. Alike(q, q)
        BY DEF Alike
    <2>5. /\ LowStale(r)[id] \in RequestStates /\ Alike(LowStale(r)[id], q)
          /\ LowStale(r)[id].cancel = q.cancel
        BY <2>1, <2>2, <2>3, <2>4
    <2> QED BY <2>5 DEF q
<1>2. LowStale(r) = [id \in Requests |-> LowStale(r)[id]]
    BY DEF LowStale
<1> QED BY <1>1, <1>2 DEF ReqTable

\* A job that ends.
LEMMA JobEndsFacts ==
    ASSUME req \in ReqTable, NEW id \in Requests,
           NEW a \in {"none", "ok", "revoked", "canceled", "busy", "unavailable", "closed"}
    PROVE  LET r == JobEnds(id, a)
           IN  /\ r \in ReqTable
               /\ \A o \in Requests \ {id} : r[o] = req[o]
               /\ r[id].cmd = req[id].cmd /\ r[id].gen = req[id].gen /\ r[id].fut = req[id].fut
               /\ r[id].failed = req[id].failed /\ r[id].cancel = req[id].cancel
               /\ r[id].job = "done"
<1> DEFINE x == IF req[id].fut = "waiting" THEN a ELSE "none"
           y == [req[id] EXCEPT !.job = "done", !.stale = FALSE, !.reply = x]
<1>1. req[id] \in RequestStates
    BY DEF ReqTable
<1>2. x \in {"none", "ok", "revoked", "canceled", "busy", "unavailable", "closed"}
    OBVIOUS
<1>3. JobEnds(id, a) = [req EXCEPT ![id] = y]
    BY DEF JobEnds, ReqTable
<1> HIDE DEF x
<1>4. /\ y \in RequestStates /\ y.cmd = req[id].cmd /\ y.gen = req[id].gen /\ y.fut = req[id].fut
      /\ y.failed = req[id].failed /\ y.cancel = req[id].cancel /\ y.job = "done"
    BY <1>1, <1>2 DEF RequestStates
<1> HIDE DEF y
<1> QED BY <1>3, <1>4 DEF ReqTable

\* A job is a cleanup or belongs to a request.
LEMMA JobId ==
    ASSUME NEW s \in Seq(Jobs), NEW i \in 1..Len(s)
    PROVE  s[i] \in Jobs /\ s[i].gen \in Nat /\ (s[i].id # 0 => s[i].id \in Requests)
<1>1. s[i] \in Jobs
    OBVIOUS
<1>2. s[i].id \in 0..MaxRequest /\ s[i].gen \in Nat
    BY <1>1 DEF Jobs
<1> QED BY <1>1, <1>2, SessionAssumption DEF Requests

\* A queue is sound as long as its requests stay queued.
LEMMA QueueKept ==
    ASSUME NEW r \in ReqTable, NEW q \in ReqTable, NEW s \in Seq(Jobs), NEW name,
           QueueOK(r, s, name),
           \A id \in Requests : r[id].job = "queued" =>
               q[id].job = "queued" /\ q[id].gen = r[id].gen /\ q[id].cmd = r[id].cmd
    PROVE  QueueOK(q, s, name)
<1>1. \A i \in 1..Len(s) : s[i] \in Jobs /\ (s[i].id # 0 => s[i].id \in Requests)
    BY JobId
<1> QED BY <1>1 DEF QueueOK

\* So is what is left of it when the first job is taken out.
LEMMA QueueTail ==
    ASSUME NEW r \in ReqTable, NEW q \in ReqTable, NEW s \in Seq(Jobs), NEW name,
           QueueOK(r, s, name), s # <<>>,
           \A id \in Requests \ {Head(s).id} : r[id].job = "queued" =>
               q[id].job = "queued" /\ q[id].gen = r[id].gen /\ q[id].cmd = r[id].cmd
    PROVE  QueueOK(q, Tail(s), name)
<1>1. \A i \in 1..Len(s) : s[i] \in Jobs /\ (s[i].id # 0 => s[i].id \in Requests)
    BY JobId
<1>2. /\ Tail(s) \in Seq(Jobs) /\ Len(s) \in Nat /\ Len(Tail(s)) = Len(s) - 1
      /\ Head(s) = s[1] /\ 1 \in 1..Len(s)
      /\ \A i \in 1..Len(Tail(s)) : Tail(s)[i] = s[i + 1] /\ i + 1 \in 1..Len(s) /\ i + 1 # 1
    OBVIOUS
<1>3. \A i \in 1..Len(s) : s[i].id # 0 /\ i # 1 => s[i].id # Head(s).id
    BY <1>2 DEF QueueOK
<1>4. ASSUME NEW i \in 1..Len(Tail(s))
      PROVE  /\ Tail(s)[i].id = 0 => name = "privacy"
             /\ Tail(s)[i].id # 0 =>
                   /\ q[Tail(s)[i].id].job = "queued" /\ q[Tail(s)[i].id].gen = Tail(s)[i].gen
                   /\ Priority(q[Tail(s)[i].id].cmd) = name
    <2>1. Tail(s)[i] = s[i + 1] /\ i + 1 \in 1..Len(s) /\ i + 1 # 1
        BY <1>2
    <2> QED BY <1>1, <1>3, <2>1 DEF QueueOK
<1>5. ASSUME NEW i \in 1..Len(Tail(s)), NEW j \in 1..Len(Tail(s)),
             Tail(s)[i].id # 0, Tail(s)[i].id = Tail(s)[j].id
      PROVE  i = j
    <2>1. i + 1 = j + 1
        BY <1>2, <1>5 DEF QueueOK
    <2> QED BY <2>1, <1>2
<1> QED BY <1>4, <1>5 DEF QueueOK

\* So is a queue with a new job at its end.
LEMMA QueueAppend ==
    ASSUME NEW r \in ReqTable, NEW q \in ReqTable, NEW s \in Seq(Jobs), NEW name, NEW e \in Jobs,
           QueueOK(r, s, name),
           \A id \in Requests : r[id].job = "queued" =>
               q[id].job = "queued" /\ q[id].gen = r[id].gen /\ q[id].cmd = r[id].cmd,
           e.id = 0 => name = "privacy",
           e.id # 0 => /\ r[e.id].job # "queued" /\ q[e.id].job = "queued"
                       /\ q[e.id].gen = e.gen /\ Priority(q[e.id].cmd) = name
    PROVE  QueueOK(q, Append(s, e), name)
<1>0. QueueOK(q, s, name)
    BY QueueKept
<1>1. /\ Append(s, e) \in Seq(Jobs) /\ Len(s) \in Nat /\ Len(Append(s, e)) = Len(s) + 1
      /\ Append(s, e)[Len(s) + 1] = e
      /\ \A i \in 1..Len(s) : Append(s, e)[i] = s[i]
    OBVIOUS
<1>2. \A i \in 1..Len(Append(s, e)) : i \in 1..Len(s) \/ i = Len(s) + 1
    BY <1>1
<1>3. \A i \in 1..Len(s) : s[i].id # 0 => s[i].id # e.id
    BY DEF QueueOK
<1>4. ASSUME NEW i \in 1..Len(Append(s, e))
      PROVE  /\ Append(s, e)[i].id = 0 => name = "privacy"
             /\ Append(s, e)[i].id # 0 =>
                   /\ q[Append(s, e)[i].id].job = "queued"
                   /\ q[Append(s, e)[i].id].gen = Append(s, e)[i].gen
                   /\ Priority(q[Append(s, e)[i].id].cmd) = name
    BY <1>0, <1>1, <1>2 DEF QueueOK
<1>5. ASSUME NEW i \in 1..Len(Append(s, e)), NEW j \in 1..Len(Append(s, e)),
             Append(s, e)[i].id # 0, Append(s, e)[i].id = Append(s, e)[j].id
      PROVE  i = j
    BY <1>0, <1>1, <1>2, <1>3, <1>5 DEF QueueOK
<1> QED BY <1>4, <1>5 DEF QueueOK

\* A failed job is remembered within its generation.
LEMMA ConfigErrorKept ==
    ASSUME NEW cmds, generation' = generation,
           \A id \in Requests : req[id].failed /\ req[id].job = "done" =>
               /\ req'[id].failed /\ req'[id].job = "done"
               /\ req'[id].cmd = req[id].cmd /\ req'[id].gen = req[id].gen
    PROVE  ConfigErrorIn(cmds) => ConfigErrorIn(cmds)'
BY DEF ConfigErrorIn

\* The worker goes on with its job.
LEMMA WorkerStep ==
    ASSUME worker \in WorkerStates, NEW st \in {"handled", "closing"}
    PROVE  LET w == [worker EXCEPT !.step = st]
           IN  /\ w \in WorkerStates /\ w.step = st /\ w.job = worker.job
               /\ w.reset = worker.reset /\ w.resetGen = worker.resetGen /\ w.ok = worker.ok
BY DEF WorkerStates

\* What a worker and its job are.
LEMMA WorkerParts ==
    ASSUME worker \in WorkerStates
    PROVE  /\ worker.job \in Jobs /\ worker.job.gen \in Nat /\ worker.job.close \in BOOLEAN
           /\ worker.resetGen \in Nat /\ worker.reset \in BOOLEAN /\ worker.ok \in BOOLEAN
BY DEF WorkerStates, Jobs

\* The parts of a request.
LEMMA RequestParts ==
    ASSUME NEW r \in ReqTable, NEW id \in Requests
    PROVE  r[id] \in RequestStates /\ r[id].gen \in Nat /\ r[id].cancel \in BOOLEAN /\ r[id].failed \in BOOLEAN
BY DEF ReqTable, RequestStates

\* The queues are sound as long as their requests stay queued.
LEMMA QueuesKept ==
    ASSUME TypeOK, QueuesOK, req' \in ReqTable, UNCHANGED <<privacy, user, low, shutdown>>,
           \A id \in Requests : req[id].job = "queued" =>
               /\ req'[id].job = "queued" /\ req'[id].gen = req[id].gen /\ req'[id].cmd = req[id].cmd,
           shutdown => worker'.step \in {"idle", "exited"}
    PROVE  QueuesOK'
<1>1. req \in ReqTable /\ privacy \in Seq(Jobs) /\ user \in Seq(Jobs) /\ low \in Seq(Jobs)
    BY DEF TypeOK, ReqTable
<1>2. /\ QueueOK(req', privacy, "privacy") /\ QueueOK(req', user, "user")
      /\ QueueOK(req', low, "low")
    BY <1>1, QueueKept DEF QueuesOK
<1> QED BY <1>2 DEF QueuesOK, HasJob

\* The pending cleanups of a session that stays as it is.
LEMMA CleanupKept ==
    ASSUME CleanupOK, PhaseOK, generation \in Nat, UNCHANGED <<generation, phase, privacy>>,
           worker'.step # "cleaned", worker'.resetGen = 0
    PROVE  CleanupOK'
BY DEF CleanupOK, Cleanup, PhaseOK

(***************************************************************************)
(* Each action preserves the invariant.                                     *)
(***************************************************************************)
\* The session comes back to the foreground.
LEMMA ActivateInv ==
    ASSUME Inv, Activate
    PROVE  Inv'
<1>i. /\ TypeOK /\ QueuesOK /\ RequestsOK /\ WorkerOK /\ CleanupOK /\ PhaseOK
      /\ ReportsTruth /\ LockedMeansLocked /\ EventsAreComplete /\ CancelledUnlockIsOver
    BY DEF Inv, Structure
<1>1. TypeOK'
    BY <1>i DEF Activate, Terminal, TypeOK, ReqTable, Phases, Snapshot, authorityVars,
       idleVars, requestVars, dispatchVars, coreVars
<1>2. QueuesOK'
    BY <1>i DEF Activate, Terminal, QueuesOK, HasJob, authorityVars, idleVars, requestVars,
       dispatchVars, coreVars
<1>3. RequestsOK'
    BY <1>i, <1>1 DEF Activate, Terminal, TypeOK, RequestsOK, PhaseOK, Open, authorityVars,
       idleVars, requestVars, dispatchVars, coreVars
<1>4. WorkerOK'
    BY <1>i, <1>1 DEF Activate, Terminal, WorkerOK, RequestsOK, Busy, Open, Revoked,
       authorityVars, idleVars, requestVars, dispatchVars, coreVars, Expired
<1>5. CleanupOK'
    BY <1>i, <1>1 DEF Activate, Terminal, CleanupOK, WorkerOK, Cleanup, Revoked, Open,
       authorityVars, idleVars, requestVars, dispatchVars, coreVars
<1>6. PhaseOK'
    BY <1>i, <1>1 DEF Activate, Terminal, PhaseOK, WorkerOK, ClockOnlyWhileUnlocked, Open,
       Revoked, authorityVars, idleVars, requestVars, dispatchVars, coreVars, Expired
<1>7. ReportsTruth'
    BY <1>i, <1>1 DEF Activate, Terminal, ReportsTruth, PhaseOK, WorkerOK,
       ClockOnlyWhileUnlocked, Busy, Expired, Open, Revoked, ConfigErrorIn, authorityVars,
       idleVars, requestVars, dispatchVars, coreVars
<1>8. LockedMeansLocked'
    BY <1>i, <1>1 DEF Activate, Terminal, LockedMeansLocked, PhaseOK, WorkerOK,
       ClockOnlyWhileUnlocked, Busy, Expired, Open, Revoked, ConfigErrorIn, authorityVars,
       idleVars, requestVars, dispatchVars, coreVars
<1>9. EventsAreComplete'
    BY <1>i DEF Activate, Terminal, EventsAreComplete, Snapshot, authorityVars, idleVars,
       requestVars, dispatchVars, coreVars
<1>10. CancelledUnlockIsOver'
    BY <1>i, <1>1 DEF Activate, Terminal, TypeOK, CancelledUnlockIsOver, RequestsOK,
       PhaseOK, authorityVars, idleVars, requestVars, dispatchVars, coreVars
<1> QED BY <1>1, <1>2, <1>3, <1>4, <1>5, <1>6, <1>7, <1>8, <1>9, <1>10 DEF Inv, Structure

\* The clock runs out.
LEMMA ElapseInv ==
    ASSUME Inv, Elapse
    PROVE  Inv'
<1>i. /\ TypeOK /\ QueuesOK /\ RequestsOK /\ WorkerOK /\ CleanupOK /\ PhaseOK
      /\ ReportsTruth /\ LockedMeansLocked /\ EventsAreComplete /\ CancelledUnlockIsOver
    BY DEF Inv, Structure
<1>1. TypeOK'
    BY <1>i DEF Elapse, TypeOK, ReqTable, Phases, Snapshot, authorityVars, idleVars,
       requestVars, dispatchVars, coreVars
<1>2. QueuesOK'
    BY <1>i DEF Elapse, QueuesOK, HasJob, authorityVars, idleVars, requestVars,
       dispatchVars, coreVars
<1>3. RequestsOK'
    BY <1>i, <1>1 DEF Elapse, TypeOK, RequestsOK, PhaseOK, Open, Terminal, authorityVars,
       idleVars, requestVars, dispatchVars, coreVars
<1>4. WorkerOK'
    BY <1>i, <1>1 DEF Elapse, WorkerOK, RequestsOK, Busy, Open, Revoked, authorityVars,
       idleVars, requestVars, dispatchVars, coreVars, Expired
<1>5. CleanupOK'
    BY <1>i, <1>1 DEF Elapse, CleanupOK, WorkerOK, Cleanup, Revoked, Open, authorityVars,
       idleVars, requestVars, dispatchVars, coreVars
<1>6. PhaseOK'
    BY <1>i, <1>1 DEF Elapse, PhaseOK, WorkerOK, ClockOnlyWhileUnlocked, Open, Revoked,
       authorityVars, idleVars, requestVars, dispatchVars, coreVars, Expired
<1>7. ReportsTruth'
    BY <1>i, <1>1 DEF Elapse, ReportsTruth, PhaseOK, WorkerOK, ClockOnlyWhileUnlocked, Busy,
       Expired, Open, Revoked, ConfigErrorIn, authorityVars, idleVars, requestVars,
       dispatchVars, coreVars
<1>8. LockedMeansLocked'
    BY <1>i, <1>1 DEF Elapse, LockedMeansLocked, PhaseOK, WorkerOK, ClockOnlyWhileUnlocked,
       Busy, Expired, Open, Revoked, ConfigErrorIn, authorityVars, idleVars, requestVars,
       dispatchVars, coreVars
<1>9. EventsAreComplete'
    BY <1>i DEF Elapse, EventsAreComplete, Snapshot, authorityVars, idleVars, requestVars,
       dispatchVars, coreVars
<1>10. CancelledUnlockIsOver'
    BY <1>i, <1>1 DEF Elapse, TypeOK, CancelledUnlockIsOver, RequestsOK, PhaseOK, Terminal,
       authorityVars, idleVars, requestVars, dispatchVars, coreVars
<1> QED BY <1>1, <1>2, <1>3, <1>4, <1>5, <1>6, <1>7, <1>8, <1>9, <1>10 DEF Inv, Structure

\* The monitor finds nothing to do.
LEMMA MonitorWaitInv ==
    ASSUME Inv, MonitorWait
    PROVE  Inv'
<1>i. /\ TypeOK /\ QueuesOK /\ RequestsOK /\ WorkerOK /\ CleanupOK /\ PhaseOK
      /\ ReportsTruth /\ LockedMeansLocked /\ EventsAreComplete /\ CancelledUnlockIsOver
    BY DEF Inv, Structure
<1>1. TypeOK'
    BY <1>i DEF MonitorWait, Terminal, TypeOK, ReqTable, Phases, Snapshot, authorityVars,
       idleVars, requestVars, dispatchVars, coreVars
<1>2. QueuesOK'
    BY <1>i DEF MonitorWait, Terminal, QueuesOK, HasJob, authorityVars, idleVars,
       requestVars, dispatchVars, coreVars
<1>3. RequestsOK'
    BY <1>i, <1>1 DEF MonitorWait, Terminal, TypeOK, RequestsOK, PhaseOK, Open,
       authorityVars, idleVars, requestVars, dispatchVars, coreVars
<1>4. WorkerOK'
    BY <1>i, <1>1 DEF MonitorWait, Terminal, WorkerOK, RequestsOK, Busy, Open, Revoked,
       authorityVars, idleVars, requestVars, dispatchVars, coreVars, Expired
<1>5. CleanupOK'
    BY <1>i, <1>1 DEF MonitorWait, Terminal, CleanupOK, WorkerOK, Cleanup, Revoked, Open,
       authorityVars, idleVars, requestVars, dispatchVars, coreVars
<1>6. PhaseOK'
    BY <1>i, <1>1 DEF MonitorWait, Terminal, PhaseOK, WorkerOK, ClockOnlyWhileUnlocked,
       Open, Revoked, authorityVars, idleVars, requestVars, dispatchVars, coreVars
<1>7. ReportsTruth'
    BY <1>i, <1>1 DEF MonitorWait, Terminal, ReportsTruth, PhaseOK, WorkerOK,
       ClockOnlyWhileUnlocked, Busy, Expired, Open, Revoked, ConfigErrorIn, authorityVars,
       idleVars, requestVars, dispatchVars, coreVars
<1>8. LockedMeansLocked'
    BY <1>i, <1>1 DEF MonitorWait, Terminal, LockedMeansLocked, PhaseOK, WorkerOK,
       ClockOnlyWhileUnlocked, Busy, Expired, Open, Revoked, ConfigErrorIn, authorityVars,
       idleVars, requestVars, dispatchVars, coreVars
<1>9. EventsAreComplete'
    BY <1>i DEF MonitorWait, Terminal, EventsAreComplete, Snapshot, authorityVars, idleVars,
       requestVars, dispatchVars, coreVars
<1>10. CancelledUnlockIsOver'
    BY <1>i, <1>1 DEF MonitorWait, Terminal, TypeOK, CancelledUnlockIsOver, RequestsOK,
       PhaseOK, authorityVars, idleVars, requestVars, dispatchVars, coreVars
<1> QED BY <1>1, <1>2, <1>3, <1>4, <1>5, <1>6, <1>7, <1>8, <1>9, <1>10 DEF Inv, Structure

\* The monitor wakes up.
LEMMA MonitorTimeoutInv ==
    ASSUME Inv, MonitorTimeout
    PROVE  Inv'
<1>i. /\ TypeOK /\ QueuesOK /\ RequestsOK /\ WorkerOK /\ CleanupOK /\ PhaseOK
      /\ ReportsTruth /\ LockedMeansLocked /\ EventsAreComplete /\ CancelledUnlockIsOver
    BY DEF Inv, Structure
<1>1. TypeOK'
    BY <1>i DEF MonitorTimeout, TypeOK, ReqTable, Phases, Snapshot, authorityVars, idleVars,
       requestVars, dispatchVars, coreVars
<1>2. QueuesOK'
    BY <1>i DEF MonitorTimeout, QueuesOK, HasJob, authorityVars, idleVars, requestVars,
       dispatchVars, coreVars
<1>3. RequestsOK'
    BY <1>i, <1>1 DEF MonitorTimeout, TypeOK, RequestsOK, PhaseOK, Open, Terminal,
       authorityVars, idleVars, requestVars, dispatchVars, coreVars
<1>4. WorkerOK'
    BY <1>i, <1>1 DEF MonitorTimeout, WorkerOK, RequestsOK, Busy, Open, Revoked,
       authorityVars, idleVars, requestVars, dispatchVars, coreVars, Expired
<1>5. CleanupOK'
    BY <1>i, <1>1 DEF MonitorTimeout, CleanupOK, WorkerOK, Cleanup, Revoked, Open,
       authorityVars, idleVars, requestVars, dispatchVars, coreVars
<1>6. PhaseOK'
    BY <1>i, <1>1 DEF MonitorTimeout, PhaseOK, WorkerOK, ClockOnlyWhileUnlocked, Open,
       Revoked, authorityVars, idleVars, requestVars, dispatchVars, coreVars, Expired
<1>7. ReportsTruth'
    BY <1>i, <1>1 DEF MonitorTimeout, ReportsTruth, PhaseOK, WorkerOK,
       ClockOnlyWhileUnlocked, Busy, Expired, Open, Revoked, ConfigErrorIn, authorityVars,
       idleVars, requestVars, dispatchVars, coreVars
<1>8. LockedMeansLocked'
    BY <1>i, <1>1 DEF MonitorTimeout, LockedMeansLocked, PhaseOK, WorkerOK,
       ClockOnlyWhileUnlocked, Busy, Expired, Open, Revoked, ConfigErrorIn, authorityVars,
       idleVars, requestVars, dispatchVars, coreVars
<1>9. EventsAreComplete'
    BY <1>i DEF MonitorTimeout, EventsAreComplete, Snapshot, authorityVars, idleVars,
       requestVars, dispatchVars, coreVars
<1>10. CancelledUnlockIsOver'
    BY <1>i, <1>1 DEF MonitorTimeout, TypeOK, CancelledUnlockIsOver, RequestsOK, PhaseOK,
       Terminal, authorityVars, idleVars, requestVars, dispatchVars, coreVars
<1> QED BY <1>1, <1>2, <1>3, <1>4, <1>5, <1>6, <1>7, <1>8, <1>9, <1>10 DEF Inv, Structure

\* The timeout or the clock of an open session is set.
LEMMA ClockInv ==
    ASSUME Inv, Accepts(generation), timeoutOn' \in BOOLEAN,
           idle' \in {"fresh", idle}, idle' = "fresh" => phase = "Unlocked",
           monitor' \in {"off", "check", "timed", "untimed", "exited"},
           UNCHANGED <<authorityVars, requestVars, dispatchVars, coreVars>>
    PROVE  Inv'
<1>i. /\ TypeOK /\ QueuesOK /\ RequestsOK /\ WorkerOK /\ CleanupOK /\ PhaseOK
      /\ ReportsTruth /\ LockedMeansLocked /\ EventsAreComplete /\ CancelledUnlockIsOver
    BY DEF Inv, Structure
<1>1. TypeOK'
    BY <1>i DEF Accepts, TypeOK, ReqTable, Phases, authorityVars, idleVars, requestVars,
       dispatchVars, coreVars
<1>2. QueuesOK'
    BY <1>i DEF Accepts, QueuesOK, HasJob, authorityVars, idleVars, requestVars,
       dispatchVars, coreVars
<1>3. RequestsOK'
    BY <1>i, <1>1 DEF Accepts, TypeOK, RequestsOK, PhaseOK, Open, Terminal, authorityVars,
       idleVars, requestVars, dispatchVars, coreVars
<1>4. WorkerOK'
    BY <1>i, <1>1 DEF Accepts, WorkerOK, RequestsOK, Busy, Open, Revoked, authorityVars,
       idleVars, requestVars, dispatchVars, coreVars
<1>5. CleanupOK'
    BY <1>i, <1>1 DEF Accepts, CleanupOK, WorkerOK, Cleanup, Revoked, Open, authorityVars,
       idleVars, requestVars, dispatchVars, coreVars
<1>6. PhaseOK'
    BY <1>i, <1>1 DEF Accepts, PhaseOK, WorkerOK, ClockOnlyWhileUnlocked, Open, Revoked,
       authorityVars, idleVars, requestVars, dispatchVars, coreVars
<1>7. ReportsTruth'
    BY <1>i, <1>1 DEF Accepts, ReportsTruth, PhaseOK, WorkerOK, ClockOnlyWhileUnlocked,
       Busy, Expired, Open, Revoked, ConfigErrorIn, authorityVars, idleVars, requestVars,
       dispatchVars, coreVars
<1>8. LockedMeansLocked'
    BY <1>i, <1>1 DEF Accepts, LockedMeansLocked, PhaseOK, WorkerOK, ClockOnlyWhileUnlocked,
       Busy, Expired, Open, Revoked, ConfigErrorIn, authorityVars, idleVars, requestVars,
       dispatchVars, coreVars
<1>9. EventsAreComplete'
    BY <1>i DEF Accepts, EventsAreComplete, Snapshot, authorityVars, idleVars, requestVars,
       dispatchVars, coreVars
<1>10. CancelledUnlockIsOver'
    BY <1>i, <1>1 DEF Accepts, TypeOK, CancelledUnlockIsOver, RequestsOK, PhaseOK, Terminal,
       authorityVars, idleVars, requestVars, dispatchVars, coreVars
<1> QED BY <1>1, <1>2, <1>3, <1>4, <1>5, <1>6, <1>7, <1>8, <1>9, <1>10 DEF Inv, Structure

\* A command runs in the core.
LEMMA HandleInv ==
    ASSUME Inv, Handle
    PROVE  Inv'
<1>i. /\ TypeOK /\ QueuesOK /\ RequestsOK /\ WorkerOK /\ CleanupOK /\ PhaseOK
      /\ ReportsTruth /\ LockedMeansLocked /\ EventsAreComplete /\ CancelledUnlockIsOver
    BY DEF Inv, Structure
<1>t. worker \in WorkerStates /\ req \in ReqTable
    BY <1>i DEF TypeOK, ReqTable
<1>a. /\ worker.step = "checked" /\ worker' = [worker EXCEPT !.step = "handled"]
      /\ UNCHANGED <<authorityVars, idleVars, requestVars, privacy, user, low, shutdown>>
    BY DEF Handle, Running
<1>b. /\ unlocked' \in BOOLEAN /\ configured' \in BOOLEAN /\ (configured => configured')
      /\ unlocked' => unlocked \/ req[worker.job.id].cmd = "unlock"
    <2>1. unlocked \in BOOLEAN /\ configured \in BOOLEAN
        BY <1>i DEF TypeOK
    <2>2. CASE req[worker.job.id].cmd = "unlock"
        BY <2>1, <2>2 DEF Handle
    <2>3. CASE req[worker.job.id].cmd = "restore"
        BY <2>1, <2>3 DEF Handle
    <2>4. CASE req[worker.job.id].cmd \notin {"unlock", "restore"}
        BY <2>1, <2>4 DEF Handle
    <2> QED BY <2>2, <2>3, <2>4
<1>w. /\ worker' \in WorkerStates /\ worker'.step = "handled" /\ worker'.job = worker.job
      /\ worker'.reset = worker.reset /\ worker'.resetGen = worker.resetGen
    BY <1>a, <1>t, WorkerStep
<1>p. phase \in Open => worker.job.gen = generation
    BY <1>i, <1>a DEF WorkerOK, Busy, Open, Revoked
<1>1. TypeOK'
    BY <1>i, <1>t, <1>a, <1>b, <1>w, <1>p DEF TypeOK, ReqTable, Phases, authorityVars,
       idleVars, requestVars, dispatchVars, coreVars
<1>2. QueuesOK'
    BY <1>i, <1>t, <1>a, <1>b, <1>w, <1>p DEF QueuesOK, HasJob, authorityVars, idleVars,
       requestVars, dispatchVars, coreVars
<1>3. RequestsOK'
    BY <1>i, <1>t, <1>a, <1>b, <1>w, <1>p, <1>1 DEF TypeOK, RequestsOK, PhaseOK, Open,
       Terminal, authorityVars, idleVars, requestVars, dispatchVars, coreVars
<1>4. WorkerOK'
    BY <1>i, <1>t, <1>a, <1>b, <1>w, <1>p, <1>1 DEF WorkerOK, RequestsOK, Busy, Open,
       Revoked, authorityVars, idleVars, requestVars, dispatchVars, coreVars
<1>5. CleanupOK'
    BY <1>i, <1>t, <1>a, <1>b, <1>w, <1>p, <1>1 DEF CleanupOK, WorkerOK, Cleanup, Revoked,
       Open, authorityVars, idleVars, requestVars, dispatchVars, coreVars
<1>6. PhaseOK'
    BY <1>i, <1>t, <1>a, <1>b, <1>w, <1>p, <1>1 DEF PhaseOK, WorkerOK,
       ClockOnlyWhileUnlocked, Open, Revoked, authorityVars, idleVars, requestVars,
       dispatchVars, coreVars, Expired
<1>7. ReportsTruth'
    BY <1>i, <1>t, <1>a, <1>b, <1>w, <1>p, <1>1 DEF ReportsTruth, PhaseOK, WorkerOK,
       ClockOnlyWhileUnlocked, Busy, Expired, Open, Revoked, ConfigErrorIn, authorityVars,
       idleVars, requestVars, dispatchVars, coreVars
<1>8. LockedMeansLocked'
    BY <1>i, <1>t, <1>a, <1>b, <1>w, <1>p, <1>1 DEF LockedMeansLocked, PhaseOK, WorkerOK,
       ClockOnlyWhileUnlocked, Busy, Expired, Open, Revoked, ConfigErrorIn, authorityVars,
       idleVars, requestVars, dispatchVars, coreVars
<1>9. EventsAreComplete'
    BY <1>i, <1>t, <1>a, <1>b, <1>w, <1>p DEF EventsAreComplete, Snapshot, authorityVars,
       idleVars, requestVars, dispatchVars, coreVars
<1>10. CancelledUnlockIsOver'
    BY <1>i, <1>t, <1>a, <1>b, <1>w, <1>p, <1>1 DEF TypeOK, CancelledUnlockIsOver,
       RequestsOK, PhaseOK, Terminal, authorityVars, idleVars, requestVars, dispatchVars,
       coreVars
<1> QED BY <1>1, <1>2, <1>3, <1>4, <1>5, <1>6, <1>7, <1>8, <1>9, <1>10 DEF Inv, Structure

\* A refused erase changes nothing.
LEMMA EraseRefusedInv ==
    ASSUME Inv, EraseRefused
    PROVE  Inv'
<1>i. /\ TypeOK /\ QueuesOK /\ RequestsOK /\ WorkerOK /\ CleanupOK /\ PhaseOK
      /\ ReportsTruth /\ LockedMeansLocked /\ EventsAreComplete /\ CancelledUnlockIsOver
    BY DEF Inv, Structure
<1>t. worker \in WorkerStates /\ req \in ReqTable
    BY <1>i DEF TypeOK, ReqTable
<1>a. /\ worker.step = "checked" /\ worker' = [worker EXCEPT !.step = "handled"]
      /\ UNCHANGED <<authorityVars, idleVars, requestVars, privacy, user, low, shutdown, coreVars>>
    BY DEF EraseRefused, Running
<1>w. /\ worker' \in WorkerStates /\ worker'.step = "handled" /\ worker'.job = worker.job
      /\ worker'.reset = worker.reset /\ worker'.resetGen = worker.resetGen
    BY <1>a, <1>t, WorkerStep
<1>1. TypeOK'
    BY <1>i, <1>t, <1>a, <1>w DEF TypeOK, ReqTable, Phases, authorityVars, idleVars,
       requestVars, dispatchVars, coreVars
<1>2. QueuesOK'
    BY <1>i, <1>t, <1>a, <1>w DEF QueuesOK, HasJob, authorityVars, idleVars, requestVars,
       dispatchVars, coreVars
<1>3. RequestsOK'
    BY <1>i, <1>t, <1>a, <1>w, <1>1 DEF TypeOK, RequestsOK, PhaseOK, Open, Terminal,
       authorityVars, idleVars, requestVars, dispatchVars, coreVars
<1>4. WorkerOK'
    BY <1>i, <1>t, <1>a, <1>w, <1>1 DEF WorkerOK, RequestsOK, Busy, Open, Revoked,
       authorityVars, idleVars, requestVars, dispatchVars, coreVars
<1>5. CleanupOK'
    BY <1>i, <1>t, <1>a, <1>w, <1>1 DEF CleanupOK, WorkerOK, Cleanup, Revoked, Open,
       authorityVars, idleVars, requestVars, dispatchVars, coreVars
<1>6. PhaseOK'
    BY <1>i, <1>t, <1>a, <1>w, <1>1 DEF PhaseOK, WorkerOK, ClockOnlyWhileUnlocked, Open,
       Revoked, authorityVars, idleVars, requestVars, dispatchVars, coreVars, Expired
<1>7. ReportsTruth'
    BY <1>i, <1>t, <1>a, <1>w, <1>1 DEF ReportsTruth, PhaseOK, WorkerOK,
       ClockOnlyWhileUnlocked, Busy, Expired, Open, Revoked, ConfigErrorIn, authorityVars,
       idleVars, requestVars, dispatchVars, coreVars
<1>8. LockedMeansLocked'
    BY <1>i, <1>t, <1>a, <1>w, <1>1 DEF LockedMeansLocked, PhaseOK, WorkerOK,
       ClockOnlyWhileUnlocked, Busy, Expired, Open, Revoked, ConfigErrorIn, authorityVars,
       idleVars, requestVars, dispatchVars, coreVars
<1>9. EventsAreComplete'
    BY <1>i, <1>t, <1>a, <1>w DEF EventsAreComplete, Snapshot, authorityVars, idleVars,
       requestVars, dispatchVars, coreVars
<1>10. CancelledUnlockIsOver'
    BY <1>i, <1>t, <1>a, <1>w, <1>1 DEF TypeOK, CancelledUnlockIsOver, RequestsOK, PhaseOK,
       Terminal, authorityVars, idleVars, requestVars, dispatchVars, coreVars
<1> QED BY <1>1, <1>2, <1>3, <1>4, <1>5, <1>6, <1>7, <1>8, <1>9, <1>10 DEF Inv, Structure

\* An erase leaves a locked core.
LEMMA EraseEndsInv ==
    ASSUME Inv, EraseEnds
    PROVE  Inv'
<1>i. /\ TypeOK /\ QueuesOK /\ RequestsOK /\ WorkerOK /\ CleanupOK /\ PhaseOK
      /\ ReportsTruth /\ LockedMeansLocked /\ EventsAreComplete /\ CancelledUnlockIsOver
    BY DEF Inv, Structure
<1>t. worker \in WorkerStates /\ req \in ReqTable
    BY <1>i DEF TypeOK, ReqTable
<1>a. /\ worker.step = "erasing" /\ worker' = [worker EXCEPT !.step = "handled"]
      /\ unlocked' \in BOOLEAN /\ ~unlocked' /\ configured' \in BOOLEAN
      /\ UNCHANGED <<authorityVars, idleVars, requestVars, privacy, user, low, shutdown>>
    BY <1>i DEF EraseEnds, TypeOK
<1>w. /\ worker' \in WorkerStates /\ worker'.step = "handled" /\ worker'.job = worker.job
      /\ worker'.reset = worker.reset /\ worker'.resetGen = worker.resetGen
    BY <1>a, <1>t, WorkerStep
<1>1. TypeOK'
    BY <1>i, <1>t, <1>a, <1>w DEF TypeOK, ReqTable, Phases, authorityVars, idleVars,
       requestVars, dispatchVars, coreVars
<1>2. QueuesOK'
    BY <1>i, <1>t, <1>a, <1>w DEF QueuesOK, HasJob, authorityVars, idleVars, requestVars,
       dispatchVars, coreVars
<1>3. RequestsOK'
    BY <1>i, <1>t, <1>a, <1>w, <1>1 DEF TypeOK, RequestsOK, PhaseOK, Open, Terminal,
       authorityVars, idleVars, requestVars, dispatchVars, coreVars
<1>4. WorkerOK'
    BY <1>i, <1>t, <1>a, <1>w, <1>1 DEF WorkerOK, RequestsOK, Busy, Open, Revoked,
       authorityVars, idleVars, requestVars, dispatchVars, coreVars, Expired
<1>5. CleanupOK'
    BY <1>i, <1>t, <1>a, <1>w, <1>1 DEF CleanupOK, WorkerOK, Cleanup, Revoked, Open,
       authorityVars, idleVars, requestVars, dispatchVars, coreVars
<1>6. PhaseOK'
    BY <1>i, <1>t, <1>a, <1>w, <1>1 DEF PhaseOK, WorkerOK, ClockOnlyWhileUnlocked, Open,
       Revoked, authorityVars, idleVars, requestVars, dispatchVars, coreVars
<1>7. ReportsTruth'
    BY <1>i, <1>t, <1>a, <1>w, <1>1 DEF ReportsTruth, PhaseOK, WorkerOK,
       ClockOnlyWhileUnlocked, Busy, Expired, Open, Revoked, ConfigErrorIn, authorityVars,
       idleVars, requestVars, dispatchVars, coreVars
<1>8. LockedMeansLocked'
    BY <1>i, <1>t, <1>a, <1>w, <1>1 DEF LockedMeansLocked, PhaseOK, WorkerOK,
       ClockOnlyWhileUnlocked, Busy, Expired, Open, Revoked, ConfigErrorIn, authorityVars,
       idleVars, requestVars, dispatchVars, coreVars
<1>9. EventsAreComplete'
    BY <1>i, <1>t, <1>a, <1>w DEF EventsAreComplete, Snapshot, authorityVars, idleVars,
       requestVars, dispatchVars, coreVars
<1>10. CancelledUnlockIsOver'
    BY <1>i, <1>t, <1>a, <1>w, <1>1 DEF TypeOK, CancelledUnlockIsOver, RequestsOK, PhaseOK,
       Terminal, authorityVars, idleVars, requestVars, dispatchVars, coreVars
<1> QED BY <1>1, <1>2, <1>3, <1>4, <1>5, <1>6, <1>7, <1>8, <1>9, <1>10 DEF Inv, Structure

\* A cleanup completes the revocation.
LEMMA CleanupAuthorityInv ==
    ASSUME Inv, CleanupAuthority
    PROVE  Inv'
<1>i. /\ TypeOK /\ QueuesOK /\ RequestsOK /\ WorkerOK /\ CleanupOK /\ PhaseOK
      /\ ReportsTruth /\ LockedMeansLocked /\ EventsAreComplete /\ CancelledUnlockIsOver
    BY DEF Inv, Structure
<1>t. worker \in WorkerStates /\ req \in ReqTable
    BY <1>i DEF TypeOK, ReqTable
<1>a. /\ worker.step = "cleaned"
      /\ UNCHANGED <<generation, foreground, idle, timeoutOn, requestVars, privacy, user, low,
                     shutdown, coreVars>>
    BY DEF CleanupAuthority, Emit
<1>w. /\ worker' \in WorkerStates /\ worker'.step \in {"idle", "closing"}
      /\ worker'.reset = FALSE /\ worker'.resetGen = 0
    <2>1. worker.reset = FALSE /\ worker.resetGen = 0
        BY <1>i, <1>a, <1>t, WorkerParts DEF WorkerOK
    <2> QED BY <2>1, <1>t, IdleType, WorkerStep DEF CleanupAuthority
<1>p. phase \in Revoked /\ (worker.ok => ~unlocked) /\ (shutdown => FALSE)
    BY <1>i, <1>a DEF WorkerOK, QueuesOK
<1>b. /\ cleanupPending' \in BOOLEAN /\ masterConfigured' \in BOOLEAN
      /\ monitor' \in {"off", "check", "timed", "untimed", "exited"}
      /\ \/ UNCHANGED <<phase, masterConfigured, cleanupPending, announced>>
         \/ announced' = Snapshot' /\ phase = "Closed" /\ phase' = "Closed"
         \/ announced' = Snapshot' /\ phase = "Deactivating" /\ phase' = "Failed"
         \/ /\ announced' = Snapshot' /\ phase = "Deactivating" /\ worker.ok
            /\ masterConfigured' = configured
            /\ phase' = IF foreground THEN "Locked" ELSE "Inactive"
    <2>1. /\ monitor \in {"off", "check", "timed", "untimed", "exited"}
          /\ cleanupPending \in BOOLEAN /\ masterConfigured \in BOOLEAN /\ configured \in BOOLEAN
        BY <1>i DEF TypeOK
    <2>2. CASE generation = worker.job.gen
        BY <2>1, <2>2, <1>p
        DEF CleanupAuthority, CleanedPhase, CleanedMaster, Emit, Notified, Revoked
    <2>3. CASE generation # worker.job.gen
        BY <2>1, <2>3 DEF CleanupAuthority
    <2> QED BY <2>2, <2>3
<1>1. TypeOK'
    BY <1>i, <1>t, <1>a, <1>b, <1>w, <1>p DEF TypeOK, ReqTable, Phases, Snapshot, Revoked,
       authorityVars, idleVars, requestVars, dispatchVars, coreVars
<1>2. QueuesOK'
    BY <1>i, <1>t, <1>a, <1>b, <1>w, <1>p DEF QueuesOK, HasJob, authorityVars, idleVars,
       requestVars, dispatchVars, coreVars
<1>3. RequestsOK'
    BY <1>i, <1>t, <1>a, <1>b, <1>w, <1>p, <1>1 DEF TypeOK, RequestsOK, PhaseOK, Open,
       Terminal, Revoked, authorityVars, idleVars, requestVars, dispatchVars, coreVars
<1>4. WorkerOK'
    BY <1>i, <1>t, <1>a, <1>b, <1>w, <1>p, <1>1 DEF WorkerOK, RequestsOK, Busy, Open,
       Revoked, authorityVars, idleVars, requestVars, dispatchVars, coreVars
<1>5. CleanupOK'
    BY <1>i, <1>t, <1>a, <1>b, <1>w, <1>p, <1>1 DEF CleanupOK, WorkerOK, Cleanup, Revoked,
       Open, authorityVars, idleVars, requestVars, dispatchVars, coreVars
<1>6. PhaseOK'
    BY <1>i, <1>t, <1>a, <1>b, <1>w, <1>p, <1>1 DEF PhaseOK, WorkerOK,
       ClockOnlyWhileUnlocked, Open, Revoked, authorityVars, idleVars, requestVars,
       dispatchVars, coreVars
<1>7. ReportsTruth'
    BY <1>i, <1>t, <1>a, <1>b, <1>w, <1>p, <1>1 DEF ReportsTruth, PhaseOK, WorkerOK,
       ClockOnlyWhileUnlocked, Busy, Expired, Open, Revoked, ConfigErrorIn, authorityVars,
       idleVars, requestVars, dispatchVars, coreVars
<1>8. LockedMeansLocked'
    BY <1>i, <1>t, <1>a, <1>b, <1>w, <1>p, <1>1 DEF LockedMeansLocked, PhaseOK, WorkerOK,
       ClockOnlyWhileUnlocked, Busy, Expired, Open, Revoked, ConfigErrorIn, authorityVars,
       idleVars, requestVars, dispatchVars, coreVars
<1>9. EventsAreComplete'
    BY <1>i, <1>t, <1>a, <1>b, <1>w, <1>p DEF EventsAreComplete, Snapshot, authorityVars,
       idleVars, requestVars, dispatchVars, coreVars
<1>10. CancelledUnlockIsOver'
    BY <1>i, <1>t, <1>a, <1>b, <1>w, <1>p, <1>1 DEF TypeOK, CancelledUnlockIsOver,
       RequestsOK, PhaseOK, Terminal, Revoked, authorityVars, idleVars, requestVars,
       dispatchVars, coreVars
<1> QED BY <1>1, <1>2, <1>3, <1>4, <1>5, <1>6, <1>7, <1>8, <1>9, <1>10 DEF Inv, Structure

\* The worker ends.
LEMMA WorkerExitInv ==
    ASSUME Inv, WorkerExit
    PROVE  Inv'
<1>i. /\ TypeOK /\ QueuesOK /\ RequestsOK /\ WorkerOK /\ CleanupOK /\ PhaseOK
      /\ ReportsTruth /\ LockedMeansLocked /\ EventsAreComplete /\ CancelledUnlockIsOver
    BY DEF Inv, Structure
<1>t. worker \in WorkerStates /\ req \in ReqTable
    BY <1>i DEF TypeOK, ReqTable
<1>a. /\ worker.step = "idle" /\ shutdown /\ worker' = [Idle EXCEPT !.step = "exited"]
      /\ UNCHANGED <<authorityVars, idleVars, requestVars, privacy, user, low, shutdown, coreVars>>
    BY DEF WorkerExit
<1>w. /\ worker' \in WorkerStates /\ worker'.step = "exited"
      /\ worker'.reset = FALSE /\ worker'.resetGen = 0
    BY <1>a, IdleType
<1>1. TypeOK'
    BY <1>i, <1>t, <1>a, <1>w DEF TypeOK, ReqTable, Phases, authorityVars, idleVars,
       requestVars, dispatchVars, coreVars
<1>2. QueuesOK'
    BY <1>i, <1>t, <1>a, <1>w DEF QueuesOK, HasJob, authorityVars, idleVars, requestVars,
       dispatchVars, coreVars
<1>3. RequestsOK'
    BY <1>i, <1>t, <1>a, <1>w, <1>1 DEF TypeOK, RequestsOK, PhaseOK, Open, Terminal,
       authorityVars, idleVars, requestVars, dispatchVars, coreVars
<1>4. WorkerOK'
    BY <1>i, <1>t, <1>a, <1>w, <1>1 DEF WorkerOK, RequestsOK, Busy, Open, Revoked,
       authorityVars, idleVars, requestVars, dispatchVars, coreVars
<1>5. CleanupOK'
    BY <1>i, <1>t, <1>a, <1>w, <1>1 DEF CleanupOK, WorkerOK, Cleanup, Revoked, Open,
       authorityVars, idleVars, requestVars, dispatchVars, coreVars
<1>6. PhaseOK'
    BY <1>i, <1>t, <1>a, <1>w, <1>1 DEF PhaseOK, WorkerOK, ClockOnlyWhileUnlocked, Open,
       Revoked, authorityVars, idleVars, requestVars, dispatchVars, coreVars, Expired
<1>7. ReportsTruth'
    BY <1>i, <1>t, <1>a, <1>w, <1>1 DEF ReportsTruth, PhaseOK, WorkerOK,
       ClockOnlyWhileUnlocked, Busy, Expired, Open, Revoked, ConfigErrorIn, authorityVars,
       idleVars, requestVars, dispatchVars, coreVars
<1>8. LockedMeansLocked'
    BY <1>i, <1>t, <1>a, <1>w, <1>1 DEF LockedMeansLocked, PhaseOK, WorkerOK,
       ClockOnlyWhileUnlocked, Busy, Expired, Open, Revoked, ConfigErrorIn, authorityVars,
       idleVars, requestVars, dispatchVars, coreVars
<1>9. EventsAreComplete'
    BY <1>i, <1>t, <1>a, <1>w DEF EventsAreComplete, Snapshot, authorityVars, idleVars,
       requestVars, dispatchVars, coreVars
<1>10. CancelledUnlockIsOver'
    BY <1>i, <1>t, <1>a, <1>w, <1>1 DEF TypeOK, CancelledUnlockIsOver, RequestsOK, PhaseOK,
       Terminal, authorityVars, idleVars, requestVars, dispatchVars, coreVars
<1> QED BY <1>1, <1>2, <1>3, <1>4, <1>5, <1>6, <1>7, <1>8, <1>9, <1>10 DEF Inv, Structure

\* A caller changes the future or the flags of its request.
LEMMA CallerInv ==
    ASSUME Inv, req' \in ReqTable, lastRequest' = lastRequest,
           UNCHANGED <<authorityVars, idleVars, dispatchVars, coreVars>>,
           cancelling \subseteq cancelling', cancelling' \subseteq Requests,
           \A id \in Requests :
               /\ req'[id].cmd = req[id].cmd /\ req'[id].gen = req[id].gen
               /\ req'[id].failed = req[id].failed /\ req'[id].job = req[id].job
               /\ id > lastRequest => req'[id] = req[id]
               /\ req'[id].fut = "admitted" => req[id].fut = "admitted"
               /\ req'[id].cancel => req[id].cancel \/ id \in cancelling' \/ req[id].cmd # "unlock"
    PROVE  Inv'
<1>i. /\ TypeOK /\ QueuesOK /\ RequestsOK /\ WorkerOK /\ CleanupOK /\ PhaseOK
      /\ ReportsTruth /\ LockedMeansLocked /\ EventsAreComplete /\ CancelledUnlockIsOver
    BY DEF Inv, Structure
<1>t. worker \in WorkerStates /\ req \in ReqTable
    BY <1>i DEF TypeOK, ReqTable
<1>k. \A cmds : ConfigErrorIn(cmds) => ConfigErrorIn(cmds)'
    BY ConfigErrorKept DEF authorityVars
<1>l. \A id \in Requests : id > lastRequest => req'[id] = NoRequest
    BY <1>i DEF RequestsOK
<1>1. TypeOK'
    BY <1>i, <1>t, <1>k, <1>l DEF TypeOK, ReqTable, Phases, authorityVars, idleVars,
       requestVars, dispatchVars, coreVars
<1>2. QueuesOK'
    BY <1>i, QueuesKept DEF QueuesOK, dispatchVars
<1>3. RequestsOK'
    BY <1>i, <1>l DEF RequestsOK, authorityVars
<1>4. WorkerOK'
    BY <1>i, <1>t, <1>k, <1>l, <1>1 DEF WorkerOK, RequestsOK, Busy, Open, Revoked, TypeOK,
       authorityVars, idleVars, requestVars, dispatchVars, coreVars, Expired
<1>5. CleanupOK'
    BY <1>i, <1>t, <1>k, <1>l, <1>1 DEF CleanupOK, WorkerOK, Cleanup, Revoked, Open,
       authorityVars, idleVars, requestVars, dispatchVars, coreVars
<1>6. PhaseOK'
    BY <1>i, <1>t, <1>k, <1>l, <1>1 DEF PhaseOK, WorkerOK, ClockOnlyWhileUnlocked, Open,
       Revoked, authorityVars, idleVars, requestVars, dispatchVars, coreVars, Expired
<1>7. ReportsTruth'
    BY <1>i, <1>t, <1>k, <1>l, <1>1 DEF ReportsTruth, PhaseOK, WorkerOK,
       ClockOnlyWhileUnlocked, Busy, Expired, Open, Revoked, authorityVars, idleVars,
       requestVars, dispatchVars, coreVars
<1>8. LockedMeansLocked'
    BY <1>i, <1>t, <1>k, <1>l, <1>1 DEF LockedMeansLocked, PhaseOK, WorkerOK,
       ClockOnlyWhileUnlocked, Busy, Expired, Open, Revoked, authorityVars, idleVars,
       requestVars, dispatchVars, coreVars
<1>9. EventsAreComplete'
    BY <1>i, <1>t, <1>k, <1>l DEF EventsAreComplete, Snapshot, authorityVars, idleVars,
       requestVars, dispatchVars, coreVars
<1>10. CancelledUnlockIsOver'
    BY <1>i, <1>t, <1>k, <1>l, <1>1 DEF TypeOK, CancelledUnlockIsOver, RequestsOK, PhaseOK,
       Terminal, authorityVars, idleVars, requestVars, dispatchVars, coreVars
<1> QED BY <1>1, <1>2, <1>3, <1>4, <1>5, <1>6, <1>7, <1>8, <1>9, <1>10 DEF Inv, Structure

\* A request is dropped before it is queued.
LEMMA DropAdmittedInv ==
    ASSUME NEW id \in Requests, Inv, DropAdmitted(id)
    PROVE  Inv'
<1>t. req \in ReqTable /\ cancelling \subseteq Requests /\ RequestsOK
    BY DEF Inv, Structure, TypeOK, ReqTable
<1> DEFINE y == [req[id] EXCEPT !.fut = "done"]
<1>1. req' = [req EXCEPT ![id] = y]
    BY <1>t DEF DropAdmitted, ReqTable
<1>2. req[id] \in RequestStates
    BY <1>t, RequestParts
<1>3. /\ y \in RequestStates /\ y.cmd = req[id].cmd /\ y.gen = req[id].gen
      /\ y.failed = req[id].failed /\ y.job = req[id].job
      /\ y.cancel = req[id].cancel /\ y.fut = "done"
    BY <1>2 DEF RequestStates
<1>4. /\ req[id].fut # "none" /\ cancelling' = cancelling
      /\ lastRequest' = lastRequest /\ UNCHANGED <<authorityVars, idleVars, dispatchVars, coreVars>>
    BY DEF DropAdmitted
<1> HIDE DEF y
<1>5. req' \in ReqTable /\ req'[id] = y /\ \A o \in Requests \ {id} : req'[o] = req[o]
    BY <1>t, <1>1, <1>3 DEF ReqTable
<1>6. ~(id > lastRequest)
    BY <1>t, <1>4 DEF RequestsOK, NoRequest
<1> QED BY <1>t, <1>3, <1>4, <1>5, <1>6, CallerInv

\* A job is refused.
LEMMA ExecuteClosedInv ==
    ASSUME NEW id \in Requests, Inv, ExecuteClosed(id)
    PROVE  Inv'
<1>t. req \in ReqTable /\ cancelling \subseteq Requests /\ RequestsOK
    BY DEF Inv, Structure, TypeOK, ReqTable
<1> DEFINE y == [req[id] EXCEPT !.fut = "leaving"]
<1>1. req' = [req EXCEPT ![id] = y]
    BY <1>t DEF ExecuteClosed, ReqTable
<1>2. req[id] \in RequestStates
    BY <1>t, RequestParts
<1>3. /\ y \in RequestStates /\ y.cmd = req[id].cmd /\ y.gen = req[id].gen
      /\ y.failed = req[id].failed /\ y.job = req[id].job
      /\ y.cancel = req[id].cancel /\ y.fut = "leaving"
    BY <1>2 DEF RequestStates
<1>4. /\ req[id].fut # "none" /\ cancelling' = cancelling
      /\ lastRequest' = lastRequest /\ UNCHANGED <<authorityVars, idleVars, dispatchVars, coreVars>>
    BY DEF ExecuteClosed
<1> HIDE DEF y
<1>5. req' \in ReqTable /\ req'[id] = y /\ \A o \in Requests \ {id} : req'[o] = req[o]
    BY <1>t, <1>1, <1>3 DEF ReqTable
<1>6. ~(id > lastRequest)
    BY <1>t, <1>4 DEF RequestsOK, NoRequest
<1> QED BY <1>t, <1>3, <1>4, <1>5, <1>6, CallerInv

\* A caller stops waiting.
LEMMA DropWaitingInv ==
    ASSUME NEW id \in Requests, Inv, DropWaiting(id)
    PROVE  Inv'
<1>t. req \in ReqTable /\ cancelling \subseteq Requests /\ RequestsOK
    BY DEF Inv, Structure, TypeOK, ReqTable
<1> DEFINE y == [req[id] EXCEPT !.fut = "leaving", !.reply = "none"]
<1>1. req' = [req EXCEPT ![id] = y]
    BY <1>t DEF DropWaiting, ReqTable
<1>2. req[id] \in RequestStates
    BY <1>t, RequestParts
<1>3. /\ y \in RequestStates /\ y.cmd = req[id].cmd /\ y.gen = req[id].gen
      /\ y.failed = req[id].failed /\ y.job = req[id].job
      /\ y.cancel = req[id].cancel /\ y.fut = "leaving"
    BY <1>2 DEF RequestStates
<1>4. /\ req[id].fut # "none" /\ cancelling' = cancelling
      /\ lastRequest' = lastRequest /\ UNCHANGED <<authorityVars, idleVars, dispatchVars, coreVars>>
    BY DEF DropWaiting
<1> HIDE DEF y
<1>5. req' \in ReqTable /\ req'[id] = y /\ \A o \in Requests \ {id} : req'[o] = req[o]
    BY <1>t, <1>1, <1>3 DEF ReqTable
<1>6. ~(id > lastRequest)
    BY <1>t, <1>4 DEF RequestsOK, NoRequest
<1> QED BY <1>t, <1>3, <1>4, <1>5, <1>6, CallerInv

\* A request that ends without a reply is flagged.
LEMMA LeaveInv ==
    ASSUME NEW id \in Requests, Inv, Leave(id)
    PROVE  Inv'
<1>t. req \in ReqTable /\ cancelling \subseteq Requests /\ RequestsOK
    BY DEF Inv, Structure, TypeOK, ReqTable
<1> DEFINE y == [req[id] EXCEPT !.cancel = TRUE, !.fut = "done"]
<1>1. req' = [req EXCEPT ![id] = y]
    BY <1>t DEF Leave, CancelFlag, ReqTable
<1>2. req[id] \in RequestStates
    BY <1>t, RequestParts
<1>3. /\ y \in RequestStates /\ y.cmd = req[id].cmd /\ y.gen = req[id].gen
      /\ y.failed = req[id].failed /\ y.job = req[id].job
      /\ y.fut = "done"
    BY <1>2 DEF RequestStates
<1>4. /\ req[id].fut # "none" /\ cancelling' = IF req[id].cmd = "unlock" THEN cancelling \cup {id} ELSE cancelling
      /\ lastRequest' = lastRequest /\ UNCHANGED <<authorityVars, idleVars, dispatchVars, coreVars>>
    BY DEF Leave, CancelFlag
<1> HIDE DEF y
<1>5. req' \in ReqTable /\ req'[id] = y /\ \A o \in Requests \ {id} : req'[o] = req[o]
    BY <1>t, <1>1, <1>3 DEF ReqTable
<1>6. ~(id > lastRequest)
    BY <1>t, <1>4 DEF RequestsOK, NoRequest
<1> QED BY <1>t, <1>3, <1>4, <1>5, <1>6, CallerInv

\* A pending request is flagged.
LEMMA CancelInv ==
    ASSUME NEW id \in Requests, Inv, Cancel(id)
    PROVE  Inv'
<1>t. req \in ReqTable /\ cancelling \subseteq Requests /\ RequestsOK
    BY DEF Inv, Structure, TypeOK, ReqTable
<1> DEFINE y == [req[id] EXCEPT !.cancel = TRUE]
<1>2. req[id] \in RequestStates
    BY <1>t, RequestParts
<1>1. req' = [req EXCEPT ![id] = y]
    BY <1>t, <1>2 DEF Cancel, CancelFlag, ReqTable, RequestStates
<1>3. /\ y \in RequestStates /\ y.cmd = req[id].cmd /\ y.gen = req[id].gen
      /\ y.failed = req[id].failed /\ y.job = req[id].job /\ y.fut = req[id].fut
    BY <1>2 DEF RequestStates
<1>4. /\ Pending(id)
      /\ cancelling' = IF req[id].cmd = "unlock" THEN cancelling \cup {id} ELSE cancelling
      /\ lastRequest' = lastRequest /\ UNCHANGED <<authorityVars, idleVars, dispatchVars, coreVars>>
    BY DEF Cancel, CancelFlag
<1> HIDE DEF y
<1>5. req' \in ReqTable /\ req'[id] = y /\ \A o \in Requests \ {id} : req'[o] = req[o]
    BY <1>t, <1>1, <1>3 DEF ReqTable
<1>6. ~(id > lastRequest)
    BY <1>t, <1>4 DEF RequestsOK, NoRequest, Pending
<1> QED BY <1>t, <1>3, <1>4, <1>5, <1>6, CallerInv

\* A reply is delivered, or the request leaves without it.
LEMMA RespondInv ==
    ASSUME NEW id \in Requests, Inv, Respond(id)
    PROVE  Inv'
<1>t. req \in ReqTable /\ cancelling \subseteq Requests /\ RequestsOK
    BY DEF Inv, Structure, TypeOK, ReqTable
<1>f. PICK f \in {"done", "leaving"} :
        req' = [req EXCEPT ![id].fut = f, ![id].reply = "none"]
    BY DEF Respond
<1> DEFINE y == [req[id] EXCEPT !.fut = f, !.reply = "none"]
<1>1. req' = [req EXCEPT ![id] = y]
    BY <1>f, <1>t DEF ReqTable
<1>2. req[id] \in RequestStates
    BY <1>t, RequestParts
<1>3. /\ y \in RequestStates /\ y.cmd = req[id].cmd /\ y.gen = req[id].gen
      /\ y.failed = req[id].failed /\ y.job = req[id].job
      /\ y.cancel = req[id].cancel /\ y.fut = f
    BY <1>2 DEF RequestStates
<1>4. /\ req[id].fut # "none" /\ cancelling' = cancelling
      /\ lastRequest' = lastRequest /\ UNCHANGED <<authorityVars, idleVars, dispatchVars, coreVars>>
    BY DEF Respond
<1> HIDE DEF y
<1>5. req' \in ReqTable /\ req'[id] = y /\ \A o \in Requests \ {id} : req'[o] = req[o]
    BY <1>t, <1>1, <1>3 DEF ReqTable
<1>6. ~(id > lastRequest)
    BY <1>t, <1>4 DEF RequestsOK, NoRequest
<1> QED BY <1>t, <1>3, <1>4, <1>5, <1>6, CallerInv

\* A request enters an open session.
LEMMA AdmitInv ==
    ASSUME NEW cmd \in Commands, lastRequest < MaxRequest, Inv, Admit(lastRequest + 1, cmd)
    PROVE  Inv'
<1>i. /\ TypeOK /\ QueuesOK /\ RequestsOK /\ WorkerOK /\ CleanupOK /\ PhaseOK
      /\ ReportsTruth /\ LockedMeansLocked /\ EventsAreComplete /\ CancelledUnlockIsOver
    BY DEF Inv, Structure
<1>t. worker \in WorkerStates /\ req \in ReqTable
    BY <1>i DEF TypeOK, ReqTable
<1>d. PICK id : id = lastRequest + 1
    OBVIOUS
<1>e. id \in Requests /\ lastRequest \in Nat /\ lastRequest < id
    BY <1>i, <1>d, SessionAssumption DEF TypeOK, Requests
<1> DEFINE y == [NoRequest EXCEPT !.cmd = cmd, !.gen = generation, !.fut = "admitted"]
<1>a. /\ Accepts(generation) /\ lastRequest' = id /\ req' = [req EXCEPT ![id] = y]
      /\ UNCHANGED <<authorityVars, idleVars, cancelling, dispatchVars, coreVars>>
    BY <1>d DEF Admit
<1>y. /\ y \in RequestStates /\ y.gen = generation /\ y.fut = "admitted" /\ y.job = "none"
      /\ ~y.failed /\ ~y.cancel /\ y.cmd # "none"
    BY <1>i, SessionAssumption DEF NoRequest, RequestStates, TypeOK, AllCommands
<1> HIDE DEF y
<1>r. /\ req' \in ReqTable /\ req'[id] = y /\ \A o \in Requests \ {id} : req'[o] = req[o]
      /\ req[id] = NoRequest
    BY <1>i, <1>t, <1>a, <1>e, <1>y DEF ReqTable, RequestsOK
<1>n. NoRequest.job = "none" /\ ~NoRequest.failed
    BY DEF NoRequest
<1>k. \A cmds : ConfigErrorIn(cmds) => ConfigErrorIn(cmds)'
    BY <1>a, <1>r, <1>n, ConfigErrorKept DEF authorityVars
<1>1. TypeOK'
    BY <1>i, <1>t, <1>a, <1>e, <1>y, <1>r, <1>n, <1>k DEF TypeOK, ReqTable, Phases,
       Requests, authorityVars, idleVars, requestVars, dispatchVars, coreVars
<1>2. QueuesOK'
    BY <1>i, <1>a, <1>r, <1>n, QueuesKept DEF QueuesOK, dispatchVars
<1>3. RequestsOK'
    <2>1. phase \in Open
        BY <1>a DEF Accepts, Open
    <2>2. \A o \in Requests : o > id => o > lastRequest /\ o # id
        BY <1>e DEF Requests
    <2>3. generation \in Nat
        BY <1>i DEF TypeOK
    <2> QED BY <1>i, <1>a, <1>y, <1>r, <2>1, <2>2, <2>3 DEF RequestsOK, authorityVars
<1>4. WorkerOK'
    <2>1. Busy => worker.job.id # id
        BY <1>i, <1>r, <1>n DEF WorkerOK
    <2> QED BY <1>i, <1>a, <1>r, <2>1 DEF WorkerOK, Busy, authorityVars, dispatchVars, coreVars,
       Expired, idleVars
<1>5. CleanupOK'
    BY <1>i, <1>t, <1>a, <1>e, <1>y, <1>r, <1>n, <1>k, <1>1 DEF CleanupOK, WorkerOK,
       Cleanup, Revoked, Open, authorityVars, idleVars, requestVars, dispatchVars, coreVars
<1>6. PhaseOK'
    BY <1>i, <1>t, <1>a, <1>e, <1>y, <1>r, <1>n, <1>k, <1>1 DEF PhaseOK, WorkerOK,
       ClockOnlyWhileUnlocked, Open, Revoked, authorityVars, idleVars, requestVars,
       dispatchVars, coreVars, Expired
<1>7. ReportsTruth'
    BY <1>i, <1>t, <1>a, <1>e, <1>y, <1>r, <1>n, <1>k, <1>1 DEF ReportsTruth, PhaseOK,
       WorkerOK, ClockOnlyWhileUnlocked, Busy, Expired, Open, Revoked, authorityVars,
       idleVars, requestVars, dispatchVars, coreVars
<1>8. LockedMeansLocked'
    <2>1. Busy => worker.job.id # id /\ worker.job.id \in Requests
        BY <1>i, <1>r, <1>n DEF WorkerOK
    <2> QED BY <1>i, <1>a, <1>r, <1>k, <2>1
            DEF LockedMeansLocked, Busy, authorityVars, dispatchVars, coreVars
<1>9. EventsAreComplete'
    BY <1>i, <1>t, <1>a, <1>e, <1>y, <1>r, <1>n, <1>k DEF EventsAreComplete, Snapshot,
       authorityVars, idleVars, requestVars, dispatchVars, coreVars
<1>10. CancelledUnlockIsOver'
    BY <1>i, <1>t, <1>a, <1>e, <1>y, <1>r, <1>n, <1>k, <1>1 DEF TypeOK,
       CancelledUnlockIsOver, RequestsOK, PhaseOK, Terminal, authorityVars, idleVars,
       requestVars, dispatchVars, coreVars
<1> QED BY <1>1, <1>2, <1>3, <1>4, <1>5, <1>6, <1>7, <1>8, <1>9, <1>10 DEF Inv, Structure

\* A job enters its queue.
LEMMA ExecuteInv ==
    ASSUME NEW id \in Requests, Inv, Execute(id)
    PROVE  Inv'
<1>i. /\ TypeOK /\ QueuesOK /\ RequestsOK /\ WorkerOK /\ CleanupOK /\ PhaseOK
      /\ ReportsTruth /\ LockedMeansLocked /\ EventsAreComplete /\ CancelledUnlockIsOver
    BY DEF Inv, Structure
<1>t. worker \in WorkerStates /\ req \in ReqTable
    BY <1>i DEF TypeOK, ReqTable
<1>a. /\ req[id].fut = "admitted" /\ ~shutdown
      /\ UNCHANGED <<authorityVars, idleVars, lastRequest, cancelling, shutdown, worker, coreVars>>
    BY DEF Execute
<1> DEFINE name == Priority(req[id].cmd)
           e == RequestJob(id)
           y == [req[id] EXCEPT !.fut = "waiting", !.job = "queued"]
           queued == [req EXCEPT ![id] = y]
<1>y. /\ y \in RequestStates /\ y.fut = "waiting" /\ y.job = "queued" /\ y.cmd = req[id].cmd
      /\ y.gen = req[id].gen /\ y.failed = req[id].failed /\ y.cancel = req[id].cancel
    <2>1. req[id] \in RequestStates
        BY <1>t, RequestParts
    <2> QED BY <2>1 DEF RequestStates
<1>b. req' = LowStale(queued) \/ req' = queued
    <2>1. [req EXCEPT ![id].fut = "waiting", ![id].job = "queued"] = queued
        BY <1>t DEF ReqTable
    <2> QED BY <2>1 DEF Execute
<1> HIDE DEF y
<1>c. queued \in ReqTable /\ queued[id] = y /\ \A o \in Requests \ {id} : queued[o] = req[o]
    BY <1>t, <1>y DEF ReqTable
<1> HIDE DEF queued
<1>d. req' \in ReqTable /\ \A o \in Requests : Alike(req'[o], queued[o]) /\ req'[o].cancel = queued[o].cancel
    BY <1>b, <1>c, LowStaleFacts DEF Alike
<1>r. /\ req' \in ReqTable
      /\ req'[id].cmd = req[id].cmd /\ req'[id].gen = req[id].gen /\ req'[id].job = "queued"
      /\ req'[id].failed = req[id].failed /\ req'[id].fut = "waiting"
      /\ req'[id].cancel = req[id].cancel
      /\ \A o \in Requests \ {id} : Alike(req'[o], req[o]) /\ req'[o].cancel = req[o].cancel
    BY <1>c, <1>d, <1>y DEF Alike
<1>o. req[id].job = "none" /\ ~req[id].failed /\ req[id].cmd # "none"
    BY <1>i, <1>a DEF RequestsOK
<1>e. e \in Jobs /\ e.id = id /\ e.gen = req[id].gen /\ e.id # 0
    BY <1>t, RequestJobType DEF Requests
<1>q. /\ privacy \in Seq(Jobs) /\ user \in Seq(Jobs) /\ low \in Seq(Jobs)
      /\ privacy' = IF name = "privacy" THEN Append(privacy, e) ELSE privacy
      /\ user' = IF name = "user" THEN Append(user, e) ELSE user
      /\ low' = IF name = "low" THEN Append(low, e) ELSE low
    BY <1>i DEF Execute, TypeOK
<1>k. \A cmds : ConfigErrorIn(cmds) => ConfigErrorIn(cmds)'
    BY <1>a, <1>r, <1>o, ConfigErrorKept DEF authorityVars, Alike
<1> HIDE DEF e, name
<1>p. \A j \in 1..Len(privacy') : Cleanup(j)' => j \in 1..Len(privacy) /\ Cleanup(j)
    BY <1>q, <1>e DEF Cleanup
<1>1. TypeOK'
    BY <1>i, <1>t, <1>a, <1>r, <1>o, <1>k, <1>p, <1>q, <1>e DEF TypeOK, ReqTable, Phases,
       authorityVars, idleVars, requestVars, dispatchVars, coreVars
<1>2. QueuesOK'
    <2>1. \A o \in Requests : req[o].job = "queued" =>
              /\ req'[o].job = "queued" /\ req'[o].gen = req[o].gen /\ req'[o].cmd = req[o].cmd
        BY <1>r, <1>o DEF Alike
    <2>2. QueueOK(req, privacy, "privacy") /\ QueueOK(req, user, "user") /\ QueueOK(req, low, "low")
        BY <1>i DEF QueuesOK
    <2>3. /\ QueueOK(req', privacy, "privacy") /\ QueueOK(req', user, "user")
          /\ QueueOK(req', low, "low")
        BY <2>1, <2>2, <1>t, <1>r, <1>q, QueueKept
    <2>4. Priority(req'[id].cmd) = name
        BY <1>r DEF name
    <2>5. ASSUME NEW s \in Seq(Jobs), QueueOK(req, s, name) PROVE QueueOK(req', Append(s, e), name)
        BY <2>1, <2>4, <2>5, <1>t, <1>r, <1>e, <1>o, QueueAppend
    <2> QED BY <2>2, <2>3, <2>5, <1>a, <1>q DEF QueuesOK
<1>3. RequestsOK'
    <2>1. \A o \in Requests : req'[o].gen = req[o].gen /\ req'[o].failed = req[o].failed
        BY <1>r DEF Alike
    <2>2. ASSUME NEW o \in Requests, o > lastRequest PROVE req'[o] = NoRequest
        <3>1. req[o] = NoRequest /\ o # id
            BY <1>i, <1>a, <2>2 DEF RequestsOK, NoRequest
        <3>2. NoRequest.job = "none"
            BY DEF NoRequest
        <3> QED BY <3>1, <3>2, <1>b, <1>c DEF LowStale
    <2> QED BY <2>1, <2>2, <1>i, <1>a, <1>r, <1>o DEF RequestsOK, Alike, authorityVars
<1>4. WorkerOK'
    <2>1. Busy => worker.job.id # id
        BY <1>i, <1>o DEF WorkerOK
    <2> QED BY <1>i, <1>a, <1>r, <2>1 DEF WorkerOK, Busy, Alike, authorityVars, coreVars, Expired,
       idleVars
<1>5. CleanupOK'
    BY <1>i, <1>a, <1>p DEF CleanupOK, authorityVars
<1>6. PhaseOK'
    BY <1>i, <1>t, <1>a, <1>r, <1>o, <1>k, <1>p, <1>1 DEF PhaseOK, WorkerOK,
       ClockOnlyWhileUnlocked, Open, Revoked, authorityVars, idleVars, requestVars,
       dispatchVars, coreVars, Expired
<1>7. ReportsTruth'
    BY <1>i, <1>t, <1>a, <1>r, <1>o, <1>k, <1>p, <1>1 DEF ReportsTruth, PhaseOK, WorkerOK,
       ClockOnlyWhileUnlocked, Busy, Expired, Open, Revoked, authorityVars, idleVars,
       requestVars, dispatchVars, coreVars
<1>8. LockedMeansLocked'
    <2>1. Busy => worker.job.id # id /\ worker.job.id \in Requests
        BY <1>i, <1>o DEF WorkerOK
    <2> QED BY <1>i, <1>a, <1>r, <1>k, <2>1
            DEF LockedMeansLocked, Busy, Alike, authorityVars, coreVars
<1>9. EventsAreComplete'
    BY <1>i, <1>t, <1>a, <1>r, <1>o, <1>k, <1>p DEF EventsAreComplete, Snapshot,
       authorityVars, idleVars, requestVars, dispatchVars, coreVars
<1>10. CancelledUnlockIsOver'
    <2>1. \A o \in Requests : /\ req'[o].cmd = req[o].cmd /\ req'[o].gen = req[o].gen
                             /\ req'[o].cancel = req[o].cancel
        BY <1>r DEF Alike
    <2> QED BY <1>i, <1>a, <2>1 DEF CancelledUnlockIsOver, authorityVars
<1> QED BY <1>1, <1>2, <1>3, <1>4, <1>5, <1>6, <1>7, <1>8, <1>9, <1>10 DEF Inv, Structure

\* A revocation: the generation is over, and one cleanup is on its way.
LEMMA RevokeInv ==
    ASSUME Inv, NEW remain \in BOOLEAN, NEW close \in BOOLEAN, RevokeLocked(remain, close),
           UNCHANGED RevokeUnchanged, cancelling' \subseteq cancelling,
           cancelling' = cancelling \/ phase \in Open
    PROVE  Inv'
<1>i. /\ TypeOK /\ QueuesOK /\ RequestsOK /\ WorkerOK /\ CleanupOK /\ PhaseOK
      /\ ReportsTruth /\ LockedMeansLocked /\ EventsAreComplete /\ CancelledUnlockIsOver
    BY DEF Inv, Structure
<1>t. worker \in WorkerStates /\ req \in ReqTable
    BY <1>i DEF TypeOK, ReqTable
<1>u. UNCHANGED <<timeoutOn, lastRequest, user, low, shutdown, worker, unlocked, configured>>
    BY DEF RevokeUnchanged
<1>f. CASE phase \in {"Deactivating", "Inactive"} /\ ~close
    <2>1. /\ UNCHANGED <<generation, phase, cleanupPending, masterConfigured, announced,
                         idle, monitor, req, privacy, cancelling>>
          /\ foreground' \in BOOLEAN
        BY <1>f, <1>i DEF RevokeLocked, TypeOK, Open, Terminal
    <2>2. TypeOK'
        BY <1>i, <1>u, <2>1 DEF TypeOK
    <2>3. QueuesOK' /\ RequestsOK'
        BY <1>i, <1>u, <2>1 DEF QueuesOK, RequestsOK, HasJob
    <2>4. WorkerOK' /\ CleanupOK' /\ PhaseOK'
        BY <1>i, <1>u, <1>f, <2>1
        DEF WorkerOK, CleanupOK, PhaseOK, Busy, Cleanup, Open, ClockOnlyWhileUnlocked, Expired, idleVars
    <2>5. ReportsTruth' /\ LockedMeansLocked'
        BY <1>i, <1>u, <2>1 DEF ReportsTruth, LockedMeansLocked, Busy, Expired, ConfigErrorIn
    <2>6. EventsAreComplete' /\ CancelledUnlockIsOver'
        BY <1>i, <1>u, <2>1 DEF EventsAreComplete, Snapshot, CancelledUnlockIsOver
    <2> QED BY <2>2, <2>3, <2>4, <2>5, <2>6 DEF Inv, Structure
<1>g. CASE ~(phase \in {"Deactivating", "Inactive"} /\ ~close)
    <2> DEFINE e == CleanupJob(generation + 1, close)
    <2>a. /\ phase \in Open \/ (close /\ ~Terminal(phase))
          /\ foreground' = (remain /\ foreground) /\ idle' = "none" /\ generation' = generation + 1
          /\ cleanupPending' = TRUE /\ masterConfigured' = masterConfigured
          /\ phase' = IF shutdown THEN "Failed" ELSE IF close THEN "Closed" ELSE "Deactivating"
          /\ announced' = Snapshot' /\ monitor' = Notified /\ req' = LowStale(Flagged)
          /\ privacy' = IF shutdown THEN privacy ELSE Append(privacy, e)
        BY <1>g DEF RevokeLocked, ClearActivity, RevocationJob, Open
    <2>g. generation \in Nat /\ generation >= 1
        BY <1>i DEF TypeOK, PhaseOK
    <2>r. req' \in ReqTable /\ \A id \in Requests : Alike(req'[id], req[id])
        BY <1>t, <2>a, FlaggedFacts, LowStaleFacts DEF Alike
    <2>n. \A id \in Requests : id > lastRequest => req'[id] = NoRequest
        <3> SUFFICES ASSUME NEW id \in Requests, id > lastRequest PROVE req'[id] = NoRequest
            OBVIOUS
        <3>1. req[id] = NoRequest
            BY <1>i DEF RequestsOK
        <3>2. Flagged[id] = NoRequest
            BY <3>1 DEF Flagged, Pending, NoRequest
        <3> QED BY <2>a, <3>2 DEF LowStale, NoRequest
    <2>e. e \in Jobs /\ e.id = 0
        BY <2>g, CleanupJobType
    <2> HIDE DEF e
    <2>q. /\ privacy \in Seq(Jobs) /\ privacy' \in Seq(Jobs)
          /\ \A j \in 1..Len(privacy') : Cleanup(j)' =>
                \/ j \in 1..Len(privacy) /\ Cleanup(j)
                \/ j = Len(privacy) + 1 /\ ~shutdown
        BY <1>i, <2>a, <2>e DEF Cleanup, TypeOK
    <2>1. TypeOK'
        <3>1. /\ foreground' \in BOOLEAN /\ phase' \in Phases /\ generation' \in Nat
              /\ monitor' \in {"off", "check", "timed", "untimed", "exited"}
              /\ cleanupPending' \in BOOLEAN /\ masterConfigured' \in BOOLEAN
            BY <1>i, <2>a, <2>g DEF TypeOK, Phases, Notified
        <3>2. announced' \in [generation : Nat, phase : Phases, cleanup : BOOLEAN, master : BOOLEAN]
            BY <3>1, <2>a DEF Snapshot
        <3> QED BY <1>i, <1>u, <2>a, <2>r, <2>q, <3>1, <3>2 DEF TypeOK, ReqTable
    <2>2. QueuesOK'
        <3>1. \A o \in Requests : req[o].job = "queued" =>
                 /\ req'[o].job = "queued" /\ req'[o].gen = req[o].gen /\ req'[o].cmd = req[o].cmd
            BY <2>r DEF Alike
        <3>2. CASE shutdown
            BY <3>1, <3>2, <1>i, <1>u, <2>a, <2>r, QueuesKept DEF QueuesOK
        <3>3. CASE ~shutdown
            <4>1. user \in Seq(Jobs) /\ low \in Seq(Jobs)
                BY <1>i DEF TypeOK
            <4>2. QueueOK(req', user, "user") /\ QueueOK(req', low, "low")
                BY <3>1, <4>1, <1>i, <1>t, <2>r, QueueKept DEF QueuesOK
            <4>3. QueueOK(req', privacy', "privacy")
                BY <3>1, <3>3, <1>i, <1>t, <2>a, <2>r, <2>e, <2>q, QueueAppend DEF QueuesOK
            <4> QED BY <3>3, <4>2, <4>3, <1>u DEF QueuesOK
        <3> QED BY <3>2, <3>3
    <2>3. RequestsOK'
        <3>1. \A id \in Requests : /\ req'[id].gen < generation'
                                   /\ req'[id].fut = "admitted" => req'[id].job = "none" /\ req'[id].cmd # "none"
                                   /\ req'[id].job # "none" => req'[id].cmd # "none"
                                   /\ req'[id].failed => req'[id].job = "done"
            <4> SUFFICES ASSUME NEW id \in Requests
                         PROVE  /\ req'[id].gen < generation'
                                /\ req'[id].fut = "admitted" => req'[id].job = "none" /\ req'[id].cmd # "none"
                                /\ req'[id].job # "none" => req'[id].cmd # "none"
                                /\ req'[id].failed => req'[id].job = "done"
                OBVIOUS
            <4>1. req[id].gen <= generation /\ req[id].gen \in Nat
                BY <1>i, <1>t, RequestParts DEF RequestsOK
            <4> QED BY <4>1, <1>i, <2>a, <2>g, <2>r DEF RequestsOK, Alike
        <3>2. \A id \in Requests : req'[id].gen \in Nat
            BY <2>r, RequestParts
        <3> QED BY <3>1, <3>2, <1>u, <2>a, <2>g, <2>n DEF RequestsOK
    <2>4. WorkerOK'
        <3>1. Busy => ~shutdown /\ worker.job.gen <= generation
            BY <1>i DEF QueuesOK, WorkerOK, RequestsOK, Busy
        <3>2. worker.job.gen \in Nat /\ worker.resetGen \in Nat
            BY <1>t, WorkerParts
        <3>3. worker.step = "cleaned" => ~shutdown /\ phase \in Revoked
            BY <1>i DEF QueuesOK, WorkerOK
        <3> QED BY <3>1, <3>2, <3>3, <1>i, <1>u, <2>a, <2>g, <2>r
                DEF WorkerOK, Busy, Revoked, Open, Alike
    <2>5. CleanupOK'
        <3>1. worker.resetGen # generation'
            BY <1>i, <1>t, <2>a, <2>g, WorkerParts DEF WorkerOK
        <3>2. phase \in Open => /\ \A j \in 1..Len(privacy) : ~Cleanup(j)
                                /\ worker.step # "cleaned"
            BY <1>i DEF CleanupOK, WorkerOK, Open, Revoked
        <3>3. shutdown => \A j \in 1..Len(privacy) : ~Cleanup(j)
            BY <1>i DEF QueuesOK, HasJob
        <3>4. \A j \in 1..Len(privacy') : Cleanup(j)' => phase' \in Revoked
            BY <3>3, <2>a, <2>q DEF Revoked
        <3>5. phase' = "Deactivating" => phase \in Open
            BY <2>a
        <3>6. worker.resetGen # 0 => worker.resetGen # generation'
            BY <3>1
        <3> QED BY <3>1, <3>2, <3>4, <3>5, <1>u, <2>q DEF CleanupOK
    <2>6. PhaseOK'
        BY <1>i, <1>u, <2>a, <2>g DEF PhaseOK, ClockOnlyWhileUnlocked, Open
    <2>7. ReportsTruth' /\ LockedMeansLocked'
        BY <2>a DEF ReportsTruth, LockedMeansLocked, Open
    <2>8. EventsAreComplete'
        BY <2>a DEF EventsAreComplete
    <2>9. CancelledUnlockIsOver'
        <3>1. \A id \in Requests : req'[id].gen \in Nat /\ req'[id].gen < generation'
            <4> SUFFICES ASSUME NEW id \in Requests
                         PROVE  req'[id].gen \in Nat /\ req'[id].gen < generation'
                OBVIOUS
            <4>1. req[id].gen <= generation /\ req[id].gen \in Nat
                BY <1>i, <1>t, RequestParts DEF RequestsOK
            <4> QED BY <4>1, <2>a, <2>g, <2>r DEF Alike
        <3> QED BY <3>1, <2>a, <2>g DEF CancelledUnlockIsOver
    <2> QED BY <2>1, <2>2, <2>3, <2>4, <2>5, <2>6, <2>7, <2>8, <2>9 DEF Inv, Structure
<1> QED BY <1>f, <1>g

\* A queue is sound as long as no other queue's requests are touched.
LEMMA QueueKeptBut ==
    ASSUME NEW r \in ReqTable, NEW q \in ReqTable, NEW s \in Seq(Jobs), NEW name, NEW x,
           QueueOK(r, s, name), x \in Requests => Priority(r[x].cmd) # name,
           \A id \in Requests \ {x} : r[id].job = "queued" =>
               q[id].job = "queued" /\ q[id].gen = r[id].gen /\ q[id].cmd = r[id].cmd
    PROVE  QueueOK(q, s, name)
<1>1. \A i \in 1..Len(s) : s[i] \in Jobs /\ (s[i].id # 0 => s[i].id \in Requests)
    BY JobId
<1>2. \A i \in 1..Len(s) : s[i].id # 0 => s[i].id # x
    BY <1>1 DEF QueueOK
<1> QED BY <1>1, <1>2 DEF QueueOK

\* The job that pop_next_job takes, and what it leaves.
LEMMA PopFacts ==
    ASSUME TypeOK, QueuesOK, Pop, req' \in ReqTable, UNCHANGED shutdown,
           \A id \in Requests \ {NextJob.id} : req[id].job = "queued" =>
               /\ req'[id].job = "queued" /\ req'[id].gen = req[id].gen /\ req'[id].cmd = req[id].cmd
    PROVE  /\ NextJob \in Jobs /\ QueuesOK'
           /\ privacy' \in Seq(Jobs) /\ user' \in Seq(Jobs) /\ low' \in Seq(Jobs)
           /\ NextJob.id # 0 => /\ NextJob.id \in Requests /\ req[NextJob.id].job = "queued"
                                /\ req[NextJob.id].gen = NextJob.gen
           /\ \/ privacy' = privacy /\ NextJob.id # 0
              \/ /\ 1 \in 1..Len(privacy) /\ NextJob = privacy[1]
                 /\ \A j \in 1..Len(privacy') : /\ j + 1 \in 1..Len(privacy) /\ j + 1 # 1
                                                /\ privacy'[j] = privacy[j + 1]
                 /\ \A j, k \in 1..Len(privacy') : j + 1 = k + 1 => j = k
<1>1. /\ req \in ReqTable /\ privacy \in Seq(Jobs) /\ user \in Seq(Jobs) /\ low \in Seq(Jobs)
      /\ QueueOK(req, privacy, "privacy") /\ QueueOK(req, user, "user") /\ QueueOK(req, low, "low")
    BY DEF TypeOK, ReqTable, QueuesOK
<1>2. ~shutdown
    BY DEF Pop, QueuesOK
<1>3. ASSUME NEW s \in Seq(Jobs), NEW name, QueueOK(req, s, name), s # <<>>
      PROVE  /\ Head(s) \in Jobs /\ Tail(s) \in Seq(Jobs)
             /\ Head(s).id # 0 => /\ Head(s).id \in Requests /\ req[Head(s).id].job = "queued"
                                  /\ req[Head(s).id].gen = Head(s).gen
                                  /\ Priority(req[Head(s).id].cmd) = name
             /\ Head(s).id = 0 => name = "privacy"
    <2>1. Head(s) = s[1] /\ 1 \in 1..Len(s) /\ Tail(s) \in Seq(Jobs)
        BY <1>3
    <2>2. s[1] \in Jobs /\ (s[1].id # 0 => s[1].id \in Requests)
        BY <2>1, JobId
    <2> QED BY <2>1, <2>2, <1>3 DEF QueueOK
<1>4. CASE privacy # <<>>
    <2>1. NextJob = Head(privacy) /\ privacy' = Tail(privacy) /\ user' = user /\ low' = low
        BY <1>4 DEF NextJob, Pop
    <2>2. QueueOK(req', Tail(privacy), "privacy")
        BY <1>1, <1>4, <2>1, QueueTail
    <2>3. NextJob.id \in Requests => Priority(req[NextJob.id].cmd) = "privacy"
        BY <1>1, <1>3, <1>4, <2>1 DEF Requests
    <2>4. QueueOK(req', user, "user") /\ QueueOK(req', low, "low")
        BY <1>1, <2>3, QueueKeptBut
    <2>5. /\ 1 \in 1..Len(privacy) /\ Head(privacy) = privacy[1]
          /\ \A j \in 1..Len(Tail(privacy)) : /\ j + 1 \in 1..Len(privacy) /\ j + 1 # 1
                                              /\ Tail(privacy)[j] = privacy[j + 1]
          /\ \A j, k \in 1..Len(Tail(privacy)) : j + 1 = k + 1 => j = k
        BY <1>1, <1>4
    <2> QED BY <1>1, <1>2, <1>3, <1>4, <2>1, <2>2, <2>4, <2>5 DEF QueuesOK
<1>5. CASE privacy = <<>> /\ user # <<>>
    <2>1. NextJob = Head(user) /\ privacy' = privacy /\ user' = Tail(user) /\ low' = low
        BY <1>5 DEF NextJob, Pop
    <2>2. QueueOK(req', Tail(user), "user")
        BY <1>1, <1>5, <2>1, QueueTail
    <2>3. NextJob.id # 0 /\ NextJob.id \in Requests /\ Priority(req[NextJob.id].cmd) = "user"
        BY <1>1, <1>3, <1>5, <2>1
    <2>4. QueueOK(req', privacy, "privacy") /\ QueueOK(req', low, "low")
        BY <1>1, <2>3, QueueKeptBut
    <2> QED BY <1>1, <1>2, <1>3, <1>5, <2>1, <2>2, <2>3, <2>4 DEF QueuesOK
<1>6. CASE privacy = <<>> /\ user = <<>>
    <2>0. low # <<>>
        BY <1>6 DEF Pop, HasJob
    <2>1. NextJob = Head(low) /\ privacy' = privacy /\ user' = user /\ low' = Tail(low)
        BY <1>6 DEF NextJob, Pop
    <2>2. QueueOK(req', Tail(low), "low")
        BY <1>1, <2>0, <2>1, QueueTail
    <2>3. NextJob.id # 0 /\ NextJob.id \in Requests /\ Priority(req[NextJob.id].cmd) = "low"
        BY <1>1, <1>3, <2>0, <2>1
    <2>4. QueueOK(req', privacy, "privacy") /\ QueueOK(req', user, "user")
        BY <1>1, <2>3, QueueKeptBut
    <2> QED BY <1>1, <1>2, <1>3, <2>0, <2>1, <2>2, <2>3, <2>4 DEF QueuesOK
<1> QED BY <1>4, <1>5, <1>6

\* A job is taken from its queue, and runs only in the open generation it belongs to.
LEMMA StartJobInv ==
    ASSUME Inv, StartJob
    PROVE  Inv'
<1>i. /\ TypeOK /\ QueuesOK /\ RequestsOK /\ WorkerOK /\ CleanupOK /\ PhaseOK
      /\ ReportsTruth /\ LockedMeansLocked /\ EventsAreComplete /\ CancelledUnlockIsOver
    BY DEF Inv, Structure
<1>t. worker \in WorkerStates /\ req \in ReqTable
    BY <1>i DEF TypeOK, ReqTable
<1>a. /\ Pop /\ NextJob.id # 0 /\ worker.step = "idle"
      /\ UNCHANGED <<authorityVars, idleVars, lastRequest, cancelling, shutdown, coreVars>>
    BY DEF StartJob, Pop
<1>d. PICK id : id = NextJob.id
    OBVIOUS
<1>e. NextJob \in Jobs /\ id \in Requests /\ req[id].job = "queued" /\ req[id].gen = NextJob.gen
    <2>1. /\ privacy \in Seq(Jobs) /\ user \in Seq(Jobs) /\ low \in Seq(Jobs)
          /\ QueueOK(req, privacy, "privacy") /\ QueueOK(req, user, "user") /\ QueueOK(req, low, "low")
        BY <1>i DEF TypeOK, QueuesOK
    <2>2. PICK s \in Seq(Jobs), name \in {"privacy", "user", "low"} :
             s # <<>> /\ QueueOK(req, s, name) /\ NextJob = Head(s)
        BY <1>a, <2>1 DEF Pop, HasJob, NextJob
    <2>3. Head(s) = s[1] /\ 1 \in 1..Len(s)
        BY <2>2
    <2>4. s[1] \in Jobs /\ (s[1].id # 0 => s[1].id \in Requests)
        BY <2>3, JobId
    <2> QED BY <1>a, <1>d, <2>2, <2>3, <2>4 DEF QueueOK
<1>b. \/ /\ worker' = Idle
         /\ \E a \in {"closed", "revoked", "canceled", "busy"} : req' = JobEnds(id, a)
      \/ /\ worker' = [Idle EXCEPT !.step = "checked", !.job = NextJob]
         /\ req' = [req EXCEPT ![id].job = "running"]
         /\ Accepts(req[id].gen)
    BY <1>d DEF StartJob
<1>y. LET y == [req EXCEPT ![id].job = "running"]
      IN  /\ y \in ReqTable /\ \A o \in Requests \ {id} : y[o] = req[o]
          /\ y[id].cmd = req[id].cmd /\ y[id].gen = req[id].gen /\ y[id].fut = req[id].fut
          /\ y[id].failed = req[id].failed /\ y[id].cancel = req[id].cancel
          /\ y[id].job = "running"
    BY <1>t, <1>e DEF ReqTable, RequestStates
<1>r. /\ req' \in ReqTable /\ \A o \in Requests \ {id} : req'[o] = req[o]
      /\ req'[id].cmd = req[id].cmd /\ req'[id].gen = req[id].gen /\ req'[id].fut = req[id].fut
      /\ req'[id].failed = req[id].failed /\ req'[id].cancel = req[id].cancel
      /\ worker' \in WorkerStates /\ worker'.resetGen = 0 /\ worker'.reset = FALSE
      /\ \/ worker'.step = "idle" /\ req'[id].job = "done"
         \/ /\ worker'.step = "checked" /\ worker'.job = NextJob
            /\ req'[id].job = "running" /\ req[id].gen = generation /\ phase \in Open
    <2>1. CASE /\ worker' = Idle
               /\ \E a \in {"closed", "revoked", "canceled", "busy"} : req' = JobEnds(id, a)
        <3>1. PICK a \in {"none", "ok", "revoked", "canceled", "busy", "unavailable", "closed"} :
                 req' = JobEnds(id, a)
            BY <2>1
        <3>2. /\ req' \in ReqTable /\ \A o \in Requests \ {id} : req'[o] = req[o]
              /\ req'[id].cmd = req[id].cmd /\ req'[id].gen = req[id].gen
              /\ req'[id].fut = req[id].fut /\ req'[id].failed = req[id].failed
              /\ req'[id].cancel = req[id].cancel /\ req'[id].job = "done"
            BY <1>t, <1>e, <3>1, JobEndsFacts
        <3> QED BY <2>1, <3>2, IdleType
    <2>2. CASE /\ worker' = [Idle EXCEPT !.step = "checked", !.job = NextJob]
               /\ req' = [req EXCEPT ![id].job = "running"] /\ Accepts(req[id].gen)
        <3>1. req[id].gen = generation /\ phase \in Open
            BY <2>2 DEF Accepts, Open
        <3>2. /\ worker' \in WorkerStates /\ worker'.resetGen = 0 /\ worker'.reset = FALSE
              /\ worker'.step = "checked" /\ worker'.job = NextJob
            BY <2>2, <1>e, IdleType
        <3> QED BY <2>2, <3>1, <3>2, <1>y
    <2> QED BY <1>b, <2>1, <2>2
<1>o. ~req[id].failed /\ req[id].cmd # "none" /\ ~(id > lastRequest) /\ req[id].fut # "admitted"
    BY <1>i, <1>e DEF RequestsOK, NoRequest
<1>k. \A cmds : ConfigErrorIn(cmds) => ConfigErrorIn(cmds)'
    BY <1>a, <1>r, <1>o, ConfigErrorKept DEF authorityVars
<1>q. /\ QueuesOK'
      /\ privacy' \in Seq(Jobs) /\ user' \in Seq(Jobs) /\ low' \in Seq(Jobs)
      /\ \/ privacy' = privacy
         \/ /\ \A j \in 1..Len(privacy') : /\ j + 1 \in 1..Len(privacy)
                                           /\ privacy'[j] = privacy[j + 1]
            /\ \A j, k \in 1..Len(privacy') : j + 1 = k + 1 => j = k
    BY <1>i, <1>a, <1>d, <1>r, PopFacts
<1>1. TypeOK'
    BY <1>i, <1>t, <1>a, <1>e, <1>d, <1>r, <1>o, <1>k, <1>q DEF TypeOK, ReqTable,
       Phases, authorityVars, idleVars, requestVars, dispatchVars, coreVars
<1>2. QueuesOK'
    BY <1>q
<1>3. RequestsOK'
    BY <1>i, <1>t, <1>a, <1>e, <1>d, <1>r, <1>o, <1>k, <1>q, <1>1 DEF TypeOK,
       RequestsOK, PhaseOK, Open, Terminal, authorityVars, idleVars, requestVars,
       dispatchVars, coreVars
<1>4. WorkerOK'
    BY <1>i, <1>t, <1>a, <1>e, <1>d, <1>r, <1>o, <1>k, <1>q, <1>1 DEF WorkerOK,
       RequestsOK, Busy, Open, Revoked, authorityVars, idleVars, requestVars, dispatchVars,
       coreVars
<1>5. CleanupOK'
    <2>1. \A j \in 1..Len(privacy') : Cleanup(j)' => phase \in Revoked
        BY <1>i, <1>q DEF CleanupOK, Cleanup
    <2>2. phase = "Deactivating" =>
             \A j, k \in 1..Len(privacy') : Cleanup(j)' /\ Cleanup(k)' => j = k
        <3>1. CASE privacy' = privacy
            BY <1>i, <3>1 DEF CleanupOK, Cleanup
        <3>2. CASE /\ \A j \in 1..Len(privacy') : /\ j + 1 \in 1..Len(privacy)
                                                  /\ privacy'[j] = privacy[j + 1]
                   /\ \A j, k \in 1..Len(privacy') : j + 1 = k + 1 => j = k
            <4> SUFFICES ASSUME phase = "Deactivating", NEW j \in 1..Len(privacy'),
                                NEW k \in 1..Len(privacy'), Cleanup(j)', Cleanup(k)'
                         PROVE  j = k
                OBVIOUS
            <4>1. /\ j + 1 \in 1..Len(privacy) /\ Cleanup(j + 1)
                  /\ k + 1 \in 1..Len(privacy) /\ Cleanup(k + 1)
                BY <3>2 DEF Cleanup
            <4>2. j + 1 = k + 1
                BY <1>i, <4>1 DEF CleanupOK
            <4> QED BY <4>2, <3>2
        <3> QED BY <1>q, <3>1, <3>2
    <2>3. worker'.step # "cleaned" /\ worker'.resetGen # generation
        BY <1>i, <1>r DEF PhaseOK, TypeOK
    <2> QED BY <1>a, <2>1, <2>2, <2>3 DEF CleanupOK, authorityVars
<1>6. PhaseOK'
    BY <1>i, <1>t, <1>a, <1>e, <1>d, <1>r, <1>o, <1>k, <1>q, <1>1 DEF PhaseOK,
       WorkerOK, ClockOnlyWhileUnlocked, Open, Revoked, authorityVars, idleVars,
       requestVars, dispatchVars, coreVars, Expired
<1>7. ReportsTruth'
    BY <1>i, <1>t, <1>a, <1>e, <1>d, <1>r, <1>o, <1>k, <1>q, <1>1 DEF ReportsTruth,
       PhaseOK, WorkerOK, ClockOnlyWhileUnlocked, Busy, Expired, Open, Revoked,
       authorityVars, idleVars, requestVars, dispatchVars, coreVars
<1>8. LockedMeansLocked'
    BY <1>i, <1>t, <1>a, <1>e, <1>d, <1>r, <1>o, <1>k, <1>q, <1>1 DEF
       LockedMeansLocked, PhaseOK, WorkerOK, ClockOnlyWhileUnlocked, Busy, Expired, Open,
       Revoked, authorityVars, idleVars, requestVars, dispatchVars, coreVars
<1>9. EventsAreComplete'
    BY <1>i, <1>t, <1>a, <1>e, <1>d, <1>r, <1>o, <1>k, <1>q DEF EventsAreComplete,
       Snapshot, authorityVars, idleVars, requestVars, dispatchVars, coreVars
<1>10. CancelledUnlockIsOver'
    <2>1. \A o \in Requests : req'[o].cmd = req[o].cmd /\ req'[o].gen = req[o].gen
                               /\ req'[o].cancel = req[o].cancel
        BY <1>r
    <2> QED BY <1>i, <1>a, <2>1 DEF CancelledUnlockIsOver, Terminal, authorityVars
<1> QED BY <1>1, <1>2, <1>3, <1>4, <1>5, <1>6, <1>7, <1>8, <1>9, <1>10 DEF Inv, Structure

\* A cleanup locks the core.
LEMMA CleanupCoreInv ==
    ASSUME Inv, CleanupCore
    PROVE  Inv'
<1>i. /\ TypeOK /\ QueuesOK /\ RequestsOK /\ WorkerOK /\ CleanupOK /\ PhaseOK
      /\ ReportsTruth /\ LockedMeansLocked /\ EventsAreComplete /\ CancelledUnlockIsOver
    BY DEF Inv, Structure
<1>t. worker \in WorkerStates /\ req \in ReqTable
    BY <1>i DEF TypeOK, ReqTable
<1>a. /\ Pop /\ NextJob.id = 0 /\ worker.step = "idle"
      /\ UNCHANGED <<authorityVars, idleVars, requestVars, shutdown, configured>>
    BY DEF CleanupCore, Pop
<1>q. /\ QueuesOK' /\ NextJob \in Jobs
      /\ privacy' \in Seq(Jobs) /\ user' \in Seq(Jobs) /\ low' \in Seq(Jobs)
      /\ 1 \in 1..Len(privacy) /\ NextJob = privacy[1]
      /\ \A j \in 1..Len(privacy') : /\ j + 1 \in 1..Len(privacy) /\ j + 1 # 1
                                     /\ privacy'[j] = privacy[j + 1]
      /\ \A j, k \in 1..Len(privacy') : j + 1 = k + 1 => j = k
    BY <1>i, <1>t, <1>a, PopFacts DEF requestVars
<1>b. PICK ok \in BOOLEAN :
        /\ worker' = [Idle EXCEPT !.step = "cleaned", !.job = NextJob, !.ok = ok]
        /\ unlocked' \in {FALSE, unlocked} /\ (ok => ~unlocked')
    BY DEF CleanupCore
<1>w. /\ worker' \in WorkerStates /\ worker'.step = "cleaned" /\ worker'.ok = ok
      /\ worker'.resetGen = 0 /\ worker'.reset = FALSE
    <2>1. ok \in BOOLEAN /\ NextJob \in Jobs
        BY <1>b, <1>q
    <2>2. worker' = Cleaned(NextJob, ok)
        BY <1>b DEF Cleaned
    <2> QED BY <2>1, <2>2, CleanedType
<1>p. phase \in Revoked /\ unlocked' \in BOOLEAN /\ (unlocked' => unlocked)
    <2>1. unlocked \in BOOLEAN
        BY <1>i DEF TypeOK
    <2>2. phase \in Revoked
        BY <1>i, <1>a, <1>q DEF CleanupOK, Cleanup
    <2>3. CASE unlocked' = FALSE
        BY <2>2, <2>3
    <2>4. CASE unlocked' = unlocked
        BY <2>1, <2>2, <2>4
    <2> QED BY <1>b, <2>3, <2>4
<1>1. TypeOK'
    BY <1>i, <1>t, <1>a, <1>b, <1>w, <1>q, <1>p DEF TypeOK, ReqTable, Phases, authorityVars,
       idleVars, requestVars, dispatchVars, coreVars
<1>2. QueuesOK'
    BY <1>q
<1>3. RequestsOK'
    BY <1>i, <1>t, <1>a, <1>b, <1>w, <1>q, <1>p, <1>1 DEF TypeOK, RequestsOK, PhaseOK, Open,
       Terminal, authorityVars, idleVars, requestVars, dispatchVars, coreVars
<1>4. WorkerOK'
    BY <1>i, <1>t, <1>a, <1>b, <1>w, <1>q, <1>p, <1>1 DEF WorkerOK, RequestsOK, Busy, Open,
       Revoked, authorityVars, idleVars, requestVars, dispatchVars, coreVars
<1>5. CleanupOK'
    <2>1. \A j \in 1..Len(privacy') : Cleanup(j)' => phase \in Revoked
        BY <1>p
    <2>2. phase = "Deactivating" => \A j \in 1..Len(privacy') : ~Cleanup(j)'
        <3>1. 1 \in 1..Len(privacy) /\ Cleanup(1)
            BY <1>a, <1>q DEF Cleanup
        <3>2. phase = "Deactivating" =>
                  \A i, j \in 1..Len(privacy) : Cleanup(i) /\ Cleanup(j) => i = j
            BY <1>i DEF CleanupOK
        <3>3. ASSUME NEW j \in 1..Len(privacy'), Cleanup(j)' PROVE phase # "Deactivating"
            <4>1. j + 1 \in 1..Len(privacy) /\ j + 1 # 1 /\ Cleanup(j + 1)
                BY <1>q, <3>3 DEF Cleanup
            <4> QED BY <3>1, <3>2, <4>1
        <3> QED BY <3>3
    <2> QED BY <1>a, <2>1, <2>2 DEF CleanupOK, authorityVars
<1>6. PhaseOK'
    BY <1>i, <1>t, <1>a, <1>b, <1>w, <1>q, <1>p, <1>1 DEF PhaseOK, WorkerOK,
       ClockOnlyWhileUnlocked, Open, Revoked, authorityVars, idleVars, requestVars,
       dispatchVars, coreVars
<1>7. ReportsTruth'
    BY <1>i, <1>t, <1>a, <1>b, <1>w, <1>q, <1>p, <1>1 DEF ReportsTruth, PhaseOK, WorkerOK,
       ClockOnlyWhileUnlocked, Busy, Expired, Open, Revoked, ConfigErrorIn, authorityVars,
       idleVars, requestVars, dispatchVars, coreVars
<1>8. LockedMeansLocked'
    BY <1>i, <1>t, <1>a, <1>b, <1>w, <1>q, <1>p, <1>1 DEF LockedMeansLocked, PhaseOK,
       WorkerOK, ClockOnlyWhileUnlocked, Busy, Expired, Open, Revoked, ConfigErrorIn,
       authorityVars, idleVars, requestVars, dispatchVars, coreVars
<1>9. EventsAreComplete'
    BY <1>i, <1>t, <1>a, <1>b, <1>w, <1>q, <1>p DEF EventsAreComplete, Snapshot,
       authorityVars, idleVars, requestVars, dispatchVars, coreVars
<1>10. CancelledUnlockIsOver'
    BY <1>i, <1>t, <1>a, <1>b, <1>w, <1>q, <1>p, <1>1 DEF TypeOK, CancelledUnlockIsOver,
       RequestsOK, PhaseOK, Terminal, authorityVars, idleVars, requestVars, dispatchVars,
       coreVars
<1> QED BY <1>1, <1>2, <1>3, <1>4, <1>5, <1>6, <1>7, <1>8, <1>9, <1>10 DEF Inv, Structure

\* An erase revokes the session itself.
LEMMA EraseRevokesInv ==
    ASSUME Inv, worker.step = "checked", Accepts(worker.job.gen),
           idle' = "none", req' = Flagged, generation' = generation + 1, phase' = "Deactivating",
           cleanupPending' = TRUE, announced' = Snapshot',
           monitor' \in {"off", "check", "timed", "untimed", "exited"},
           worker' = [worker EXCEPT !.step = "erasing", !.reset = TRUE, !.resetGen = generation'],
           UNCHANGED <<masterConfigured, foreground, timeoutOn, lastRequest, cancelling,
                       privacy, user, low, shutdown, coreVars>>
    PROVE  Inv'
<1>i. /\ TypeOK /\ QueuesOK /\ RequestsOK /\ WorkerOK /\ CleanupOK /\ PhaseOK
      /\ ReportsTruth /\ LockedMeansLocked /\ EventsAreComplete /\ CancelledUnlockIsOver
    BY DEF Inv, Structure
<1>t. worker \in WorkerStates /\ req \in ReqTable
    BY <1>i DEF TypeOK, ReqTable
<1>g. generation \in Nat /\ generation >= 1 /\ phase \in Open /\ foreground
    BY <1>i DEF TypeOK, PhaseOK, Accepts, Open
<1>w. /\ worker' \in WorkerStates /\ worker'.step = "erasing" /\ worker'.job = worker.job
      /\ worker'.reset /\ worker'.resetGen = generation + 1
    <2>1. worker' = [worker EXCEPT !.step = "erasing", !.reset = TRUE, !.resetGen = generation + 1]
        OBVIOUS
    <2>2. generation + 1 \in Nat
        BY <1>g
    <2> QED BY <1>t, <2>1, <2>2 DEF WorkerStates
<1>r. req' \in ReqTable /\ \A id \in Requests : Alike(req'[id], req[id])
    BY <1>t, FlaggedFacts
<1>n. \A id \in Requests : id > lastRequest => req'[id] = NoRequest
    BY <1>i DEF RequestsOK, Flagged, Pending, NoRequest
<1>l. \A id \in Requests : req'[id].gen \in Nat /\ req'[id].gen < generation'
    <2> SUFFICES ASSUME NEW id \in Requests
                 PROVE  req'[id].gen \in Nat /\ req'[id].gen < generation'
        OBVIOUS
    <2>1. req[id].gen <= generation /\ req[id].gen \in Nat
        BY <1>i, <1>t, RequestParts DEF RequestsOK
    <2> QED BY <2>1, <1>g, <1>r DEF Alike
<1>c. \A j \in 1..Len(privacy) : ~Cleanup(j)
    BY <1>i, <1>g DEF CleanupOK, Open, Revoked
<1>j. worker.job.id \in Requests /\ req[worker.job.id].job = "running" /\ worker.job.gen = req[worker.job.id].gen
    BY <1>i DEF WorkerOK, Busy
<1>1. TypeOK'
    <2>1. announced' \in [generation : Nat, phase : Phases, cleanup : BOOLEAN, master : BOOLEAN]
        BY <1>i, <1>g DEF Snapshot, TypeOK, Phases
    <2> QED BY <1>i, <1>g, <1>w, <1>r, <2>1 DEF TypeOK, ReqTable, Phases, coreVars
<1>2. QueuesOK'
    <2>1. ~shutdown
        BY <1>i DEF QueuesOK
    <2> QED BY <1>i, <1>r, <2>1, QueuesKept DEF Alike
<1>3. RequestsOK'
    BY <1>i, <1>g, <1>r, <1>n, <1>l DEF RequestsOK, Alike
<1>4. WorkerOK'
    BY <1>g, <1>w, <1>r, <1>j, <1>l DEF WorkerOK, Busy, Revoked, Alike
<1>5. CleanupOK'
    BY <1>c, <1>w DEF CleanupOK, Cleanup
<1>6. PhaseOK'
    BY <1>i, <1>g DEF PhaseOK, ClockOnlyWhileUnlocked, Open, coreVars
<1>7. ReportsTruth'
    BY DEF ReportsTruth, Open
<1>8. LockedMeansLocked'
    BY DEF LockedMeansLocked
<1>9. EventsAreComplete'
    BY DEF EventsAreComplete
<1>10. CancelledUnlockIsOver'
    BY <1>g, <1>l DEF CancelledUnlockIsOver
<1> QED BY <1>1, <1>2, <1>3, <1>4, <1>5, <1>6, <1>7, <1>8, <1>9, <1>10 DEF Inv, Structure

\* An erase reaches its destructive boundary.
LEMMA EraseStartsInv ==
    ASSUME Inv, EraseStarts
    PROVE  Inv'
<1>i. /\ TypeOK /\ QueuesOK /\ RequestsOK /\ WorkerOK /\ CleanupOK /\ PhaseOK
      /\ ReportsTruth /\ LockedMeansLocked /\ EventsAreComplete /\ CancelledUnlockIsOver
    BY DEF Inv, Structure
<1>t. worker \in WorkerStates /\ req \in ReqTable
    BY <1>i DEF TypeOK, ReqTable
<1>a. /\ worker.step = "checked"
      /\ UNCHANGED <<foreground, timeoutOn, lastRequest, cancelling, privacy, user, low, shutdown,
                     coreVars>>
    BY DEF EraseStarts, Running
<1>m. monitor \in {"off", "check", "timed", "untimed", "exited"}
    BY <1>i DEF TypeOK
<1>b. CASE Accepts(worker.job.gen)
    BY <1>a, <1>b, <1>m, EraseRevokesInv DEF EraseStarts, ClearActivity, Emit, Notified
<1>c. CASE ~Accepts(worker.job.gen)
    <2>a. /\ UNCHANGED <<idle, req, generation, phase, cleanupPending, masterConfigured,
                         announced, monitor>>
          /\ worker' = [worker EXCEPT !.step = "erasing", !.reset = TRUE, !.resetGen = 0]
        BY <1>c DEF EraseStarts
    <2>w. /\ worker' \in WorkerStates /\ worker'.step = "erasing" /\ worker'.job = worker.job
          /\ worker'.reset /\ worker'.resetGen = 0
        BY <1>t, <2>a DEF WorkerStates
    <2>1. TypeOK'
        BY <1>i, <1>a, <2>a, <2>w DEF TypeOK, coreVars
    <2>2. QueuesOK' /\ RequestsOK'
        BY <1>i, <1>a, <2>a DEF QueuesOK, RequestsOK, HasJob
    <2>l. worker.job.gen < generation \/ Expired
        <3>1. Busy
            BY <1>a DEF Busy
        <3>2. worker.job.id \in Requests /\ worker.job.gen = req[worker.job.id].gen
            BY <1>i, <3>1 DEF WorkerOK
        <3>3. worker.job.gen \in Nat /\ generation \in Nat /\ worker.job.gen <= generation
            BY <1>i, <1>t, <3>2, RequestParts DEF RequestsOK, TypeOK
        <3>4. worker.job.gen = generation => phase \in Open /\ foreground
            BY <1>i, <3>1 DEF WorkerOK, PhaseOK
        <3> QED BY <1>c, <3>3, <3>4 DEF Accepts, Open
    <2>3. WorkerOK'
        BY <1>i, <1>a, <2>a, <2>w, <2>l DEF WorkerOK, Busy, Expired
    <2>4. CleanupOK' /\ PhaseOK'
        BY <1>i, <1>a, <2>a, <2>w DEF CleanupOK, Cleanup, PhaseOK, ClockOnlyWhileUnlocked, coreVars
    <2>5. ReportsTruth' /\ LockedMeansLocked'
        BY <1>i, <1>a, <2>a, <2>w
        DEF ReportsTruth, LockedMeansLocked, Busy, ConfigErrorIn, Expired, coreVars
    <2>6. EventsAreComplete' /\ CancelledUnlockIsOver'
        BY <1>i, <1>a, <2>a DEF EventsAreComplete, Snapshot, CancelledUnlockIsOver
    <2> QED BY <2>1, <2>2, <2>3, <2>4, <2>5, <2>6 DEF Inv, Structure
<1> QED BY <1>b, <1>c

\* The outcome of a revoked request is not published.
LEMMA FinishRevokedInv ==
    ASSUME Inv, FinishRevoked
    PROVE  Inv'
<1>i. /\ TypeOK /\ QueuesOK /\ RequestsOK /\ WorkerOK /\ CleanupOK /\ PhaseOK
      /\ ReportsTruth /\ LockedMeansLocked /\ EventsAreComplete /\ CancelledUnlockIsOver
    BY DEF Inv, Structure
<1>t. worker \in WorkerStates /\ req \in ReqTable
    BY <1>i DEF TypeOK, ReqTable
<1>a. /\ worker.step = "handled" /\ ~Accepts(worker.job.gen)
      /\ req' = JobEnds(worker.job.id, "revoked") /\ worker' = Idle
      /\ UNCHANGED <<generation, phase, cleanupPending, masterConfigured, announced, idleVars,
                     foreground, timeoutOn, lastRequest, cancelling, privacy, user, low,
                     shutdown, coreVars>>
    BY DEF FinishRevoked, FinishReply, FinishUnchanged
<1>d. PICK id : id = worker.job.id
    OBVIOUS
<1>j. /\ id \in Requests /\ req[id].job = "running" /\ ~req[id].failed
      /\ worker.job.gen = req[id].gen /\ ~shutdown /\ req[id].cmd # "none" /\ ~(id > lastRequest)
      /\ req[id].fut # "admitted"
      /\ phase \in IF req[id].gen = generation THEN Open ELSE Revoked
    BY <1>i, <1>d, <1>a DEF WorkerOK, Busy, RequestsOK, QueuesOK, NoRequest
<1>r. /\ req' \in ReqTable /\ \A o \in Requests \ {id} : req'[o] = req[o]
      /\ req'[id].cmd = req[id].cmd /\ req'[id].gen = req[id].gen /\ req'[id].fut = req[id].fut
      /\ req'[id].failed = req[id].failed /\ req'[id].cancel = req[id].cancel
      /\ req'[id].job = "done"
    BY <1>t, <1>d, <1>j, <1>a, JobEndsFacts
<1>w. /\ worker' \in WorkerStates /\ worker'.step = "idle" /\ worker'.resetGen = 0
      /\ worker'.reset = FALSE
    BY <1>a, IdleType
<1>k. \A cmds : ConfigErrorIn(cmds) => ConfigErrorIn(cmds)'
    BY <1>a, <1>r, <1>j, ConfigErrorKept
<1>p. phase \in Open => Expired /\ phase = "Unlocked"
    BY <1>i, <1>a, <1>d, <1>j DEF Accepts, PhaseOK, Open, Revoked, Expired, ClockOnlyWhileUnlocked
<1>1. TypeOK'
    BY <1>i, <1>t, <1>a, <1>d, <1>j, <1>r, <1>w, <1>k, <1>p DEF TypeOK, ReqTable, Phases,
       authorityVars, idleVars, requestVars, dispatchVars, coreVars
<1>2. QueuesOK'
    BY <1>i, <1>a, <1>j, <1>r, QueuesKept
<1>3. RequestsOK'
    BY <1>i, <1>t, <1>a, <1>d, <1>j, <1>r, <1>w, <1>k, <1>p, <1>1 DEF TypeOK, RequestsOK,
       PhaseOK, Open, Terminal, authorityVars, idleVars, requestVars, dispatchVars, coreVars
<1>4. WorkerOK'
    BY <1>i, <1>t, <1>a, <1>d, <1>j, <1>r, <1>w, <1>k, <1>p, <1>1 DEF WorkerOK, RequestsOK,
       Busy, Open, Revoked, authorityVars, idleVars, requestVars, dispatchVars, coreVars
<1>5. CleanupOK'
    BY <1>i, <1>a, <1>w, CleanupKept DEF TypeOK
<1>6. PhaseOK'
    BY <1>i, <1>t, <1>a, <1>d, <1>j, <1>r, <1>w, <1>k, <1>p, <1>1 DEF PhaseOK, WorkerOK,
       ClockOnlyWhileUnlocked, Open, Revoked, authorityVars, idleVars, requestVars,
       dispatchVars, coreVars, Expired
<1>7. ReportsTruth'
    BY <1>i, <1>t, <1>a, <1>d, <1>j, <1>r, <1>w, <1>k, <1>p, <1>1 DEF ReportsTruth, PhaseOK,
       WorkerOK, ClockOnlyWhileUnlocked, Busy, Expired, Open, Revoked, authorityVars,
       idleVars, requestVars, dispatchVars, coreVars
<1>8. LockedMeansLocked'
    BY <1>i, <1>t, <1>a, <1>d, <1>j, <1>r, <1>w, <1>k, <1>p, <1>1 DEF LockedMeansLocked,
       PhaseOK, WorkerOK, ClockOnlyWhileUnlocked, Busy, Expired, Open, Revoked,
       authorityVars, idleVars, requestVars, dispatchVars, coreVars
<1>9. EventsAreComplete'
    BY <1>i, <1>t, <1>a, <1>d, <1>j, <1>r, <1>w, <1>k, <1>p DEF EventsAreComplete, Snapshot,
       authorityVars, idleVars, requestVars, dispatchVars, coreVars
<1>10. CancelledUnlockIsOver'
    BY <1>i, <1>t, <1>a, <1>d, <1>j, <1>r, <1>w, <1>k, <1>p, <1>1 DEF TypeOK,
       CancelledUnlockIsOver, RequestsOK, PhaseOK, Terminal, authorityVars, idleVars,
       requestVars, dispatchVars, coreVars
<1> QED BY <1>1, <1>2, <1>3, <1>4, <1>5, <1>6, <1>7, <1>8, <1>9, <1>10 DEF Inv, Structure

\* The outcome of a request is published.
LEMMA FinishPublishInv ==
    ASSUME Inv, FinishPublish
    PROVE  Inv'
<1>i. /\ TypeOK /\ QueuesOK /\ RequestsOK /\ WorkerOK /\ CleanupOK /\ PhaseOK
      /\ ReportsTruth /\ LockedMeansLocked /\ EventsAreComplete /\ CancelledUnlockIsOver
    BY DEF Inv, Structure
<1>t. worker \in WorkerStates /\ req \in ReqTable
    BY <1>i DEF TypeOK, ReqTable
<1>a. /\ worker.step = "handled" /\ Accepts(worker.job.gen) /\ ~CoreGone
      /\ \E a \in {"canceled", "ok"} : req' = JobEnds(worker.job.id, a)
      /\ worker' = Idle
      /\ phase' = CorePhase /\ masterConfigured' = configured /\ announced' = Snapshot'
      /\ UNCHANGED <<generation, cleanupPending, foreground, timeoutOn, lastRequest, cancelling,
                     privacy, user, low, shutdown, coreVars>>
    BY DEF FinishPublish, FinishReply, FinishUnchanged
<1>d. PICK id : id = worker.job.id
    OBVIOUS
<1>j. /\ id \in Requests /\ req[id].job = "running" /\ ~req[id].failed
      /\ worker.job.gen = req[id].gen /\ ~shutdown /\ req[id].cmd # "none" /\ ~(id > lastRequest)
      /\ req[id].fut # "admitted"
      /\ phase \in IF req[id].gen = generation THEN Open ELSE Revoked
    BY <1>i, <1>d, <1>a DEF WorkerOK, Busy, RequestsOK, QueuesOK, NoRequest
<1>r. /\ req' \in ReqTable /\ \A o \in Requests \ {id} : req'[o] = req[o]
      /\ req'[id].cmd = req[id].cmd /\ req'[id].gen = req[id].gen /\ req'[id].fut = req[id].fut
      /\ req'[id].failed = req[id].failed /\ req'[id].cancel = req[id].cancel
      /\ req'[id].job = "done"
    BY <1>t, <1>d, <1>j, <1>a, JobEndsFacts
<1>w. /\ worker' \in WorkerStates /\ worker'.step = "idle" /\ worker'.resetGen = 0
      /\ worker'.reset = FALSE
    BY <1>a, IdleType
<1>k. \A cmds : ConfigErrorIn(cmds) => ConfigErrorIn(cmds)'
    BY <1>a, <1>r, <1>j, ConfigErrorKept
<1>p. /\ phase \in Open /\ (phase = "Unlocked" => unlocked)
      /\ phase' \in Open /\ (phase' = "Unlocked" <=> unlocked)
    BY <1>a DEF Accepts, Open, CoreGone, CorePhase
<1>m. /\ monitor' \in {"off", "check", "timed", "untimed", "exited"}
      /\ \/ idle' = "fresh" /\ phase' = "Unlocked"
         \/ idle' = idle
    BY <1>i, <1>a DEF FinishPublish, StartClock, Notified, TypeOK
<1>1. TypeOK'
    BY <1>i, <1>t, <1>a, <1>d, <1>j, <1>r, <1>w, <1>k, <1>p, <1>m DEF TypeOK, ReqTable,
       Phases, Snapshot, Open, authorityVars, idleVars, requestVars, dispatchVars, coreVars
<1>2. QueuesOK'
    BY <1>i, <1>a, <1>j, <1>r, QueuesKept
<1>3. RequestsOK'
    BY <1>i, <1>t, <1>a, <1>d, <1>j, <1>r, <1>w, <1>k, <1>p, <1>m, <1>1 DEF TypeOK,
       RequestsOK, PhaseOK, Open, Terminal, authorityVars, idleVars, requestVars,
       dispatchVars, coreVars
<1>4. WorkerOK'
    BY <1>i, <1>t, <1>a, <1>d, <1>j, <1>r, <1>w, <1>k, <1>p, <1>m, <1>1 DEF WorkerOK,
       RequestsOK, Busy, Open, Revoked, authorityVars, idleVars, requestVars, dispatchVars,
       coreVars
<1>5. CleanupOK'
    BY <1>i, <1>t, <1>a, <1>d, <1>j, <1>r, <1>w, <1>k, <1>p, <1>m, <1>1 DEF CleanupOK,
       WorkerOK, Cleanup, Revoked, Open, authorityVars, idleVars, requestVars, dispatchVars,
       coreVars
<1>6. PhaseOK'
    BY <1>i, <1>t, <1>a, <1>d, <1>j, <1>r, <1>w, <1>k, <1>p, <1>m, <1>1 DEF PhaseOK,
       WorkerOK, ClockOnlyWhileUnlocked, Open, Revoked, authorityVars, idleVars,
       requestVars, dispatchVars, coreVars
<1>7. ReportsTruth'
    BY <1>i, <1>t, <1>a, <1>d, <1>j, <1>r, <1>w, <1>k, <1>p, <1>m, <1>1 DEF ReportsTruth,
       PhaseOK, WorkerOK, ClockOnlyWhileUnlocked, Busy, Expired, Open, Revoked,
       authorityVars, idleVars, requestVars, dispatchVars, coreVars
<1>8. LockedMeansLocked'
    BY <1>i, <1>t, <1>a, <1>d, <1>j, <1>r, <1>w, <1>k, <1>p, <1>m, <1>1 DEF
       LockedMeansLocked, PhaseOK, WorkerOK, ClockOnlyWhileUnlocked, Busy, Expired, Open,
       Revoked, authorityVars, idleVars, requestVars, dispatchVars, coreVars
<1>9. EventsAreComplete'
    BY <1>i, <1>t, <1>a, <1>d, <1>j, <1>r, <1>w, <1>k, <1>p, <1>m DEF EventsAreComplete,
       Snapshot, authorityVars, idleVars, requestVars, dispatchVars, coreVars
<1>10. CancelledUnlockIsOver'
    <2>1. \A o \in Requests : /\ req'[o].cmd = req[o].cmd /\ req'[o].gen = req[o].gen
                              /\ req'[o].cancel = req[o].cancel
        BY <1>j, <1>r
    <2>2. ~Terminal(phase) /\ generation' = generation /\ cancelling' = cancelling
        BY <1>a, <1>p DEF Terminal, Open
    <2> QED BY <1>i, <2>1, <2>2 DEF CancelledUnlockIsOver
<1> QED BY <1>1, <1>2, <1>3, <1>4, <1>5, <1>6, <1>7, <1>8, <1>9, <1>10 DEF Inv, Structure

\* An erase completes its revocation.
LEMMA FinishResetInv ==
    ASSUME Inv, FinishReset
    PROVE  Inv'
<1>i. /\ TypeOK /\ QueuesOK /\ RequestsOK /\ WorkerOK /\ CleanupOK /\ PhaseOK
      /\ ReportsTruth /\ LockedMeansLocked /\ EventsAreComplete /\ CancelledUnlockIsOver
    BY DEF Inv, Structure
<1>t. worker \in WorkerStates /\ req \in ReqTable
    BY <1>i DEF TypeOK, ReqTable
<1>a. /\ worker.step = "handled" /\ worker.resetGen # 0
      /\ req' = JobEnds(worker.job.id, "revoked") /\ worker' = Idle
      /\ UNCHANGED <<generation, idle, foreground, timeoutOn, lastRequest, cancelling,
                     privacy, user, low, shutdown, coreVars>>
    BY DEF FinishReset, FinishReply, FinishUnchanged, Emit
<1>d. PICK id : id = worker.job.id
    OBVIOUS
<1>j. /\ id \in Requests /\ req[id].job = "running" /\ ~req[id].failed
      /\ worker.job.gen = req[id].gen /\ ~shutdown /\ req[id].cmd # "none" /\ ~(id > lastRequest)
      /\ req[id].fut # "admitted"
      /\ phase \in IF req[id].gen = generation THEN Open ELSE Revoked
    BY <1>i, <1>d, <1>a DEF WorkerOK, Busy, RequestsOK, QueuesOK, NoRequest
<1>r. /\ req' \in ReqTable /\ \A o \in Requests \ {id} : req'[o] = req[o]
      /\ req'[id].cmd = req[id].cmd /\ req'[id].gen = req[id].gen /\ req'[id].fut = req[id].fut
      /\ req'[id].failed = req[id].failed /\ req'[id].cancel = req[id].cancel
      /\ req'[id].job = "done"
    BY <1>t, <1>d, <1>j, <1>a, JobEndsFacts
<1>w. /\ worker' \in WorkerStates /\ worker'.step = "idle" /\ worker'.resetGen = 0
      /\ worker'.reset = FALSE
    BY <1>a, IdleType
<1>k. \A cmds : ConfigErrorIn(cmds) => ConfigErrorIn(cmds)'
    BY <1>a, <1>r, <1>j, ConfigErrorKept
<1>p. /\ ~unlocked
      /\ worker.resetGen = generation => /\ phase = "Deactivating"
                                         /\ \A l \in 1..Len(privacy) : ~Cleanup(l)
    BY <1>i, <1>a DEF WorkerOK, CleanupOK
<1>b. /\ cleanupPending' \in BOOLEAN /\ masterConfigured' \in BOOLEAN
      /\ monitor' \in {"off", "check", "timed", "untimed", "exited"}
      /\ \/ UNCHANGED <<phase, masterConfigured, cleanupPending, announced>>
         \/ /\ announced' = Snapshot' /\ worker.resetGen = generation /\ phase' = "Failed"
         \/ /\ announced' = Snapshot' /\ worker.resetGen = generation
            /\ masterConfigured' = configured
            /\ phase' = IF foreground THEN "Locked" ELSE "Inactive"
    <2>1. /\ monitor \in {"off", "check", "timed", "untimed", "exited"}
          /\ cleanupPending \in BOOLEAN /\ masterConfigured \in BOOLEAN /\ configured \in BOOLEAN
        BY <1>i DEF TypeOK
    <2>2. CASE generation = worker.resetGen
        <3>1. PICK ok \in BOOLEAN :
                /\ cleanupPending' = FALSE
                /\ phase' = IF ~ok \/ phase = "Failed" THEN "Failed"
                            ELSE IF foreground THEN "Locked" ELSE "Inactive"
                /\ masterConfigured' = IF ok THEN configured ELSE masterConfigured
                /\ Emit
            BY <2>2 DEF FinishReset
        <3> QED BY <2>1, <2>2, <3>1, <1>p DEF Emit, Notified
    <2>3. CASE generation # worker.resetGen
        BY <2>1, <2>3 DEF FinishReset
    <2> QED BY <2>2, <2>3
<1>1. TypeOK'
    BY <1>i, <1>t, <1>a, <1>b, <1>d, <1>j, <1>r, <1>w, <1>k, <1>p DEF TypeOK, ReqTable,
       Phases, Snapshot, authorityVars, idleVars, requestVars, dispatchVars, coreVars
<1>2. QueuesOK'
    BY <1>i, <1>a, <1>j, <1>r, QueuesKept
<1>3. RequestsOK'
    BY <1>i, <1>t, <1>a, <1>b, <1>d, <1>j, <1>r, <1>w, <1>k, <1>p, <1>1 DEF TypeOK,
       RequestsOK, PhaseOK, Open, Terminal, authorityVars, idleVars, requestVars,
       dispatchVars, coreVars
<1>4. WorkerOK'
    BY <1>i, <1>t, <1>a, <1>b, <1>d, <1>j, <1>r, <1>w, <1>k, <1>p, <1>1 DEF WorkerOK,
       RequestsOK, Busy, Open, Revoked, authorityVars, idleVars, requestVars, dispatchVars,
       coreVars
<1>5. CleanupOK'
    <2>1. CASE UNCHANGED phase
        BY <1>i, <1>a, <1>w, <2>1, CleanupKept DEF TypeOK
    <2>2. CASE worker.resetGen = generation
        BY <1>a, <1>p, <2>2 DEF CleanupOK, Cleanup
    <2> QED BY <1>b, <2>1, <2>2
<1>6. PhaseOK'
    <2>1. phase \in Revoked
        BY <1>i, <1>a DEF WorkerOK, Busy, TypeOK, WorkerStates, Jobs
    <2>2. CASE UNCHANGED <<phase, masterConfigured>>
        BY <1>i, <1>a, <2>1, <2>2 DEF PhaseOK, ClockOnlyWhileUnlocked, Open, Revoked, coreVars
    <2>3. CASE phase' = "Failed"
        BY <1>i, <1>a, <2>1, <2>3 DEF PhaseOK, ClockOnlyWhileUnlocked, Open, Revoked, coreVars
    <2>4. CASE /\ masterConfigured' = configured
               /\ phase' = IF foreground THEN "Locked" ELSE "Inactive"
        BY <1>i, <1>a, <2>1, <2>4 DEF PhaseOK, ClockOnlyWhileUnlocked, Open, Revoked, coreVars
    <2> QED BY <1>b, <2>2, <2>3, <2>4
<1>7. ReportsTruth'
    <2>1. phase \in Revoked
        BY <1>i, <1>a DEF WorkerOK, Busy, TypeOK, WorkerStates, Jobs
    <2> QED BY <1>a, <1>b, <1>p, <2>1 DEF ReportsTruth, Open, Revoked, coreVars
<1>8. LockedMeansLocked'
    BY <1>i, <1>t, <1>a, <1>b, <1>d, <1>j, <1>r, <1>w, <1>k, <1>p, <1>1 DEF
       LockedMeansLocked, PhaseOK, WorkerOK, ClockOnlyWhileUnlocked, Busy, Expired, Open,
       Revoked, authorityVars, idleVars, requestVars, dispatchVars, coreVars
<1>9. EventsAreComplete'
    BY <1>i, <1>t, <1>a, <1>b, <1>d, <1>j, <1>r, <1>w, <1>k, <1>p DEF EventsAreComplete,
       Snapshot, authorityVars, idleVars, requestVars, dispatchVars, coreVars
<1>10. CancelledUnlockIsOver'
    BY <1>i, <1>t, <1>a, <1>b, <1>d, <1>j, <1>r, <1>w, <1>k, <1>p, <1>1 DEF TypeOK,
       CancelledUnlockIsOver, RequestsOK, PhaseOK, Terminal, authorityVars, idleVars,
       requestVars, dispatchVars, coreVars
<1> QED BY <1>1, <1>2, <1>3, <1>4, <1>5, <1>6, <1>7, <1>8, <1>9, <1>10 DEF Inv, Structure

\* The outcome of a request cannot be published.
LEMMA FinishConfigErrorInv ==
    ASSUME Inv, FinishConfigError
    PROVE  Inv'
<1>i. /\ TypeOK /\ QueuesOK /\ RequestsOK /\ WorkerOK /\ CleanupOK /\ PhaseOK
      /\ ReportsTruth /\ LockedMeansLocked /\ EventsAreComplete /\ CancelledUnlockIsOver
    BY DEF Inv, Structure
<1>t. worker \in WorkerStates /\ req \in ReqTable
    BY <1>i DEF TypeOK, ReqTable
<1>a. /\ worker.step = "handled" /\ Accepts(worker.job.gen) /\ worker' = Idle
      /\ UNCHANGED <<generation, phase, cleanupPending, masterConfigured, announced, idleVars,
                     foreground, timeoutOn, lastRequest, cancelling, privacy, user, low,
                     shutdown, coreVars>>
    BY DEF FinishConfigError, FinishUnchanged
<1>d. PICK id : id = worker.job.id
    OBVIOUS
<1>j. /\ id \in Requests /\ req[id].job = "running" /\ ~req[id].failed
      /\ worker.job.gen = req[id].gen /\ ~shutdown /\ req[id].cmd # "none" /\ ~(id > lastRequest)
      /\ req[id].fut # "admitted" /\ req[id].gen = generation
    BY <1>i, <1>d, <1>a DEF WorkerOK, Busy, RequestsOK, QueuesOK, NoRequest, Accepts
<1> DEFINE x == JobEnds(id, "unavailable")
<1>x. /\ x \in ReqTable /\ \A o \in Requests \ {id} : x[o] = req[o]
      /\ x[id].cmd = req[id].cmd /\ x[id].gen = req[id].gen /\ x[id].fut = req[id].fut
      /\ x[id].cancel = req[id].cancel /\ x[id].job = "done"
    BY <1>t, <1>j, JobEndsFacts
<1>y. req' = [x EXCEPT ![id].failed = TRUE]
    BY <1>d DEF FinishConfigError
<1> HIDE DEF x
<1>r. /\ req' \in ReqTable /\ \A o \in Requests \ {id} : req'[o] = req[o]
      /\ req'[id].cmd = req[id].cmd /\ req'[id].gen = req[id].gen /\ req'[id].fut = req[id].fut
      /\ req'[id].cancel = req[id].cancel /\ req'[id].job = "done" /\ req'[id].failed
    <2> DEFINE y == x[id]
    <2>1. y \in RequestStates /\ id \in DOMAIN x
        BY <1>j, <1>x DEF ReqTable
    <2>2. req' = [x EXCEPT ![id] = [y EXCEPT !.failed = TRUE]]
        BY <1>y
    <2>3. y.cmd = req[id].cmd /\ y.gen = req[id].gen /\ y.fut = req[id].fut
          /\ y.cancel = req[id].cancel /\ y.job = "done"
        BY <1>x
    <2> HIDE DEF y
    <2>4. LET z == [y EXCEPT !.failed = TRUE]
          IN  /\ z \in RequestStates /\ z.cmd = y.cmd /\ z.gen = y.gen /\ z.fut = y.fut
              /\ z.cancel = y.cancel /\ z.job = y.job /\ z.failed
        BY <2>1 DEF RequestStates
    <2> DEFINE z == [y EXCEPT !.failed = TRUE]
    <2> HIDE DEF z
    <2>5. req' = [x EXCEPT ![id] = z] /\ x \in [Requests -> RequestStates]
        BY <2>2, <1>x DEF z, ReqTable
    <2>6. /\ z \in RequestStates /\ z.cmd = y.cmd /\ z.gen = y.gen /\ z.fut = y.fut
          /\ z.cancel = y.cancel /\ z.job = y.job /\ z.failed
        BY <2>4 DEF z
    <2>7. req' \in ReqTable /\ req'[id] = z /\ \A o \in Requests \ {id} : req'[o] = x[o]
        BY <1>j, <2>5, <2>6 DEF ReqTable
    <2> QED BY <1>x, <2>3, <2>6, <2>7
<1>w. /\ worker' \in WorkerStates /\ worker'.step = "idle" /\ worker'.resetGen = 0
      /\ worker'.reset = FALSE
    BY <1>a, IdleType
<1>k. \A cmds : ConfigErrorIn(cmds) => ConfigErrorIn(cmds)'
    BY <1>a, <1>r, <1>j, ConfigErrorKept
<1>l. \A cmds : req[id].cmd \in cmds => ConfigErrorIn(cmds)'
    BY <1>a, <1>j, <1>r DEF ConfigErrorIn
<1>m. req[id].cmd \in AllCommands
    BY <1>j, <1>t DEF ReqTable, RequestStates
<1>1. TypeOK'
    BY <1>i, <1>t, <1>a, <1>d, <1>j, <1>r, <1>w, <1>k, <1>l, <1>m DEF TypeOK, ReqTable,
       Phases, authorityVars, idleVars, requestVars, dispatchVars, coreVars
<1>2. QueuesOK'
    BY <1>i, <1>a, <1>j, <1>r, QueuesKept
<1>3. RequestsOK'
    BY <1>i, <1>t, <1>a, <1>d, <1>j, <1>r, <1>w, <1>k, <1>l, <1>m, <1>1 DEF TypeOK,
       RequestsOK, PhaseOK, Open, Terminal, authorityVars, idleVars, requestVars,
       dispatchVars, coreVars
<1>4. WorkerOK'
    BY <1>i, <1>t, <1>a, <1>d, <1>j, <1>r, <1>w, <1>k, <1>l, <1>m, <1>1 DEF WorkerOK,
       RequestsOK, Busy, Open, Revoked, authorityVars, idleVars, requestVars, dispatchVars,
       coreVars
<1>5. CleanupOK'
    BY <1>i, <1>a, <1>w, CleanupKept DEF TypeOK
<1>6. PhaseOK'
    <2>1. ~Expired /\ worker.job.gen = generation /\ generation \in Nat /\ worker.resetGen = 0
        BY <1>i, <1>a DEF Accepts, TypeOK, FinishConfigError
    <2>2. ~worker.reset
        BY <1>i, <2>1 DEF WorkerOK
    <2> QED BY <1>i, <1>a, <2>1, <2>2
            DEF PhaseOK, ClockOnlyWhileUnlocked, Expired, idleVars, coreVars
<1>7. ReportsTruth'
    BY <1>i, <1>t, <1>a, <1>d, <1>j, <1>r, <1>w, <1>k, <1>l, <1>m, <1>1 DEF ReportsTruth,
       PhaseOK, WorkerOK, ClockOnlyWhileUnlocked, Busy, Expired, Open, Revoked,
       authorityVars, idleVars, requestVars, dispatchVars, coreVars
<1>8. LockedMeansLocked'
    BY <1>i, <1>t, <1>a, <1>d, <1>j, <1>r, <1>w, <1>k, <1>l, <1>m, <1>1 DEF
       LockedMeansLocked, PhaseOK, WorkerOK, ClockOnlyWhileUnlocked, Busy, Expired, Open,
       Revoked, authorityVars, idleVars, requestVars, dispatchVars, coreVars
<1>9. EventsAreComplete'
    BY <1>i, <1>t, <1>a, <1>d, <1>j, <1>r, <1>w, <1>k, <1>l, <1>m DEF EventsAreComplete,
       Snapshot, authorityVars, idleVars, requestVars, dispatchVars, coreVars
<1>10. CancelledUnlockIsOver'
    BY <1>i, <1>t, <1>a, <1>d, <1>j, <1>r, <1>w, <1>k, <1>l, <1>m, <1>1 DEF TypeOK,
       CancelledUnlockIsOver, RequestsOK, PhaseOK, Terminal, authorityVars, idleVars,
       requestVars, dispatchVars, coreVars
<1> QED BY <1>1, <1>2, <1>3, <1>4, <1>5, <1>6, <1>7, <1>8, <1>9, <1>10 DEF Inv, Structure

\* The core locked itself.
LEMMA FinishCoreGoneInv ==
    ASSUME Inv, FinishCoreGone
    PROVE  Inv'
<1>i. /\ TypeOK /\ QueuesOK /\ RequestsOK /\ WorkerOK /\ CleanupOK /\ PhaseOK
      /\ ReportsTruth /\ LockedMeansLocked /\ EventsAreComplete /\ CancelledUnlockIsOver
    BY DEF Inv, Structure
<1>t. worker \in WorkerStates /\ req \in ReqTable
    BY <1>i DEF TypeOK, ReqTable
<1>a. /\ worker.step = "handled" /\ Accepts(worker.job.gen) /\ CoreGone /\ worker' = Idle
      /\ idle' = "none" /\ generation' = generation + 1 /\ phase' = "Locked"
      /\ masterConfigured' = configured /\ announced' = Snapshot'
      /\ UNCHANGED <<cleanupPending, foreground, timeoutOn, lastRequest, cancelling,
                     privacy, user, low, shutdown, coreVars>>
    BY DEF FinishCoreGone, FinishUnchanged, ClearActivity, Emit
<1>m. monitor' \in {"off", "check", "timed", "untimed", "exited"}
    BY <1>i DEF FinishCoreGone, Emit, Notified, TypeOK
<1>d. PICK id : id = worker.job.id
    OBVIOUS
<1>j. /\ id \in Requests /\ req[id].job = "running" /\ ~req[id].failed
      /\ ~shutdown /\ ~(id > lastRequest) /\ req[id].fut # "admitted" /\ req[id].cmd # "none"
    BY <1>i, <1>d, <1>a DEF WorkerOK, Busy, RequestsOK, QueuesOK, NoRequest
<1> DEFINE x == JobEnds(id, "revoked")
<1>x. /\ x \in ReqTable /\ \A o \in Requests \ {id} : x[o] = req[o]
      /\ x[id].cmd = req[id].cmd /\ x[id].gen = req[id].gen /\ x[id].fut = req[id].fut
      /\ x[id].failed = req[id].failed /\ x[id].job = "done"
    BY <1>t, <1>j, JobEndsFacts
<1>y. req' = [o \in Requests |-> [x[o] EXCEPT !.cancel = @ \/ Pending(o)]]
    BY <1>d DEF FinishCoreGone
<1> HIDE DEF x
<1>z. ASSUME NEW o \in Requests PROVE req'[o] \in RequestStates /\ Alike(req'[o], x[o])
    <2>1. x[o] \in RequestStates
        BY <1>x DEF ReqTable
    <2>2. (x[o].cancel \/ Pending(o)) \in BOOLEAN
        OBVIOUS
    <2>3. req'[o] = [x[o] EXCEPT !.cancel = x[o].cancel \/ Pending(o)]
        BY <1>y
    <2> QED BY <2>1, <2>2, <2>3 DEF RequestStates, Alike
<1>r. /\ req' \in ReqTable /\ \A o \in Requests \ {id} : Alike(req'[o], req[o])
      /\ req'[id].cmd = req[id].cmd /\ req'[id].gen = req[id].gen /\ req'[id].fut = req[id].fut
      /\ req'[id].failed = req[id].failed /\ req'[id].job = "done"
    <2>1. req' \in ReqTable
        BY <1>y, <1>z DEF ReqTable
    <2>2. \A o \in Requests : Alike(req'[o], x[o])
        BY <1>z
    <2> QED BY <1>j, <1>x, <2>1, <2>2 DEF Alike
<1>n. \A o \in Requests : o > lastRequest => req'[o] = NoRequest
    <2> SUFFICES ASSUME NEW o \in Requests, o > lastRequest PROVE req'[o] = NoRequest
        OBVIOUS
    <2>1. x[o] = NoRequest /\ req[o] = NoRequest
        BY <1>i, <1>j, <1>x DEF RequestsOK
    <2>2. ~Pending(o)
        BY <2>1 DEF Pending, NoRequest
    <2>3. req'[o] = [NoRequest EXCEPT !.cancel = FALSE]
        <3>1. req'[o] = [x[o] EXCEPT !.cancel = x[o].cancel \/ Pending(o)]
            BY <1>y
        <3>2. NoRequest.cancel = FALSE
            BY DEF NoRequest
        <3>3. (x[o].cancel \/ Pending(o)) = FALSE
            BY <2>1, <2>2, <3>2
        <3> QED BY <2>1, <3>1, <3>3
    <2> QED BY <2>3 DEF NoRequest
<1>g. generation \in Nat /\ generation >= 1 /\ phase \in Open /\ foreground
    BY <1>i, <1>a DEF TypeOK, PhaseOK, Accepts, Open
<1>l. \A o \in Requests : req'[o].gen \in Nat /\ req'[o].gen < generation'
    <2> SUFFICES ASSUME NEW o \in Requests
                 PROVE  req'[o].gen \in Nat /\ req'[o].gen < generation'
        OBVIOUS
    <2>1. req[o].gen <= generation /\ req[o].gen \in Nat
        BY <1>i, <1>t, RequestParts DEF RequestsOK
    <2> QED BY <2>1, <1>a, <1>g, <1>r DEF Alike
<1>w. /\ worker' \in WorkerStates /\ worker'.step = "idle" /\ worker'.resetGen = 0
      /\ worker'.reset = FALSE
    BY <1>a, IdleType
<1>p. ~unlocked /\ \A l \in 1..Len(privacy) : ~Cleanup(l)
    <2>1. ~Expired /\ worker.job.gen = generation /\ worker.resetGen = 0
        BY <1>a DEF Accepts, FinishCoreGone
    <2>2. ~worker.reset
        BY <1>i, <1>g, <2>1 DEF WorkerOK
    <2>3. ~unlocked
        BY <1>i, <1>a, <1>g, <2>1, <2>2 DEF CoreGone, PhaseOK
    <2> QED BY <1>i, <1>g, <2>3 DEF CleanupOK, Open, Revoked
<1>1. TypeOK'
    <2>1. announced' \in [generation : Nat, phase : Phases, cleanup : BOOLEAN, master : BOOLEAN]
        BY <1>i, <1>a, <1>g DEF Snapshot, TypeOK, Phases, coreVars
    <2> QED BY <1>i, <1>a, <1>g, <1>m, <1>w, <1>r, <2>1 DEF TypeOK, ReqTable, Phases, coreVars
<1>2. QueuesOK'
    BY <1>i, <1>a, <1>j, <1>r, QueuesKept DEF Alike
<1>3. RequestsOK'
    BY <1>i, <1>a, <1>j, <1>g, <1>r, <1>n, <1>l DEF RequestsOK, Alike
<1>4. WorkerOK'
    BY <1>w DEF WorkerOK, Busy
<1>5. CleanupOK'
    BY <1>a, <1>p DEF CleanupOK, Cleanup
<1>6. PhaseOK'
    BY <1>i, <1>a, <1>g DEF PhaseOK, ClockOnlyWhileUnlocked, coreVars
<1>7. ReportsTruth'
    BY <1>a, <1>p DEF ReportsTruth, coreVars
<1>8. LockedMeansLocked'
    BY <1>a, <1>p DEF LockedMeansLocked, coreVars
<1>9. EventsAreComplete'
    BY <1>a DEF EventsAreComplete
<1>10. CancelledUnlockIsOver'
    BY <1>g, <1>a, <1>l DEF CancelledUnlockIsOver
<1> QED BY <1>1, <1>2, <1>3, <1>4, <1>5, <1>6, <1>7, <1>8, <1>9, <1>10 DEF Inv, Structure

\* The queues are emptied and their requests answered.
LEMMA RequestShutdownInv ==
    ASSUME Inv, RequestShutdown
    PROVE  Inv'
<1>i. /\ TypeOK /\ QueuesOK /\ RequestsOK /\ WorkerOK /\ CleanupOK /\ PhaseOK
      /\ ReportsTruth /\ LockedMeansLocked /\ EventsAreComplete /\ CancelledUnlockIsOver
    BY DEF Inv, Structure
<1>t. worker \in WorkerStates /\ req \in ReqTable
    BY <1>i DEF TypeOK, ReqTable
<1>a. /\ worker.step = "closing" /\ shutdown' = TRUE /\ worker' = Idle
      /\ privacy' = <<>> /\ user' = <<>> /\ low' = <<>>
      /\ UNCHANGED <<authorityVars, idleVars, lastRequest, cancelling, coreVars>>
    BY DEF RequestShutdown
<1>r. /\ req' \in ReqTable
      /\ \A o \in Requests :
            /\ req'[o].cmd = req[o].cmd /\ req'[o].gen = req[o].gen /\ req'[o].fut = req[o].fut
            /\ req'[o].failed = req[o].failed /\ req'[o].cancel = req[o].cancel
            /\ req[o].job # "queued" => req'[o] = req[o]
            /\ req[o].job = "queued" => req'[o].job = "done"
    <2>1. req' = [o \in Requests |-> IF req[o].job = "queued" THEN JobEnds(o, "closed")[o] ELSE req[o]]
        BY DEF RequestShutdown
    <2>2. \A o \in Requests : /\ JobEnds(o, "closed")[o] \in RequestStates
                              /\ JobEnds(o, "closed")[o].cmd = req[o].cmd
                              /\ JobEnds(o, "closed")[o].gen = req[o].gen
                              /\ JobEnds(o, "closed")[o].fut = req[o].fut
                              /\ JobEnds(o, "closed")[o].failed = req[o].failed
                              /\ JobEnds(o, "closed")[o].cancel = req[o].cancel
                              /\ JobEnds(o, "closed")[o].job = "done"
        BY <1>t, JobEndsFacts, RequestParts
    <2> QED BY <1>t, <2>1, <2>2 DEF ReqTable
<1>w. /\ worker' \in WorkerStates /\ worker'.step = "idle" /\ worker'.resetGen = 0
      /\ worker'.reset = FALSE
    BY <1>a, IdleType
<1>k. \A cmds : ConfigErrorIn(cmds) => ConfigErrorIn(cmds)'
    BY <1>a, <1>r, ConfigErrorKept DEF authorityVars
<1>1. TypeOK'
    BY <1>i, <1>t, <1>a, <1>r, <1>w, <1>k DEF TypeOK, ReqTable, Phases, authorityVars,
       idleVars, requestVars, dispatchVars, coreVars
<1>2. QueuesOK'
    BY <1>a, <1>w DEF QueuesOK, QueueOK, HasJob
<1>3. RequestsOK'
    <2>1. \A o \in Requests : o > lastRequest => req'[o] = NoRequest
        BY <1>i, <1>r DEF RequestsOK, NoRequest
    <2> QED BY <2>1, <1>i, <1>a, <1>r DEF RequestsOK, authorityVars
<1>4. WorkerOK'
    BY <1>i, <1>t, <1>a, <1>r, <1>w, <1>k, <1>1 DEF WorkerOK, RequestsOK, Busy, Open,
       Revoked, authorityVars, idleVars, requestVars, dispatchVars, coreVars
<1>5. CleanupOK'
    BY <1>i, <1>t, <1>a, <1>r, <1>w, <1>k, <1>1 DEF CleanupOK, WorkerOK, Cleanup, Revoked,
       Open, authorityVars, idleVars, requestVars, dispatchVars, coreVars
<1>6. PhaseOK'
    BY <1>i, <1>t, <1>a, <1>r, <1>w, <1>k, <1>1 DEF PhaseOK, WorkerOK,
       ClockOnlyWhileUnlocked, Open, Revoked, authorityVars, idleVars, requestVars,
       dispatchVars, coreVars, Expired
<1>7. ReportsTruth'
    BY <1>i, <1>t, <1>a, <1>r, <1>w, <1>k, <1>1 DEF ReportsTruth, PhaseOK, WorkerOK,
       ClockOnlyWhileUnlocked, Busy, Expired, Open, Revoked, authorityVars, idleVars,
       requestVars, dispatchVars, coreVars
<1>8. LockedMeansLocked'
    BY <1>i, <1>t, <1>a, <1>r, <1>w, <1>k, <1>1 DEF LockedMeansLocked, PhaseOK, WorkerOK,
       ClockOnlyWhileUnlocked, Busy, Expired, Open, Revoked, authorityVars, idleVars,
       requestVars, dispatchVars, coreVars
<1>9. EventsAreComplete'
    BY <1>i, <1>t, <1>a, <1>r, <1>w, <1>k DEF EventsAreComplete, Snapshot, authorityVars,
       idleVars, requestVars, dispatchVars, coreVars
<1>10. CancelledUnlockIsOver'
    BY <1>i, <1>t, <1>a, <1>r, <1>w, <1>k, <1>1 DEF TypeOK, CancelledUnlockIsOver,
       RequestsOK, PhaseOK, Terminal, authorityVars, idleVars, requestVars, dispatchVars,
       coreVars
<1> QED BY <1>1, <1>2, <1>3, <1>4, <1>5, <1>6, <1>7, <1>8, <1>9, <1>10 DEF Inv, Structure

\* The calls that revoke the session.
LEMMA RevocationsInv ==
    ASSUME Inv, Lock \/ Deactivate \/ Close \/ MonitorRevoke
    PROVE  Inv'
<1>1. PICK remain \in BOOLEAN, close \in BOOLEAN :
        RevokeLocked(remain, close) /\ UNCHANGED cancelling /\ UNCHANGED RevokeUnchanged
    BY DEF Lock, Deactivate, Close, MonitorRevoke
<1> QED BY <1>1, RevokeInv

\* The calls that start the idle clock, or find it expired.
LEMMA ActivityInv ==
    ASSUME Inv, RecordUserActivity \/ \E on \in Timeouts : SetAutoLockTimeout(on)
    PROVE  Inv'
<1>1. CASE RevokeLocked(TRUE, FALSE) /\ UNCHANGED cancelling /\ UNCHANGED RevokeUnchanged
    BY <1>1, RevokeInv
<1>2. monitor \in {"off", "check", "timed", "untimed", "exited"} /\ timeoutOn \in BOOLEAN
    BY DEF Inv, TypeOK
<1>3. CASE /\ Accepts(generation) /\ phase = "Unlocked" /\ StartClock
           /\ UNCHANGED <<authorityVars, timeoutOn, requestVars, dispatchVars, coreVars>>
    BY <1>2, <1>3, ClockInv DEF StartClock, Notified
<1>4. CASE \E on \in Timeouts :
             /\ Accepts(generation)
             /\ timeoutOn' = on
             /\ idle' = IF phase = "Unlocked" THEN "fresh" ELSE idle
             /\ monitor' = IF on /\ monitor = "off" THEN "check" ELSE Notified
             /\ UNCHANGED <<authorityVars, requestVars, dispatchVars, coreVars>>
    <2>1. PICK on \in BOOLEAN :
             /\ Accepts(generation)
             /\ timeoutOn' = on
             /\ idle' = IF phase = "Unlocked" THEN "fresh" ELSE idle
             /\ monitor' = IF on /\ monitor = "off" THEN "check" ELSE Notified
             /\ UNCHANGED <<authorityVars, requestVars, dispatchVars, coreVars>>
        BY <1>4, SessionAssumption
    <2>2. idle' = "fresh" => phase = "Unlocked"
        BY <2>1 DEF Inv, Structure, PhaseOK, ClockOnlyWhileUnlocked
    <2> QED BY <1>2, <2>1, <2>2, ClockInv DEF Notified
<1> QED BY <1>1, <1>3, <1>4 DEF RecordUserActivity, SetAutoLockTimeout

\* The second half of a cancellation.
LEMMA CancelRevokeInv ==
    ASSUME Inv, NEW id \in Requests, CancelRevoke(id)
    PROVE  Inv'
<1>i. /\ TypeOK /\ QueuesOK /\ RequestsOK /\ WorkerOK /\ CleanupOK /\ PhaseOK
      /\ ReportsTruth /\ LockedMeansLocked /\ EventsAreComplete /\ CancelledUnlockIsOver
    BY DEF Inv, Structure
<1>a. cancelling' = cancelling \ {id} /\ UNCHANGED RevokeUnchanged
    BY DEF CancelRevoke
<1>1. CASE generation = req[id].gen /\ ~Terminal(phase) /\ RevokeLocked(TRUE, FALSE)
    <2>1. phase \in Open
        BY <1>i, <1>1 DEF RequestsOK
    <2> QED BY <1>a, <1>1, <2>1, RevokeInv
<1>2. CASE /\ generation # req[id].gen \/ Terminal(phase)
           /\ UNCHANGED <<authorityVars, idle, monitor, req, privacy>>
    <2>1. /\ UNCHANGED <<generation, phase, cleanupPending, masterConfigured, announced, foreground>>
          /\ UNCHANGED <<idle, timeoutOn, monitor, req, lastRequest, privacy, user, low>>
          /\ UNCHANGED <<shutdown, worker, unlocked, configured>>
        BY <1>a, <1>2 DEF RevokeUnchanged, authorityVars
    <2>2. generation > req[id].gen \/ Terminal(phase)
        BY <1>i, <1>2 DEF RequestsOK, TypeOK, RequestStates
    <2>3. TypeOK' /\ QueuesOK' /\ RequestsOK'
        BY <1>i, <1>a, <2>1 DEF TypeOK, QueuesOK, HasJob, RequestsOK
    <2>4. WorkerOK' /\ CleanupOK' /\ PhaseOK'
        BY <1>i, <2>1 DEF WorkerOK, Busy, CleanupOK, Cleanup, PhaseOK, ClockOnlyWhileUnlocked,
        Expired, idleVars
    <2>5. ReportsTruth' /\ LockedMeansLocked' /\ EventsAreComplete'
        BY <1>i, <2>1 DEF ReportsTruth, LockedMeansLocked, EventsAreComplete, Busy, Expired,
           ConfigErrorIn, Snapshot
    <2>6. CancelledUnlockIsOver'
        BY <1>i, <1>a, <2>1, <2>2 DEF CancelledUnlockIsOver
    <2> QED BY <2>3, <2>4, <2>5, <2>6 DEF Inv, Structure
<1> QED BY <1>1, <1>2 DEF CancelRevoke

\* A step that leaves the session alone.
LEMMA StutterInv ==
    ASSUME Inv, UNCHANGED vars
    PROVE  Inv'
<1>1. /\ UNCHANGED <<generation, phase, cleanupPending, masterConfigured, announced, foreground>>
      /\ UNCHANGED <<idle, timeoutOn, monitor, req, lastRequest, cancelling, privacy, user, low>>
      /\ UNCHANGED <<shutdown, worker, unlocked, configured>>
    BY DEF vars, authorityVars, idleVars, requestVars, dispatchVars, coreVars
<1>2. TypeOK' /\ QueuesOK' /\ RequestsOK'
    BY <1>1 DEF Inv, Structure, TypeOK, QueuesOK, HasJob, RequestsOK
<1>3. WorkerOK' /\ CleanupOK' /\ PhaseOK'
    BY <1>1 DEF Inv, Structure, WorkerOK, Busy, CleanupOK, Cleanup, PhaseOK,
       ClockOnlyWhileUnlocked, Expired, idleVars
<1>4. ReportsTruth' /\ LockedMeansLocked' /\ EventsAreComplete' /\ CancelledUnlockIsOver'
    BY <1>1 DEF Inv, ReportsTruth, LockedMeansLocked, EventsAreComplete, Busy, Expired,
       ConfigErrorIn, Snapshot, CancelledUnlockIsOver
<1> QED BY <1>2, <1>3, <1>4 DEF Inv, Structure

(***************************************************************************)
(* The invariant holds.                                                     *)
(***************************************************************************)
\* A new session is locked and has no requests.
LEMMA InitInv == Init => Inv
<1> SUFFICES ASSUME Init PROVE Inv
    OBVIOUS
<1>1. TypeOK
    <2>1. req \in [Requests -> RequestStates] /\ worker \in WorkerStates
        BY NoRequestType, IdleType DEF Init
    <2>2. announced \in [generation : Nat, phase : Phases, cleanup : BOOLEAN, master : BOOLEAN]
        BY DEF Init, Snapshot, Phases
    <2>3. <<>> \in Seq(Jobs) /\ 0 \in 0..MaxRequest
        BY SessionAssumption
    <2> QED BY <2>1, <2>2, <2>3 DEF Init, TypeOK, Phases
<1>e. Len(privacy) = 0 /\ Len(user) = 0 /\ Len(low) = 0 /\ ~HasJob /\ worker.step = "idle"
    BY IdleType DEF Init, HasJob
<1>2. QueuesOK
    BY <1>e DEF QueuesOK, QueueOK
<1>3. RequestsOK
    BY DEF Init, RequestsOK, NoRequest, Open
<1>4. WorkerOK /\ CleanupOK /\ PhaseOK
    <2>1. WorkerOK
        BY <1>e, IdleType DEF Init, WorkerOK, Busy
    <2>2. CleanupOK
        BY <1>e DEF Init, CleanupOK
    <2>3. PhaseOK
        BY DEF Init, PhaseOK, ClockOnlyWhileUnlocked
    <2> QED BY <2>1, <2>2, <2>3
<1>5. ReportsTruth /\ LockedMeansLocked /\ EventsAreComplete
    BY DEF Init, ReportsTruth, LockedMeansLocked, EventsAreComplete
<1>6. CancelledUnlockIsOver
    BY DEF Init, CancelledUnlockIsOver, NoRequest
<1> QED BY <1>1, <1>2, <1>3, <1>4, <1>5, <1>6 DEF Inv, Structure

\* Every step keeps the invariant.
LEMMA NextInv ==
    ASSUME Inv, [Next]_vars
    PROVE  Inv'
<1>1. CASE Lock \/ Deactivate \/ Close \/ MonitorRevoke
    BY <1>1, RevocationsInv
<1>2. CASE Activate
    BY <1>2, ActivateInv
<1>3. CASE Elapse
    BY <1>3, ElapseInv
<1>4. CASE RecordUserActivity \/ \E on \in Timeouts : SetAutoLockTimeout(on)
    BY <1>4, ActivityInv
<1>5. CASE \E cmd \in Commands : lastRequest < MaxRequest /\ Admit(lastRequest + 1, cmd)
    BY <1>5, AdmitInv
<1>6. CASE \E id \in Requests : DropAdmitted(id) \/ Execute(id) \/ DropWaiting(id) \/ Cancel(id)
    BY <1>6, DropAdmittedInv, ExecuteInv, DropWaitingInv, CancelInv
<1>7. CASE \E id \in Requests : Caller(id)
    BY <1>7, ExecuteClosedInv, LeaveInv, CancelRevokeInv, RespondInv DEF Caller
<1>8. CASE MonitorWait \/ MonitorTimeout
    BY <1>8, MonitorWaitInv, MonitorTimeoutInv
<1>9. CASE Worker
    BY <1>9, StartJobInv, HandleInv, EraseRefusedInv, EraseStartsInv, EraseEndsInv, FinishResetInv,
       FinishRevokedInv, FinishCoreGoneInv, FinishConfigErrorInv, FinishPublishInv, CleanupCoreInv,
       CleanupAuthorityInv, RequestShutdownInv, WorkerExitInv DEF Worker
<1>10. CASE UNCHANGED vars
    BY <1>10, StutterInv
<1> QED BY <1>1, <1>2, <1>3, <1>4, <1>5, <1>6, <1>7, <1>8, <1>9, <1>10 DEF Next, Monitor

\* The invariant holds in every state of every behaviour.
LEMMA Invariance == Spec => []Inv
<1>1. Inv /\ [Next]_vars => Inv'
    BY NextInv
<1> QED BY InitInv, <1>1, PTL DEF Spec

(***************************************************************************)
(* The theorems.                                                            *)
(***************************************************************************)
\* The session's fields, the requests and the queues keep their types.
THEOREM SessionTypeCorrect == Spec => []TypeOK
<1>1. Inv => TypeOK
    BY DEF Inv
<1> QED BY Invariance, <1>1, PTL

\* A session that reports itself locked or inactive has a locked vault behind it,
\* whatever revocations, cancellations and erases cross the worker's jobs.
THEOREM LockedIsLocked == Spec => []LockedMeansLocked
<1>1. Inv => LockedMeansLocked
    BY DEF Inv
<1> QED BY Invariance, <1>1, PTL

\* Between two jobs the snapshot of an open session says what the core is.
THEOREM ReportedStateIsTrue == Spec => []SnapshotIsTrue
<1>1. Inv => SnapshotIsTrue
    <2> SUFFICES ASSUME Inv, worker.step = "idle", ~Expired,
                        phase \in {"Locked", "Unlocked", "Inactive"}, ~ConfigErrorIn(AllCommands)
                 PROVE  masterConfigured = configured /\ (phase = "Unlocked") = unlocked
        BY DEF SnapshotIsTrue
    <2>1. ~Busy
        BY DEF Busy
    <2>2. masterConfigured = configured /\ (phase = "Unlocked" <=> unlocked)
        BY <2>1 DEF Inv, ReportsTruth, Open
    <2>3. unlocked \in BOOLEAN
        BY DEF Inv, TypeOK
    <2> QED BY <2>2, <2>3
<1> QED BY Invariance, <1>1, PTL

\* The newest event always holds the current snapshot.
THEOREM NoChangeWithoutEvent == Spec => []EventsAreComplete
<1>1. Inv => EventsAreComplete
    BY DEF Inv
<1> QED BY Invariance, <1>1, PTL

\* When the cancellation of an unlock has returned, its generation is over.
THEOREM CancelEndsGeneration == Spec => []CancelledUnlockIsOver
<1>1. Inv => CancelledUnlockIsOver
    BY DEF Inv
<1> QED BY Invariance, <1>1, PTL

\* The idle clock runs only in an unlocked session.
THEOREM ClockNeedsUnlocked == Spec => []ClockOnlyWhileUnlocked
<1>1. Inv => ClockOnlyWhileUnlocked
    BY DEF Inv, Structure, PhaseOK
<1> QED BY Invariance, <1>1, PTL

\* A closed or failed session stays so: a cleanup still in the worker leaves Closed
\* alone, and neither a job nor an erase publishes its outcome after the end.
THEOREM EndIsFinal == Spec => TerminalIsFinal
<1>1. Inv /\ [Next]_vars => [Terminal(phase) => phase' = phase]_phase
    <2> SUFFICES ASSUME Inv, Next, Terminal(phase) PROVE phase' = phase
        BY DEF vars, authorityVars
    <2>w. phase \in {"Closed", "Failed"} /\ WorkerOK
        BY DEF Terminal, Inv, Structure
    <2>1. CASE Lock \/ Deactivate \/ Close \/ MonitorRevoke \/ RecordUserActivity
               \/ \E on \in Timeouts : SetAutoLockTimeout(on)
        BY <2>1, <2>w DEF Lock, Deactivate, Close, MonitorRevoke, RecordUserActivity,
           SetAutoLockTimeout, RevokeLocked, Terminal, authorityVars
    <2>2. CASE Activate \/ Elapse \/ MonitorWait \/ MonitorTimeout
        BY <2>2 DEF Activate, Elapse, MonitorWait, MonitorTimeout, authorityVars
    <2>3. CASE \E cmd \in Commands : lastRequest < MaxRequest /\ Admit(lastRequest + 1, cmd)
        BY <2>3 DEF Admit, authorityVars
    <2>4. CASE \E id \in Requests : \/ DropAdmitted(id) \/ Execute(id) \/ DropWaiting(id)
                                   \/ Cancel(id) \/ Caller(id)
        BY <2>4 DEF DropAdmitted, Execute, DropWaiting, Cancel, CancelFlag, Caller, ExecuteClosed,
           Leave, CancelRevoke, RevokeLocked, Respond, Terminal, authorityVars
    <2>5. CASE CleanupAuthority
        <3>1. phase = "Closed"
            BY <2>5, <2>w DEF CleanupAuthority, WorkerOK, Revoked
        <3> QED BY <2>5, <3>1 DEF CleanupAuthority, CleanedPhase
    <2>6. CASE FinishReset
        <3>1. generation # worker.resetGen
            BY <2>6, <2>w DEF FinishReset, WorkerOK
        <3> QED BY <2>6, <3>1 DEF FinishReset
    <2>7. CASE EraseStarts \/ FinishPublish \/ FinishCoreGone
        <3>1. ~Accepts(worker.job.gen)
            BY <2>w DEF Accepts
        <3>2. EraseStarts => phase' = phase
            BY <3>1 DEF EraseStarts, authorityVars
        <3>3. ~FinishPublish /\ ~FinishCoreGone
            BY <3>1 DEF FinishPublish, FinishCoreGone
        <3> QED BY <2>7, <3>2, <3>3
    <2>8. CASE StartJob \/ Handle \/ EraseRefused \/ EraseEnds
        BY <2>8 DEF StartJob, Handle, EraseRefused, EraseEnds, authorityVars
    <2>9. CASE \/ FinishRevoked \/ FinishConfigError \/ CleanupCore \/ RequestShutdown \/ WorkerExit
        BY <2>9 DEF FinishRevoked, FinishConfigError, CleanupCore, RequestShutdown, WorkerExit,
           authorityVars
    <2> QED BY <2>1, <2>2, <2>3, <2>4, <2>5, <2>6, <2>7, <2>8, <2>9 DEF Next, Monitor, Worker
<1> QED BY Invariance, <1>1, PTL DEF Spec, TerminalIsFinal
=============================================================================
