---------------------------- MODULE LocalSession ----------------------------
(***************************************************************************)
(* The session owner of the client runtime (client-runtime/src/session.rs, *)
(* auto_lock.rs) with its serial dispatcher (dispatch/worker.rs).          *)
(*                                                                         *)
(* Three kinds of threads share it.  API callers admit, execute, cancel    *)
(* and drop requests and revoke the session (lock, deactivate, close); the *)
(* dispatcher's worker runs one job at a time against the core; the idle   *)
(* monitor revokes the session when the user has been away too long.  One  *)
(* action is one critical section of the authority mutex, or one use of    *)
(* the core under the adapter mutex.                                       *)
(*                                                                         *)
(* Left out: peer and provider scopes, the resource handles a request may  *)
(* carry, panics of a phase, and the wrap-around of the 64-bit counters.   *)
(***************************************************************************)
EXTENDS Integers, Sequences, FiniteSets

CONSTANTS
    MaxRequest,     \* request identifiers 1..MaxRequest (the clients' budget)
    MaxGeneration,  \* lock() and deactivate() are called below this generation
    MaxPending,     \* MAX_PENDING
    Commands,       \* the commands the clients send
    Timeouts,       \* the auto-lock timeouts they set: on (TRUE), off (FALSE)
    CoreErrors      \* which core calls may fail: "lock", "config"

Requests == 1..MaxRequest
AllCommands == {"unlock", "setup", "command", "restore", "erase", "confirm",
                "rekey", "sync"}

ASSUME SessionAssumption ==
    /\ MaxRequest \in Nat /\ MaxGeneration \in Nat /\ MaxPending \in Nat
    /\ Commands \subseteq AllCommands /\ Timeouts \subseteq BOOLEAN
    /\ CoreErrors \subseteq {"lock", "config"}

VARIABLES
    generation, phase, cleanupPending, masterConfigured,  \* SessionSnapshot
    announced,      \* the snapshot of the newest event
    foreground,
    idle,           \* last_activity: "none", "fresh", or "expired" (past the timeout)
    timeoutOn,      \* a non-zero auto-lock timeout is set
    monitor,        \* the idle thread: "off", "check", "timed", "untimed", "exited"
    lastRequest,
    req,            \* each request: its control record, its future and its job
    cancelling,     \* unlock requests flagged, whose revocation is still to come
    privacy, user, low,   \* the dispatcher's queues
    shutdown,       \* shutdown_requested
    worker,         \* the worker thread and its current job
    unlocked, configured  \* the core: vault unlocked, master password present

authorityVars == <<generation, phase, cleanupPending, masterConfigured, announced, foreground>>
idleVars == <<idle, timeoutOn, monitor>>
requestVars == <<lastRequest, req, cancelling>>
dispatchVars == <<privacy, user, low, shutdown, worker>>
coreVars == <<unlocked, configured>>
vars == <<authorityVars, idleVars, requestVars, dispatchVars, coreVars>>

-----------------------------------------------------------------------------
(* Helpers.                                                                *)

Snapshot == [generation |-> generation, phase |-> phase,
             cleanup |-> cleanupPending, master |-> masterConfigured]

NoRequest == [cmd |-> "none", gen |-> 0, cancel |-> FALSE, stale |-> FALSE,
              failed |-> FALSE, fut |-> "none", job |-> "none", reply |-> "none"]

RequestJob(id) == [id |-> id, gen |-> req[id].gen, close |-> FALSE]
CleanupJob(gen, close) == [id |-> 0, gen |-> gen, close |-> close]

Idle == [step |-> "idle", job |-> CleanupJob(0, FALSE), reset |-> FALSE,
         resetGen |-> 0, ok |-> TRUE]

\* A request holds its slot while its future or its job is alive (PendingRequest).
Pending(id) == \/ req[id].fut \in {"admitted", "waiting", "leaving"}
               \/ req[id].job \in {"queued", "running"}

Expired == timeoutOn /\ idle = "expired"

Accepts(gen) == /\ generation = gen
                /\ ~Expired
                /\ foreground
                /\ phase \in {"Locked", "Unlocked"}

Terminal(p) == p \in {"Closed", "Failed"}

\* command_policy: the queue of a command.
Priority(cmd) == CASE cmd = "confirm" -> "privacy"
                   [] cmd = "sync"    -> "low"
                   [] OTHER           -> "user"

\* idle_changed.notify_all()
Notified == IF monitor \in {"timed", "untimed"} THEN "check" ELSE monitor

\* Mutant: a phase that ends the session does not wake the monitor.
EmitSilent == announced' = Snapshot' /\ monitor' = monitor

\* Every change of the snapshot is emitted; a terminal phase also wakes the monitor.
Emit == /\ announced' = Snapshot'
        /\ monitor' = IF Terminal(phase') THEN Notified ELSE monitor

\* AutoLock::clear_activity
ClearActivity == "none"

\* Mutant: the monitor is not woken when the idle clock starts.
StartClockSilently == idle' = "fresh" /\ monitor' = monitor

\* record_activity() and notify_all()
StartClock == idle' = "fresh" /\ monitor' = Notified

\* request.revoke() of every pending request.
Flagged == [id \in Requests |-> IF Pending(id) THEN [req[id] EXCEPT !.cancel = TRUE]
                                               ELSE req[id]]

\* cancel_low_priority(): the jobs in the low queue carry an older generation now.
LowStale(r) == [id \in Requests |->
    IF r[id].job = "queued" /\ Priority(r[id].cmd) = "low"
    THEN [r[id] EXCEPT !.stale = TRUE] ELSE r[id]]

-----------------------------------------------------------------------------
Init ==
    /\ generation = 1 /\ phase = "Locked" /\ cleanupPending = FALSE
    /\ configured \in BOOLEAN /\ masterConfigured = configured
    /\ announced = Snapshot
    /\ foreground = TRUE
    /\ idle = "none" /\ timeoutOn = FALSE /\ monitor = "off"
    /\ lastRequest = 0 /\ req = [id \in Requests |-> NoRequest] /\ cancelling = {}
    /\ privacy = <<>> /\ user = <<>> /\ low = <<>> /\ shutdown = FALSE
    /\ worker = Idle
    /\ unlocked = FALSE

-----------------------------------------------------------------------------
(* Revocation.                                                             *)

\* Mutant: the cleanup is bound to the generation that was revoked.
RevocationJobOld(close) == CleanupJob(generation, close)

\* The cleanup job of the revocation under way, bound to the new generation.
RevocationJob(close) == CleanupJob(generation + 1, close)

\* revoke_locked: the whole revocation under the authority lock.  A second call
\* while one is under way only takes the session out of the foreground; a
\* terminal session is left alone.
RevokeLocked(remain, close) ==
    \/ /\ phase \in {"Deactivating", "Inactive"} /\ ~close
       /\ foreground' = (foreground /\ remain)
       /\ UNCHANGED <<generation, phase, cleanupPending, masterConfigured, announced,
                      idle, monitor, req, privacy>>
    \/ /\ phase \in {"Locked", "Unlocked"} \/ (close /\ ~Terminal(phase))
       /\ foreground' = (remain /\ foreground)
       /\ idle' = ClearActivity
       /\ generation' = generation + 1
       /\ cleanupPending' = TRUE
       /\ UNCHANGED masterConfigured
       /\ phase' = IF shutdown THEN "Failed" ELSE IF close THEN "Closed" ELSE "Deactivating"
       /\ announced' = Snapshot'
       /\ monitor' = Notified
       /\ req' = LowStale(Flagged)
       /\ privacy' = IF shutdown THEN privacy
                     ELSE Append(privacy, RevocationJob(close))

RevokeUnchanged == <<timeoutOn, lastRequest, user, low, shutdown, worker, unlocked, configured>>

Lock == /\ generation < MaxGeneration
        /\ RevokeLocked(TRUE, FALSE)
        /\ UNCHANGED cancelling /\ UNCHANGED RevokeUnchanged

Deactivate == /\ generation < MaxGeneration
              /\ RevokeLocked(FALSE, FALSE)
              /\ UNCHANGED cancelling /\ UNCHANGED RevokeUnchanged

Close == /\ RevokeLocked(FALSE, TRUE)
         /\ UNCHANGED cancelling /\ UNCHANGED RevokeUnchanged

\* Mutant: the return to the foreground is not announced.
ActivateSilent ==
    /\ ~Terminal(phase)
    /\ foreground' = TRUE
    /\ phase' = IF phase = "Inactive" THEN "Locked" ELSE phase
    /\ UNCHANGED <<generation, cleanupPending, masterConfigured, announced>>
    /\ UNCHANGED <<idleVars, requestVars, dispatchVars, coreVars>>

Activate ==
    /\ ~Terminal(phase)
    /\ foreground' = TRUE
    /\ phase' = IF phase = "Inactive" THEN "Locked" ELSE phase
    /\ UNCHANGED <<generation, cleanupPending, masterConfigured>>
    /\ announced' = Snapshot'
    /\ UNCHANGED <<idleVars, requestVars, dispatchVars, coreVars>>

-----------------------------------------------------------------------------
(* Inactivity.                                                             *)

\* Time passes without user input.
Elapse == /\ timeoutOn /\ idle = "fresh"
          /\ idle' = "expired"
          /\ UNCHANGED <<authorityVars, timeoutOn, monitor, requestVars, dispatchVars, coreVars>>

\* set_auto_lock_timeout: the first non-zero timeout spawns the monitor.
SetAutoLockTimeout(on) ==
    \/ /\ Accepts(generation)
       /\ timeoutOn' = on
       /\ idle' = IF phase = "Unlocked" THEN "fresh" ELSE idle
       /\ monitor' = IF on /\ monitor = "off" THEN "check" ELSE Notified
       /\ UNCHANGED <<authorityVars, requestVars, dispatchVars, coreVars>>
    \/ /\ Expired
       /\ RevokeLocked(TRUE, FALSE)
       /\ UNCHANGED cancelling /\ UNCHANGED RevokeUnchanged

RecordUserActivity ==
    \/ /\ Accepts(generation) /\ phase = "Unlocked"
       /\ StartClock
       /\ UNCHANGED <<authorityVars, timeoutOn, requestVars, dispatchVars, coreVars>>
    \/ /\ Expired
       /\ RevokeLocked(TRUE, FALSE)
       /\ UNCHANGED cancelling /\ UNCHANGED RevokeUnchanged

\* One round of the monitor's loop, up to the revocation or to the wait.
MonitorRevoke == /\ monitor = "check" /\ ~Terminal(phase) /\ Expired
                 /\ RevokeLocked(TRUE, FALSE)
                 /\ UNCHANGED cancelling /\ UNCHANGED RevokeUnchanged

MonitorWait ==
    /\ monitor = "check"
    /\ ~Expired \/ Terminal(phase)
    /\ monitor' = IF Terminal(phase) THEN "exited"
                  ELSE IF timeoutOn /\ idle # "none" THEN "timed" ELSE "untimed"
    /\ UNCHANGED <<authorityVars, idle, timeoutOn, requestVars, dispatchVars, coreVars>>

\* wait_timeout returns once the deadline it waits for has passed, whether or not
\* the activity was cleared meanwhile.
MonitorTimeout ==
    /\ monitor = "timed" /\ idle # "fresh"
    /\ monitor' = "check"
    /\ UNCHANGED <<authorityVars, idle, timeoutOn, requestVars, dispatchVars, coreVars>>

-----------------------------------------------------------------------------
(* Requests, on the callers' side.                                         *)

Admit(id, cmd) ==
    /\ Accepts(generation)
    /\ id > lastRequest
    /\ Cardinality({r \in Requests : Pending(r)}) < MaxPending
    /\ lastRequest' = id
    /\ req' = [req EXCEPT ![id] = [NoRequest EXCEPT !.cmd = cmd, !.gen = generation,
                                                    !.fut = "admitted"]]
    /\ UNCHANGED <<authorityVars, idleVars, cancelling, dispatchVars, coreVars>>

\* The admitted request is dropped before its future is polled.
DropAdmitted(id) ==
    /\ req[id].fut = "admitted"
    /\ req' = [req EXCEPT ![id].fut = "done"]
    /\ UNCHANGED <<authorityVars, idleVars, lastRequest, cancelling, dispatchVars, coreVars>>

\* The first poll of execute_admitted_phase: the job enters its queue.
Execute(id) ==
    /\ req[id].fut = "admitted" /\ ~shutdown
    /\ LET queued == [req EXCEPT ![id].fut = "waiting", ![id].job = "queued"]
       IN  req' = IF req[id].cmd = "rekey" THEN LowStale(queued) ELSE queued
    /\ privacy' = IF Priority(req[id].cmd) = "privacy" THEN Append(privacy, RequestJob(id)) ELSE privacy
    /\ user' = IF Priority(req[id].cmd) = "user" THEN Append(user, RequestJob(id)) ELSE user
    /\ low' = IF Priority(req[id].cmd) = "low" THEN Append(low, RequestJob(id)) ELSE low
    /\ UNCHANGED <<authorityVars, idleVars, lastRequest, cancelling, shutdown, worker, coreVars>>

\* The dispatcher has been shut down: enqueue refuses the job.
ExecuteClosed(id) ==
    /\ req[id].fut = "admitted" /\ shutdown
    /\ req' = [req EXCEPT ![id].fut = "leaving"]
    /\ UNCHANGED <<authorityVars, idleVars, lastRequest, cancelling, dispatchVars, coreVars>>

\* The caller drops the future it waits on.
DropWaiting(id) ==
    /\ req[id].fut = "waiting"
    /\ req' = [req EXCEPT ![id].fut = "leaving", ![id].reply = "none"]
    /\ UNCHANGED <<authorityVars, idleVars, lastRequest, cancelling, dispatchVars, coreVars>>

\* cancel_request, first half: flag the request under the authority lock.
CancelFlag(id, fut) ==
    /\ req' = [req EXCEPT ![id].cancel = TRUE, ![id].fut = fut]
    /\ cancelling' = IF req[id].cmd = "unlock" THEN cancelling \cup {id} ELSE cancelling
    /\ UNCHANGED <<authorityVars, idleVars, lastRequest, dispatchVars, coreVars>>

Cancel(id) == Pending(id) /\ ~req[id].cancel /\ CancelFlag(id, req[id].fut)

\* CancelOnDrop of a future that ends without a completed reply.
Leave(id) == req[id].fut = "leaving" /\ CancelFlag(id, "done")

\* Mutant: the cancellation of an unlock stops at the flag.
CancelRevokeNothing(id) ==
    /\ id \in cancelling
    /\ cancelling' = cancelling \ {id}
    /\ UNCHANGED <<authorityVars, idleVars, req>> /\ UNCHANGED RevokeUnchanged
    /\ UNCHANGED privacy

\* cancel_request, second half: cancelling an unlock revokes the generation it
\* was admitted in, if that is still the current one.
CancelRevoke(id) ==
    /\ id \in cancelling
    /\ cancelling' = cancelling \ {id}
    /\ \/ /\ generation = req[id].gen /\ ~Terminal(phase)
          /\ RevokeLocked(TRUE, FALSE)
       \/ /\ generation # req[id].gen \/ Terminal(phase)
          /\ UNCHANGED <<authorityVars, idle, monitor, req, privacy>>
    /\ UNCHANGED RevokeUnchanged

\* The future resumes with the job's reply.  It hands it out only if the session,
\* as it is now, still accepts the request; otherwise it ends with an error and
\* cancels itself on the way out.
Respond(id) ==
    /\ req[id].fut = "waiting" /\ req[id].reply # "none"
    /\ LET delivered == req[id].reply # "closed" /\ Accepts(req[id].gen) /\ ~req[id].cancel
       IN  req' = [req EXCEPT ![id].fut = IF delivered THEN "done" ELSE "leaving",
                              ![id].reply = "none"]
    /\ UNCHANGED <<authorityVars, idleVars, lastRequest, cancelling, dispatchVars, coreVars>>

-----------------------------------------------------------------------------
(* The dispatcher's worker.                                                *)

\* pop_next_job: the highest non-empty queue, first in first out.
NextJob == IF privacy # <<>> THEN Head(privacy) ELSE IF user # <<>> THEN Head(user) ELSE Head(low)
HasJob == privacy # <<>> \/ user # <<>> \/ low # <<>>

Pop == /\ worker.step = "idle" /\ HasJob
       /\ privacy' = IF privacy # <<>> THEN Tail(privacy) ELSE privacy
       /\ user' = IF privacy = <<>> /\ user # <<>> THEN Tail(user) ELSE user
       /\ low' = IF privacy = <<>> /\ user = <<>> THEN Tail(low) ELSE low

\* The job ends with reply r, which a future that still waits receives.
JobEnds(id, r) == [req EXCEPT ![id].job = "done", ![id].stale = FALSE,
                              ![id].reply = IF req[id].fut = "waiting" THEN r ELSE "none"]

\* Mutant: the worker does not repeat the admission check.
StartJobUnchecked ==
    /\ Pop /\ NextJob.id # 0
    /\ worker' = [Idle EXCEPT !.step = "checked", !.job = NextJob]
    /\ req' = [req EXCEPT ![NextJob.id].job = "running"]
    /\ UNCHANGED <<authorityVars, idleVars, lastRequest, cancelling, shutdown, coreVars>>

\* A request job starts: low-priority work that was cancelled is refused by the
\* worker; then the admission is checked again under the authority lock.
StartJob ==
    /\ Pop /\ NextJob.id # 0
    /\ LET id == NextJob.id
           refused == CASE req[id].stale -> "closed"
                        [] ~Accepts(req[id].gen) -> "revoked"
                        [] req[id].cancel -> "canceled"
                        [] req[id].cmd = "unlock" /\ phase = "Unlocked" -> "busy"
                        [] OTHER -> "none"
       IN  /\ worker' = IF refused = "none" THEN [Idle EXCEPT !.step = "checked", !.job = NextJob]
                                            ELSE Idle
           /\ req' = IF refused = "none" THEN [req EXCEPT ![id].job = "running"]
                                         ELSE JobEnds(id, refused)
    /\ UNCHANGED <<authorityVars, idleVars, lastRequest, cancelling, shutdown, coreVars>>

Running(cmds) == worker.step = "checked" /\ req[worker.job.id].cmd \in cmds

\* The core handles a command under the adapter lock.  An unlock may be refused
\* (the catalog does not open, or the core is unlocked already); it does not ask
\* whether a master password is configured.  A restore locks the vault; setup creates the master
\* password.  (The subscription that follows an unlock fails only in a locked
\* core, so its error path is never taken.)
Handle ==
    /\ Running(Commands \ {"erase"})
    /\ LET cmd == req[worker.job.id].cmd IN
       /\ unlocked' \in CASE cmd = "unlock" -> {unlocked, TRUE}
                          [] cmd = "restore" -> {FALSE}
                          [] OTHER -> {unlocked}
       /\ configured' = (configured \/ cmd = "setup")
    /\ worker' = [worker EXCEPT !.step = "handled"]
    /\ UNCHANGED <<authorityVars, idleVars, requestVars, privacy, user, low, shutdown>>

\* erase:execute refused before the destructive boundary: cancelled, or a wrong
\* or expired confirmation.
EraseRefused ==
    /\ Running({"erase"})
    /\ worker' = [worker EXCEPT !.step = "handled"]
    /\ UNCHANGED <<authorityVars, idleVars, requestVars, privacy, user, low, shutdown, coreVars>>

\* on_storage_reset: the erase reaches its destructive boundary and revokes the
\* session, if the session still accepts it.
EraseStarts ==
    /\ Running({"erase"}) /\ ~req[worker.job.id].cancel
    /\ IF Accepts(worker.job.gen)
       THEN /\ idle' = ClearActivity
            /\ req' = Flagged
            /\ generation' = generation + 1
            /\ phase' = "Deactivating"
            /\ cleanupPending' = TRUE
            /\ UNCHANGED masterConfigured
            /\ Emit
       ELSE UNCHANGED <<idle, req, generation, phase, cleanupPending, masterConfigured,
                        announced, monitor>>
    /\ worker' = [worker EXCEPT !.step = "erasing", !.reset = TRUE,
                                !.resetGen = IF Accepts(worker.job.gen) THEN generation' ELSE 0]
    /\ UNCHANGED <<foreground, timeoutOn, lastRequest, cancelling, privacy, user, low, shutdown,
                   coreVars>>

\* The erase runs to its end; the administrative files may remain.
EraseEnds ==
    /\ worker.step = "erasing"
    /\ unlocked' = FALSE
    /\ configured' \in {FALSE, configured}
    /\ worker' = [worker EXCEPT !.step = "handled"]
    /\ UNCHANGED <<authorityVars, idleVars, requestVars, privacy, user, low, shutdown>>

-----------------------------------------------------------------------------
(* The end of a request job, under the authority lock.                     *)

FinishReply(r) == /\ req' = JobEnds(worker.job.id, r)
                  /\ worker' = Idle
FinishUnchanged == <<foreground, timeoutOn, lastRequest, cancelling, privacy, user, low,
                     shutdown, coreVars>>

\* The erase revoked the session itself: it also completes the revocation,
\* unless a later one (close) has taken over.
FinishReset ==
    /\ worker.step = "handled" /\ worker.resetGen # 0
    /\ FinishReply("revoked")
    /\ IF generation = worker.resetGen
       THEN \E ok \in IF "config" \in CoreErrors THEN BOOLEAN ELSE {TRUE} :
            /\ cleanupPending' = FALSE
            /\ phase' = IF ~ok \/ phase = "Failed" THEN "Failed"
                        ELSE IF foreground THEN "Locked" ELSE "Inactive"
            /\ masterConfigured' = IF ok THEN configured ELSE masterConfigured
            /\ UNCHANGED generation
            /\ Emit
       ELSE UNCHANGED <<generation, phase, cleanupPending, masterConfigured, announced, monitor>>
    /\ UNCHANGED idle /\ UNCHANGED FinishUnchanged

\* The session was revoked while the job ran: its outcome is not published.
FinishRevoked ==
    /\ worker.step = "handled" /\ worker.resetGen = 0 /\ ~Accepts(worker.job.gen)
    /\ FinishReply("revoked")
    /\ UNCHANGED <<generation, phase, cleanupPending, masterConfigured, announced, idleVars>>
    /\ UNCHANGED FinishUnchanged

\* master_is_configured fails: the job ends before the phase is brought up to date.
FinishConfigError ==
    /\ worker.step = "handled" /\ worker.resetGen = 0 /\ Accepts(worker.job.gen)
    /\ "config" \in CoreErrors
    /\ req' = [JobEnds(worker.job.id, "unavailable") EXCEPT ![worker.job.id].failed = TRUE]
    /\ worker' = Idle
    /\ UNCHANGED <<generation, phase, cleanupPending, masterConfigured, announced, idleVars>>
    /\ UNCHANGED FinishUnchanged

\* The core locked itself, or lost its master password.
CoreGone == \/ phase = "Unlocked" /\ ~unlocked
            \/ worker.reset
            \/ masterConfigured /\ ~configured

FinishCoreGone ==
    /\ worker.step = "handled" /\ worker.resetGen = 0 /\ Accepts(worker.job.gen) /\ CoreGone
    /\ LET ended == JobEnds(worker.job.id, "revoked")
       IN  req' = [id \in Requests |-> [ended[id] EXCEPT !.cancel = @ \/ Pending(id)]]
    /\ worker' = Idle
    /\ idle' = ClearActivity
    /\ generation' = generation + 1
    /\ phase' = "Locked"
    /\ masterConfigured' = configured
    /\ UNCHANGED cleanupPending
    /\ Emit
    /\ UNCHANGED FinishUnchanged

CorePhase == IF unlocked THEN "Unlocked" ELSE "Locked"

\* The outcome is published: a completed unlock opens the session and starts
\* the idle clock.
FinishPublish ==
    /\ worker.step = "handled" /\ worker.resetGen = 0 /\ Accepts(worker.job.gen) /\ ~CoreGone
    /\ FinishReply(IF req[worker.job.id].cancel THEN "canceled" ELSE "ok")
    /\ phase' = CorePhase /\ masterConfigured' = configured
    /\ IF CorePhase = "Unlocked" /\ phase # "Unlocked"
       THEN StartClock
       ELSE UNCHANGED <<idle, monitor>>
    /\ UNCHANGED <<generation, cleanupPending>>
    /\ announced' = Snapshot'
    /\ UNCHANGED FinishUnchanged

-----------------------------------------------------------------------------
(* The cleanup job of a revocation.                                        *)

\* Under the adapter lock: resources released, vault:lock, master state read.
CleanupCore ==
    /\ Pop /\ NextJob.id = 0
    /\ \E ok \in IF CoreErrors = {} THEN {TRUE} ELSE BOOLEAN :
         /\ worker' = [Idle EXCEPT !.step = "cleaned", !.job = NextJob, !.ok = ok]
         /\ unlocked' \in IF ok THEN {FALSE}
                          ELSE IF "lock" \in CoreErrors THEN {FALSE, unlocked} ELSE {FALSE}
    /\ UNCHANGED <<authorityVars, idleVars, requestVars, shutdown, configured>>

\* Mutant: the phase is set whatever it was.
CleanedPhaseAlways == IF ~worker.ok THEN "Failed" ELSE IF foreground THEN "Locked" ELSE "Inactive"

\* The phase a completed cleanup leaves.
CleanedPhase == IF phase = "Closed" THEN "Closed"
                ELSE IF ~worker.ok THEN "Failed"
                ELSE IF foreground THEN "Locked" ELSE "Inactive"

\* Mutant: the cleanup does not look at the master state again.
CleanedMasterKept == masterConfigured

CleanedMaster == IF worker.ok THEN configured ELSE masterConfigured

\* Under the authority lock: only the cleanup of the current generation
\* completes the revocation.
CleanupAuthority ==
    /\ worker.step = "cleaned"
    /\ IF generation = worker.job.gen
       THEN /\ cleanupPending' = FALSE
            /\ masterConfigured' = CleanedMaster
            /\ phase' = CleanedPhase
            /\ UNCHANGED generation
            /\ Emit
       ELSE UNCHANGED <<generation, phase, cleanupPending, masterConfigured, announced, monitor>>
    /\ worker' = IF worker.job.close THEN [worker EXCEPT !.step = "closing"] ELSE Idle
    /\ UNCHANGED <<foreground, idle, timeoutOn, requestVars, privacy, user, low, shutdown, coreVars>>

\* Mutant: the jobs in the queues are dropped without an answer.
RequestShutdownSilent ==
    /\ worker.step = "closing"
    /\ shutdown' = TRUE
    /\ privacy' = <<>> /\ user' = <<>> /\ low' = <<>>
    /\ req' = [id \in Requests |-> IF req[id].job = "queued" THEN [req[id] EXCEPT !.job = "done"]
                                                             ELSE req[id]]
    /\ worker' = Idle
    /\ UNCHANGED <<authorityVars, idleVars, lastRequest, cancelling, coreVars>>

\* request_shutdown: no more jobs; the queued ones are answered with an error.
RequestShutdown ==
    /\ worker.step = "closing"
    /\ shutdown' = TRUE
    /\ privacy' = <<>> /\ user' = <<>> /\ low' = <<>>
    /\ req' = [id \in Requests |-> IF req[id].job = "queued" THEN JobEnds(id, "closed")[id]
                                                             ELSE req[id]]
    /\ worker' = Idle
    /\ UNCHANGED <<authorityVars, idleVars, lastRequest, cancelling, coreVars>>

WorkerExit ==
    /\ worker.step = "idle" /\ ~HasJob /\ shutdown
    /\ worker' = [Idle EXCEPT !.step = "exited"]
    /\ UNCHANGED <<authorityVars, idleVars, requestVars, privacy, user, low, shutdown, coreVars>>

-----------------------------------------------------------------------------
(* Specification.                                                          *)

Worker == \/ StartJob \/ Handle \/ EraseRefused \/ EraseStarts \/ EraseEnds
          \/ FinishReset \/ FinishRevoked \/ FinishCoreGone \/ FinishConfigError \/ FinishPublish
          \/ CleanupCore \/ CleanupAuthority \/ RequestShutdown \/ WorkerExit

Monitor == MonitorRevoke \/ MonitorWait \/ MonitorTimeout

\* What a caller's thread goes on with once it is in the code.
Caller(id) == ExecuteClosed(id) \/ Leave(id) \/ CancelRevoke(id) \/ Respond(id)

Next ==
    \/ Lock \/ Deactivate \/ Close \/ Activate
    \/ Elapse \/ RecordUserActivity
    \/ \E on \in Timeouts : SetAutoLockTimeout(on)
    \/ \E cmd \in Commands : lastRequest < MaxRequest /\ Admit(lastRequest + 1, cmd)
    \/ \E id \in Requests : \/ DropAdmitted(id) \/ Execute(id) \/ DropWaiting(id) \/ Cancel(id)
                            \/ Caller(id)
    \/ Monitor
    \/ Worker

Fairness == WF_vars(Worker) /\ WF_vars(Monitor) /\ \A id \in Requests : WF_vars(Caller(id))

Spec == Init /\ [][Next]_vars /\ Fairness

-----------------------------------------------------------------------------
(* Properties.                                                             *)

Jobs == [id : 0..MaxRequest, gen : Nat, close : BOOLEAN]
Phases == {"Locked", "Unlocked", "Deactivating", "Inactive", "Closed", "Failed"}
RequestStates == [cmd : AllCommands \cup {"none"}, gen : Nat,
                  cancel : BOOLEAN, stale : BOOLEAN, failed : BOOLEAN,
                  fut : {"none", "admitted", "waiting", "leaving", "done"},
                  job : {"none", "queued", "running", "done"},
                  reply : {"none", "ok", "revoked", "canceled", "busy", "unavailable", "closed"}]
WorkerStates == [step : {"idle", "checked", "erasing", "handled", "cleaned", "closing", "exited"},
                 job : Jobs, reset : BOOLEAN, resetGen : Nat, ok : BOOLEAN]

\* The values of the session's fields, the dispatcher's queues and the core.
TypeOK ==
    /\ generation \in Nat /\ phase \in Phases
    /\ cleanupPending \in BOOLEAN /\ masterConfigured \in BOOLEAN /\ foreground \in BOOLEAN
    /\ announced \in [generation : Nat, phase : Phases, cleanup : BOOLEAN, master : BOOLEAN]
    /\ idle \in {"none", "fresh", "expired"} /\ timeoutOn \in BOOLEAN
    /\ monitor \in {"off", "check", "timed", "untimed", "exited"}
    /\ lastRequest \in 0..MaxRequest /\ cancelling \subseteq Requests
    /\ req \in [Requests -> RequestStates]
    /\ privacy \in Seq(Jobs) /\ user \in Seq(Jobs) /\ low \in Seq(Jobs)
    /\ shutdown \in BOOLEAN /\ unlocked \in BOOLEAN /\ configured \in BOOLEAN
    /\ worker \in WorkerStates

\* The job of a request in this generation could not read the master state.
ConfigErrorIn(cmds) == \E id \in Requests :
    /\ req[id].cmd \in cmds /\ req[id].gen = generation
    /\ req[id].job = "done" /\ req[id].failed

\* A session that reports itself locked or inactive has a locked vault behind
\* it.  An unlock that ends after its session was revoked stays hidden behind
\* the phase Deactivating until a cleanup has locked the vault again.  Two
\* exceptions: the instant between an unlock in the core and its publication by
\* the same job, and an unlock whose job ended early because the master state
\* could not be read.
LockedMeansLocked ==
    unlocked /\ phase \in {"Locked", "Inactive"} =>
        /\ phase = "Locked"
        /\ \/ /\ worker.step = "handled" /\ worker.job.gen = generation
              /\ req[worker.job.id].cmd = "unlock"
           \/ ConfigErrorIn({"unlock"})

\* Between two jobs, a session that takes requests reports what the core really
\* is: unlocked or not, with or without a master password.  Commands that ran
\* to their end after a revocation suppressed their reply are included; jobs
\* that ended early because the master state could not be read are not.
SnapshotIsTrue ==
    /\ worker.step = "idle" /\ ~Expired /\ phase \in {"Locked", "Unlocked", "Inactive"}
    /\ ~ConfigErrorIn(AllCommands)
    => /\ masterConfigured = configured
       /\ (phase = "Unlocked") = unlocked

\* A caller holding the newest event holds the current snapshot: no path
\* changes the session without an event.
EventsAreComplete == announced = Snapshot

\* The idle clock runs only in an unlocked session, so that the monitor never
\* finds an expired clock it cannot act on.
ClockOnlyWhileUnlocked == idle # "none" => phase = "Unlocked"

\* Once the cancellation of an unlock has returned, the generation it was
\* admitted in is over (or the session has ended): the unlock cannot take
\* effect any more.
CancelledUnlockIsOver ==
    \A id \in Requests :
        req[id].cmd = "unlock" /\ req[id].cancel /\ id \notin cancelling =>
            generation > req[id].gen \/ Terminal(phase)

\* A closed or failed session never comes back, whatever cleanup or erase is
\* still running.
TerminalIsFinal == [][Terminal(phase) => phase' = phase]_phase

\* Every revocation is completed: the vault is locked, or the session failed.
RevocationCompletes == cleanupPending ~> ~cleanupPending

\* A session left alone beyond its timeout does not stay open.
IdleSessionIsRevoked == Expired ~> phase # "Unlocked"

\* Every executed request is answered, also across close().
EveryCallReturns == \A id \in Requests : req[id].fut = "waiting" ~> req[id].fut = "done"

\* The idle monitor of a session that has ended ends too: its thread, which keeps
\* the session's state alive, is not left waiting on the condition variable,
\* whether the session was closed or a cleanup failed while it waited.
MonitorIsReleased == Terminal(phase) /\ monitor # "off" ~> monitor = "exited"

=============================================================================
