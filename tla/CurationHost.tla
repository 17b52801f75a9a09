---------------------------- MODULE CurationHost ----------------------------
(***************************************************************************)
(* The processes of the native curation service: each API process          *)
(* (gateway/curation/server.ts) first takes the data directory             *)
(* (StoreLock), then serves and supervises one worker process              *)
(* (gateway/curation/supervisor.ts), which it starts again a bounded       *)
(* number of times when it exits.  On a signal the API stops its worker,   *)
(* closes its listener, waits for the connections its clients have open,   *)
(* then gives the directory back.  An API that dies without one leaves     *)
(* its worker behind until that reads the end of its parent pipe.          *)
(***************************************************************************)
EXTENDS StoreLock

CONSTANT MaxRestarts       \* 3 in the code

ASSUME RestartsAssumption == MaxRestarts \in Nat

VARIABLES
  worker,        \* the worker process of each API, "none" when there is none
  state,         \* WorkerSupervisor.status
  failures,      \* exits since the supervisor last counted from zero
  timer,         \* a restart is scheduled
  stopping,      \* stop() was called
  launches,      \* workers started since the last long run or operator restart
  clients        \* some client has a connection to the API open

supervisorVars == <<worker, state, failures, timer, stopping, launches>>
vars == <<lockVars, supervisorVars, clients>>

HostTypeOK ==
  /\ LockTypeOK
  /\ worker \in [Apis -> {"none", "starting", "up", "killed"}]
  /\ state \in [Apis -> {"starting", "running", "restarting", "failed", "stopped"}]
  /\ failures \in [Apis -> 0..MaxRestarts]
  /\ timer \in [Apis -> BOOLEAN]
  /\ stopping \in [Apis -> BOOLEAN]
  /\ launches \in [Apis -> Nat]
  /\ clients \in [Apis -> BOOLEAN]

HostInit ==
  /\ LockInit
  /\ worker = [p \in Apis |-> "none"]
  /\ state = [p \in Apis |-> "starting"]
  /\ failures = [p \in Apis |-> 0]
  /\ timer = [p \in Apis |-> FALSE]
  /\ stopping = [p \in Apis |-> FALSE]
  /\ launches = [p \in Apis |-> 0]
  /\ clients = [p \in Apis |-> FALSE]

\* The supervisor's callbacks run as long as its process does.
Supervising(p) == phase[p] \in {"serving", "stopping"}

-----------------------------------------------------------------------------
(* The supervisor.                                                         *)

\* start(), when launches were counted so far: nothing happens after stop() or
\* while there is a child.
StartWorker(p, counted) ==
  IF stopping[p] \/ worker[p] # "none"
  THEN UNCHANGED <<worker, state>> /\ launches' = [launches EXCEPT ![p] = counted]
  ELSE /\ worker' = [worker EXCEPT ![p] = "starting"]
       /\ state' = [state EXCEPT ![p] = "starting"]
       /\ launches' = [launches EXCEPT ![p] = counted + 1]

\* The server listens and starts its worker.
Serve(p) ==
  /\ phase[p] = "owner"
  /\ Goto(p, "serving")
  /\ StartWorker(p, 0)
  /\ UNCHANGED <<lock, written, seen, failures, timer, stopping, clients>>

\* The child's spawn event, which a child that was killed meanwhile has too.
Spawned(p) ==
  /\ Supervising(p) /\ worker[p] \in {"starting", "killed"}
  /\ worker' = [worker EXCEPT ![p] = IF @ = "starting" THEN "up" ELSE @]
  /\ state' = [state EXCEPT ![p] = "running"]
  /\ UNCHANGED <<lockVars, failures, timer, stopping, launches, clients>>

\* Mutant of Reschedule: one restart too many.
RescheduleOneMore(p, count) ==
  IF count > MaxRestarts
  THEN /\ state' = [state EXCEPT ![p] = "failed"]
       /\ failures' = [failures EXCEPT ![p] = count]
       /\ UNCHANGED timer
  ELSE /\ state' = [state EXCEPT ![p] = "restarting"]
       /\ failures' = [failures EXCEPT ![p] = count + 1]
       /\ timer' = [timer EXCEPT ![p] = TRUE]

\* Mutant of Reschedule: the restart is not scheduled.
RescheduleNever(p, count) ==
  IF count >= MaxRestarts
  THEN /\ state' = [state EXCEPT ![p] = "failed"]
       /\ failures' = [failures EXCEPT ![p] = count]
       /\ UNCHANGED timer
  ELSE /\ state' = [state EXCEPT ![p] = "restarting"]
       /\ failures' = [failures EXCEPT ![p] = count + 1]
       /\ UNCHANGED timer

\* After an exit with so many failures before it.
Reschedule(p, count) ==
  IF count >= MaxRestarts
  THEN /\ state' = [state EXCEPT ![p] = "failed"]
       /\ failures' = [failures EXCEPT ![p] = count]
       /\ UNCHANGED timer
  ELSE /\ state' = [state EXCEPT ![p] = "restarting"]
       /\ failures' = [failures EXCEPT ![p] = count + 1]
       /\ timer' = [timer EXCEPT ![p] = TRUE]

\* The child's close event: it exited, was killed or could not be started.
\* After a run of more than a minute failures are counted from zero.
WorkerCloses(p) ==
  /\ Supervising(p) /\ worker[p] # "none"
  /\ worker' = [worker EXCEPT ![p] = "none"]
  /\ \/ /\ stopping[p]
        /\ state' = [state EXCEPT ![p] = "stopped"]
        /\ UNCHANGED <<failures, timer, launches>>
     \/ ~stopping[p] /\ Reschedule(p, failures[p]) /\ UNCHANGED launches
     \/ /\ ~stopping[p] /\ worker[p] = "up"
        /\ Reschedule(p, 0)
        /\ launches' = [launches EXCEPT ![p] = 0]
  /\ UNCHANGED <<lockVars, stopping, clients>>

TimerFires(p) ==
  /\ Supervising(p) /\ timer[p]
  /\ timer' = [timer EXCEPT ![p] = FALSE]
  /\ StartWorker(p, launches[p])
  /\ UNCHANGED <<lockVars, failures, stopping, clients>>

\* POST /worker/restart; the API still answers while it is stopping.
Restart(p) ==
  /\ Supervising(p) /\ state[p] = "failed"
  /\ failures' = [failures EXCEPT ![p] = 0]
  /\ StartWorker(p, 0)
  /\ UNCHANGED <<lockVars, timer, stopping, clients>>

-----------------------------------------------------------------------------
(* Shutdown and death of the API.                                          *)

\* Mutant of Signal: the worker is asked to stop but not killed.
SignalPolitely(p) ==
  /\ phase[p] = "serving"
  /\ Goto(p, "stopping")
  /\ stopping' = [stopping EXCEPT ![p] = TRUE]
  /\ timer' = [timer EXCEPT ![p] = FALSE]
  /\ UNCHANGED <<lock, written, seen, worker, state, failures, launches, clients>>

\* SIGINT or SIGTERM: stop() cancels a scheduled restart and kills the child.
Signal(p) ==
  /\ phase[p] = "serving"
  /\ Goto(p, "stopping")
  /\ stopping' = [stopping EXCEPT ![p] = TRUE]
  /\ timer' = [timer EXCEPT ![p] = FALSE]
  /\ worker' = [worker EXCEPT ![p] = IF @ = "none" THEN "none" ELSE "killed"]
  /\ state' = [state EXCEPT ![p] = IF worker[p] = "none" THEN "stopped" ELSE @]
  /\ UNCHANGED <<lock, written, seen, failures, launches, clients>>

\* Mutant of Stopped: the listener is closed without waiting for the child.
StoppedEarly(p) ==
  /\ phase[p] = "stopping"
  /\ Goto(p, "draining")
  /\ state' = [state EXCEPT ![p] = "stopped"]
  /\ UNCHANGED <<lock, written, seen, worker, failures, timer, stopping, launches, clients>>

\* stop() resolves when the child has closed; then server.close() is called.
Stopped(p) ==
  /\ phase[p] = "stopping" /\ worker[p] = "none"
  /\ Goto(p, "draining")
  /\ state' = [state EXCEPT ![p] = "stopped"]
  /\ UNCHANGED <<lock, written, seen, worker, failures, timer, stopping, launches, clients>>

\* The callback of server.close() comes when no connection is open any more,
\* and closes the store.  Signals that come before are ignored.
Drained(p) ==
  /\ phase[p] = "draining" /\ ~clients[p]
  /\ Goto(p, "closing")
  /\ UNCHANGED <<lock, written, seen, supervisorVars, clients>>

\* A browser or a worker connects while the API listens, and its last
\* connection is closed; a request or a download may keep one open for ever.
ClientConnects(p) ==
  /\ Supervising(p) /\ ~clients[p]
  /\ clients' = [clients EXCEPT ![p] = TRUE]
  /\ UNCHANGED <<lockVars, supervisorVars>>

ClientLeaves(p) ==
  /\ clients[p]
  /\ clients' = [clients EXCEPT ![p] = FALSE]
  /\ UNCHANGED <<lockVars, supervisorVars>>

\* The operating system closes the connections of a process that dies.
Crash(p) ==
  /\ Die(p)
  /\ clients' = [clients EXCEPT ![p] = FALSE]
  /\ UNCHANGED supervisorVars

\* A worker whose API has died reads the end of its parent pipe, or exits by
\* itself.
OrphanExits(p) ==
  /\ phase[p] = "crashed" /\ worker[p] # "none"
  /\ worker' = [worker EXCEPT ![p] = "none"]
  /\ UNCHANGED <<lockVars, state, failures, timer, stopping, launches, clients>>

LockStep(p) ==
  (Construct(p) \/ Close(p) \/ ReleaseLock(p)) /\ UNCHANGED <<supervisorVars, clients>>

HostNext ==
  \E p \in Apis :
    \/ LockStep(p) \/ Serve(p)
    \/ Spawned(p) \/ WorkerCloses(p) \/ TimerFires(p) \/ Restart(p)
    \/ Signal(p) \/ Stopped(p) \/ Drained(p) \/ Crash(p) \/ OrphanExits(p)
    \/ ClientConnects(p) \/ ClientLeaves(p)

HostSpec == HostInit /\ [][HostNext]_vars

\* The event loop of an API process goes on, its timers fire, a new child
\* reports that it has started or closes, and a killed child closes.  Nothing
\* is assumed of starts, signals, the operator, crashes, of a worker that is up,
\* which may run for ever, or of a client, which may keep its connection.
ChildReports(p) == Spawned(p) \/ (WorkerCloses(p) /\ worker[p] = "starting")

HostFairness ==
  \A p \in Apis :
    /\ WF_vars(LockStep(p) /\ phase[p] # "new") /\ WF_vars(Serve(p))
    /\ WF_vars(ChildReports(p)) /\ WF_vars(TimerFires(p))
    /\ WF_vars(WorkerCloses(p) /\ worker[p] = "killed")
    /\ WF_vars(Stopped(p)) /\ WF_vars(Drained(p))

FairHostSpec == HostSpec /\ HostFairness

-----------------------------------------------------------------------------
(* Properties; those of StoreLock hold here as well.                       *)

\* A worker whose API has not died always works on a directory its API owns:
\* the lock is never given back, or lost to another process, under a worker
\* that is still alive.
LockCoversWorker ==
  \A p \in Apis : worker[p] # "none" /\ phase[p] # "crashed" =>
    lock = p /\ phase[p] \in {"serving", "stopping"}

\* supervisor.ts: "Restart only after close, never alongside a dying child."
\* No restart is scheduled while there is a child or after stop(), whatever
\* the operator asks for meanwhile.
RestartAfterClose ==
  \A p \in Apis : timer[p] /\ Supervising(p) =>
    worker[p] = "none" /\ ~stopping[p] /\ state[p] = "restarting"

\* A worker that keeps failing is started again MaxRestarts times, no more.
BoundedRestarts == \A p \in Apis : launches[p] <= MaxRestarts + 1

\* A client holds up an API that is stopping: nothing else can by then, its
\* worker has closed.
HeldByClient(p) == phase[p] = "draining" /\ clients[p] /\ worker[p] = "none"

\* A signalled API ends, unless it dies first or a client never lets go of its
\* connection, and leaves neither a worker nor a lock behind.  A client that
\* does let go frees it, since no other can connect any more.
StopsCleanly ==
  \A p \in Apis : stopping[p] ~>
    \/ phase[p] = "crashed"
    \/ phase[p] = "gone" /\ worker[p] = "none" /\ lock # p
    \/ HeldByClient(p)

\* A serving API without a worker gets one or says that it has given up.
WorkerComesBack ==
  \A p \in Apis : phase[p] = "serving" /\ worker[p] = "none" ~>
    worker[p] = "up" \/ state[p] = "failed" \/ phase[p] # "serving"
=============================================================================
