----------------------------- MODULE Supervisor -----------------------------
(***************************************************************************)
(* The supervisor of one managed process (ASR or LLM server): a state      *)
(* machine that a tick drives, the child it spawned, the health probe it   *)
(* runs on another thread, its restart budget, and what it tells the rest  *)
(* of the program: the endpoint cell, the readiness events on the bus and  *)
(* the record in children.json.                                            *)
(*                                                                         *)
(* The code's Spawning and Restarting states last no longer than the call  *)
(* that enters them, so no state of this module has them.  Times are       *)
(* whole units; the ticker runs several times a second, so time does not   *)
(* pass while a tick has a deadline or an exit to act on (Due).            *)
(***************************************************************************)
EXTENDS Naturals, FiniteSets

CONSTANTS
  Pid,           \* bound: child processes that exist at one time
  None,          \* no child, no endpoint, no record
  Gates,         \* the weights gates the plan may feed to this machine
  HasLock,       \* is the instance lock held (RUNTIME 8.5)?
  MaxAttempts,   \* restart attempts per rolling window (5)
  Window,        \* the window (10 min)
  StartTimeout,  \* startup timeout (120 s)
  BackoffBase,   \* first backoff (1 s)
  BackoffCap,    \* longest backoff (60 s)
  Grace          \* drain grace and SIGTERM grace (5 s each)

AllGates == {"notConfigured", "downloading", "downloadFailed", "installed"}

ASSUME PidAssumption  == None \notin Pid
ASSUME GateAssumption == Gates \subseteq AllGates /\ "installed" \in Gates
ASSUME LockAssumption == HasLock \in BOOLEAN
ASSUME TimeAssumption ==
  /\ MaxAttempts \in Nat \ {0}
  /\ Window \in Nat \ {0} /\ StartTimeout \in Nat \ {0} /\ Grace \in Nat \ {0}
  /\ BackoffBase \in Nat \ {0} /\ BackoffCap \in Nat
  /\ BackoffBase <= BackoffCap /\ BackoffCap < Window

VARIABLES
  state,     \* ProcState
  gate,      \* the weights gate last fed in
  want,      \* desired_run
  child,     \* the child whose handle the machine holds
  probe,     \* the health probe: none, pending, or its outcome
  timer,     \* time left of the startup timeout, backoff or stop deadline
  phase,     \* the sub-phase of Stopping
  lapse,     \* lapse[i]: time until restart attempt i leaves the window
  delay,     \* the next backoff
  endpoint,  \* EndpointCell: the child whose port clients use
  told,      \* the last Readiness event published
  inflight,  \* a client request is in flight (InFlightGauge)
  proc,      \* the operating system's view of each child process
  reg,       \* children.json: the recorded child
  stale,     \* history: restart_runtime left a Ready state unannounced
  recent,    \* history: time until respawn i is Window - BackoffCap old
  owed       \* history: the user restarted the budget during this backoff

machine == <<state, gate, want, child, probe, timer, phase, lapse, delay>>
voice   == <<endpoint, told, stale>>
world   == <<inflight, proc, reg>>
past    == <<recent, owed>>
svars   == <<machine, voice, world, past>>

Idle     == {"notConfigured", "downloading", "downloadFailed", "stopped"}
Active   == {"starting", "ready", "backoff"}
Outcomes == {"up", "refused", "bad"}  \* bad: loading, timed out or failed
Slot     == 1 .. MaxAttempts
Pace     == Window - BackoffCap
Longest  == CHOOSE m \in {StartTimeout, BackoffCap, Grace} :
              \A n \in {StartTimeout, BackoffCap, Grace} : n <= m

TypeOK ==
  /\ state \in Idle \union Active \union {"failed", "stopping"}
  /\ gate \in AllGates /\ want \in BOOLEAN
  /\ child \in Pid \union {None}
  /\ probe \in Outcomes \union {"none", "pending"}
  /\ timer \in 0 .. Longest
  /\ phase \in {"none", "drain", "term", "reap"}
  /\ lapse \in [Slot -> 0 .. Window]
  /\ delay \in BackoffBase .. BackoffCap
  /\ endpoint \in Pid \union {None} /\ reg \in Pid \union {None}
  /\ told \in BOOLEAN /\ stale \in BOOLEAN /\ inflight \in BOOLEAN
  /\ proc \in [Pid -> {"free", "run", "dying", "exited"}]
  /\ recent \in [1 .. MaxAttempts + 1 -> 0 .. Pace] /\ owed \in BOOLEAN

Fresh == [i \in Slot |-> 0]

MachineInit ==
  /\ state = "notConfigured" /\ gate = "notConfigured" /\ want = FALSE
  /\ child = None /\ probe = "none" /\ timer = 0 /\ phase = "none"
  /\ lapse = Fresh /\ delay = BackoffBase

Init ==
  /\ MachineInit
  /\ endpoint = None /\ told = FALSE /\ stale = FALSE /\ inflight = FALSE
  /\ proc = [p \in Pid |-> "free"] /\ reg = None
  /\ recent = [i \in 1 .. MaxAttempts + 1 |-> 0] /\ owed = FALSE

-----------------------------------------------------------------------------
(* Children. *)

\* waitpid has the exit code: the handle and the process are gone.
Exited == child # None /\ proc[child] = "exited"
Reaped == [proc EXCEPT ![child] = "free"]

\* Mutant: the handle is dropped without a kill.
DroppedAlive == proc

\* kill_and_clear_child: SIGKILL and one look at once, then the handle is
\* dropped; whoever is still dying then dies unwatched.
Killed ==
  IF child = None THEN proc
  ELSE [proc EXCEPT ![child] = IF @ = "run" THEN "dying" ELSE "free"]

Spent(l) == \A i \in DOMAIN l : l[i] # 0

\* Take a free slot of a budget.
Claim(f, n) ==
  LET i == CHOOSE i \in DOMAIN f : f[i] = 0
  IN IF Spent(f) THEN f ELSE [f EXCEPT ![i] = n]

Capped(d) == IF 2 * d < BackoffCap THEN 2 * d ELSE BackoffCap

\* Mutant: restarts are not counted.
RescheduleUncounted(pr, l, d) ==
  /\ endpoint' = None /\ child' = None /\ reg' = None /\ probe' = "none"
  /\ proc' = pr
  /\ state' = "backoff" /\ lapse' = l /\ timer' = d /\ delay' = Capped(d)
  /\ UNCHANGED phase

\* begin_restart, given the processes, the budget and the backoff it finds.
Reschedule(pr, l, d) ==
  /\ endpoint' = None /\ child' = None /\ reg' = None /\ probe' = "none"
  /\ proc' = pr
  /\ IF Spent(l)
     THEN /\ state' = "failed" /\ lapse' = l /\ delay' = d
          /\ UNCHANGED timer
     ELSE /\ state' = "backoff" /\ lapse' = Claim(l, Window)
          /\ timer' = d /\ delay' = Capped(d)
  /\ UNCHANGED phase

\* enter_spawning: refused without the instance lock; a port that cannot be
\* allocated or a child that cannot be spawned is a restart like any other.
Spawn(pr, l, d) ==
  IF ~HasLock
  THEN /\ state' = "failed" /\ lapse' = l /\ delay' = d /\ proc' = pr
       /\ child' = None /\ reg' = None
       /\ UNCHANGED <<probe, timer, phase, endpoint>>
  ELSE \/ Reschedule(pr, l, d)
       \/ \E p \in Pid :
            /\ pr[p] = "free"
            /\ proc' = [pr EXCEPT ![p] = "run"]
            /\ child' = p /\ reg' = p /\ probe' = "none"
            /\ timer' = StartTimeout /\ state' = "starting"
            /\ lapse' = l /\ delay' = d
            /\ UNCHANGED <<phase, endpoint>>

\* Leaving Ready by a restart or a stop is announced.
Silence == told' = (told /\ state # "ready") /\ UNCHANGED stale

\* A respawn that is still to come is owed by the same decision.
Past == UNCHANGED recent /\ owed' = (owed /\ state = "backoff" /\ state' = "backoff")

Restart(pr) ==
  /\ Reschedule(pr, lapse, delay) /\ Silence
  /\ Past /\ UNCHANGED <<gate, want, inflight>>

-----------------------------------------------------------------------------
(* Stopping: drain, SIGTERM, SIGKILL, reap. *)

FinishStop(pr) ==
  /\ state' = "stopped" /\ phase' = "none"
  /\ child' = None /\ reg' = None /\ proc' = pr

\* Mutant: a stop leaves the endpoint cell as it is.
BeginStopQuietly ==
  /\ Silence
  /\ IF child = None
     THEN FinishStop(proc) /\ UNCHANGED timer
     ELSE /\ state' = "stopping"
          /\ phase' = IF inflight THEN "drain" ELSE "term"
          /\ timer' = Grace
          /\ UNCHANGED <<child, reg, proc>>
  /\ UNCHANGED <<endpoint, probe, lapse, delay>>

\* begin_stop, with the tick it makes: without a child it is over at once,
\* and with no request in flight SIGTERM is sent at once.
BeginStop ==
  /\ endpoint' = None /\ Silence
  /\ IF child = None
     THEN FinishStop(proc) /\ UNCHANGED timer
     ELSE /\ state' = "stopping"
          /\ phase' = IF inflight THEN "drain" ELSE "term"
          /\ timer' = Grace
          /\ UNCHANGED <<child, reg, proc>>
  /\ UNCHANGED <<probe, lapse, delay>>

Keep == UNCHANGED <<voice, probe, timer, phase, lapse, delay, child, reg, proc>>

\* stop() and set_desired_run(false) on the machine's position.
Halt ==
  IF state \in Active THEN BeginStop ELSE UNCHANGED state /\ Keep

TickStopping ==
  /\ state = "stopping"
  /\ \/ /\ phase = "drain" /\ (~inflight \/ timer = 0)
        /\ phase' = "term" /\ timer' = Grace
        /\ UNCHANGED <<state, child, reg, proc>>
     \/ /\ phase \in {"term", "reap"} /\ Exited
        /\ FinishStop(Reaped) /\ UNCHANGED timer
     \/ /\ phase = "term" /\ ~Exited /\ timer = 0
        /\ phase' = "reap" /\ proc' = [proc EXCEPT ![child] = "dying"]
        /\ UNCHANGED <<state, timer, child, reg>>
  /\ UNCHANGED <<gate, want, probe, lapse, delay, voice, inflight, past>>

-----------------------------------------------------------------------------
(* The other ticks. *)

Probe(to) ==
  /\ probe' = to
  /\ UNCHANGED <<state, gate, want, child, timer, phase, lapse, delay,
                 voice, world, past>>

EnterReady ==
  /\ state' = "ready" /\ endpoint' = child /\ told' = TRUE /\ stale' = FALSE
  /\ delay' = BackoffBase /\ probe' = "none"
  /\ UNCHANGED <<gate, want, child, timer, phase, lapse, world, past>>

TickStarting ==
  /\ state = "starting"
  /\ \/ Exited /\ Restart(Reaped)
     \/ ~Exited /\ timer = 0 /\ Restart(Killed)
     \/ ~Exited /\ timer > 0 /\ probe = "none" /\ Probe("pending")
     \/ ~Exited /\ timer > 0 /\ probe \in Outcomes \ {"up"} /\ Probe("none")
     \/ ~Exited /\ timer > 0 /\ probe = "up" /\ EnterReady

\* Busy is not lost: a bad answer restarts only with nothing in flight.
TickReady ==
  /\ state = "ready"
  /\ \/ Exited /\ Restart(Reaped)
     \/ ~Exited /\ probe = "none" /\ Probe("pending")
     \/ ~Exited /\ (probe = "up" \/ (probe = "bad" /\ inflight)) /\ Probe("none")
     \/ ~Exited /\ (probe = "refused" \/ (probe = "bad" /\ ~inflight))
        /\ Restart(Killed)

\* A respawn that this machine decides on by itself.
TickBackoff ==
  /\ state = "backoff" /\ timer = 0
  /\ Spawn(proc, lapse, delay)
  /\ recent' = IF state' = "starting" /\ ~owed THEN Claim(recent, Pace) ELSE recent
  /\ owed' = FALSE
  /\ UNCHANGED <<gate, want, told, stale, inflight>>

Tick == TickStarting \/ TickReady \/ TickBackoff \/ TickStopping

-----------------------------------------------------------------------------
(* Inputs. *)

\* set_gate: the states before a run follow the gate; the others go on.
SetGate(g) ==
  /\ gate' = g
  /\ IF state \in Idle /\ g = "installed" /\ want
     THEN Spawn(proc, lapse, delay) /\ UNCHANGED <<told, stale>>
     ELSE /\ state' = IF state \notin Idle THEN state
                      ELSE IF g = "installed" THEN "stopped" ELSE g
          /\ Keep
  /\ UNCHANGED <<want, inflight>>
  /\ Past

SetWant(run) ==
  /\ want' = run
  /\ IF ~run THEN Halt
     ELSE IF gate = "installed" /\ state \in {"stopped", "notConfigured"}
          THEN Spawn(proc, lapse, delay) /\ UNCHANGED <<told, stale>>
          ELSE UNCHANGED state /\ Keep
  /\ UNCHANGED <<gate, inflight>>
  /\ Past

Stop ==
  /\ want' = FALSE
  /\ IF state \in Active \union {"stopping"} THEN Halt
     ELSE state' = "stopped" /\ Keep
  /\ UNCHANGED <<gate, inflight>>
  /\ Past

\* restart_runtime: a fresh budget, and, with the weights installed, the child
\* is killed and another spawned.  A Ready state is left without a word.
RestartRuntime ==
  /\ IF gate = "installed"
     THEN /\ want' = TRUE
          /\ Spawn(Killed, Fresh, BackoffBase)
          /\ stale' = (stale \/ state = "ready") /\ UNCHANGED told
     ELSE /\ lapse' = Fresh /\ delay' = BackoffBase
          /\ UNCHANGED <<state, want, child, probe, timer, phase, voice, reg, proc>>
  /\ recent' = [i \in DOMAIN recent |-> 0]
  /\ owed' = (state = "backoff" /\ gate # "installed")
  /\ UNCHANGED <<gate, inflight>>

-----------------------------------------------------------------------------
(* The world: the probe's thread, the clients, the children and the clock. *)

\* Nobody listens where no child runs.
Answer(o) ==
  /\ probe = "pending"
  /\ o = "up" => child # None /\ proc[child] = "run"
  /\ probe' = o
  /\ UNCHANGED <<state, gate, want, child, timer, phase, lapse, delay,
                 voice, world, past>>

\* A client that finds an endpoint sends; it stops waiting at its own timeout.
Request ==
  /\ ~inflight /\ endpoint # None /\ inflight' = TRUE
  /\ UNCHANGED <<machine, voice, proc, reg, past>>
Response ==
  /\ inflight /\ inflight' = FALSE
  /\ UNCHANGED <<machine, voice, proc, reg, past>>

Ends(p) ==
  /\ proc' = [proc EXCEPT ![p] = IF p = child THEN "exited" ELSE "free"]
  /\ UNCHANGED <<machine, voice, inflight, reg, past>>

\* A child may exit at any time, and a killed one does.
Exit(p) == proc[p] = "run" /\ Ends(p)
Die(p)  == proc[p] = "dying" /\ Ends(p)

Due ==
  \/ Exited /\ ~(state = "stopping" /\ phase = "drain")
  \/ timer = 0 /\ state \in {"starting", "backoff"}
  \/ timer = 0 /\ state = "stopping" /\ phase \in {"drain", "term"}

Less(n) == IF n = 0 THEN 0 ELSE n - 1

Elapse ==
  /\ ~Due
  /\ timer' = Less(timer)
  /\ lapse' = [i \in DOMAIN lapse |-> Less(lapse[i])]
  /\ recent' = [i \in DOMAIN recent |-> Less(recent[i])]
  /\ UNCHANGED <<state, gate, want, child, probe, phase, delay, voice, world, owed>>

World ==
  \/ \E o \in Outcomes : Answer(o)
  \/ Request \/ Response \/ Elapse
  \/ \E p \in Pid : Exit(p) \/ Die(p)

Inputs ==
  \/ \E g \in Gates : SetGate(g)
  \/ \E run \in BOOLEAN : SetWant(run)
  \/ Stop \/ RestartRuntime

Next == Tick \/ Inputs \/ World

Spec == Init /\ [][Next]_svars

\* The ticker ticks, time passes, probes and requests time out, and a process
\* that was sent SIGKILL dies.  Nothing else is promised.
Fairness ==
  /\ WF_svars(Tick) /\ WF_svars(Elapse) /\ WF_svars(Response)
  /\ WF_svars(\E o \in Outcomes : Answer(o))
  /\ \A p \in Pid : WF_svars(Die(p))

FairSpec == Spec /\ Fairness

-----------------------------------------------------------------------------
(* Properties. *)

\* No child is ever let go alive: every running process is the one whose handle
\* the machine holds, and is the one children.json names, so that whoever kills
\* or outlives the program can find it (RUNTIME 8.4).
NoOrphan == \A p \in Pid : proc[p] = "run" => p = child /\ p = reg

\* The state, the readiness last published and the endpoint cell tell the same
\* story on every path into and out of Ready, except after a restart_runtime
\* in Ready, which publishes nothing and leaves the cell.
Announced ==
  ~stale => /\ told <=> state = "ready"
            /\ endpoint # None <=> state = "ready"
            /\ state = "ready" => endpoint = child

\* A restart storm is bounded: no stretch of time shorter than Window - BackoffCap
\* sees more than MaxAttempts respawns, those before the user's last restart of
\* the runtime, and the one already decided by then, not counted.
RespawnPace == ~Spent(recent)


-----------------------------------------------------------------------------
(* What comments and the runtime specification claim beyond that.            *)

\* "None = backend not Ready" (EndpointCell).
EndpointMeansReady == endpoint # None => state = "ready"

\* "The gate matters again at the next spawn decision" (set_gate).
GateRespected ==
  [][state = "backoff" /\ state' = "starting" => gate = "installed"]_svars

\* "Max 5 attempts per rolling 10 minutes, then Failed": a process that never
\* gets ready is not restarted for ever.
GivesUp ==
  <>[][~RestartRuntime]_svars => ~<>[](state \in {"starting", "backoff"})
=============================================================================
