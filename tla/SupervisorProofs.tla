-------------------------- MODULE SupervisorProofs --------------------------
(***************************************************************************)
(* Theorems about the supervisor's machine, for every set of processes,    *)
(* every budget and every time: its types, that no child is let go alive,  *)
(* that endpoint cell, readiness events and state agree, and the pace of   *)
(* restarts; and about one role of the desktop's host: its types, that     *)
(* every running child is owned or recorded, that nothing superseded is    *)
(* resurrected, and that nothing runs after a shutdown.                    *)
(*                                                                         *)
(* The lemmas speak of the operators the actions are built from (Spawn,    *)
(* Reschedule, Halt, Tick), so that the host's proofs can cite them too.   *)
(***************************************************************************)
EXTENDS SupervisorHost, FiniteSetTheorems, TLAPS

Status == {"free", "run", "dying", "exited"}
States == Idle \union Active \union {"failed", "stopping"}

\* The part of TypeOK that Spawn, Reschedule and the stops write ...
Moving ==
  /\ state \in States
  /\ child \in Pid \union {None}
  /\ probe \in Outcomes \union {"none", "pending"}
  /\ timer \in 0 .. Longest
  /\ phase \in {"none", "drain", "term", "reap"}
  /\ lapse \in [Slot -> 0 .. Window]
  /\ delay \in BackoffBase .. BackoffCap
  /\ endpoint \in Pid \union {None} /\ reg \in Pid \union {None}
  /\ proc \in [Pid -> Status]

\* ... and the rest of it.
Resting ==
  /\ gate \in AllGates /\ want \in BOOLEAN
  /\ told \in BOOLEAN /\ stale \in BOOLEAN /\ inflight \in BOOLEAN

History ==
  /\ recent \in [1 .. MaxAttempts + 1 -> 0 .. Pace] /\ owed \in BOOLEAN

\* The states in which the machine holds a child.
Holding == {"starting", "ready", "stopping"}

\* The machine holds a child exactly in those states, children.json names the
\* child it holds, and no other process runs.
ChildInv ==
  /\ child = None <=> state \notin Holding
  /\ reg = child
  /\ \A p \in Pid : proc[p] = "run" => p = child

\* A process table in which nothing runs.
Quiet(pr) == \A p \in Pid : pr[p] # "run"

-----------------------------------------------------------------------------
(* Operators. *)

\* TypeOK is the three parts together.
LEMMA TypeParts == TypeOK <=> Moving /\ Resting /\ History
  BY SMT DEF TypeOK, Moving, Resting, History, Status, States

\* Longest bounds each of the machine's timers.
LEMMA LongestBounds ==
  /\ Longest \in Nat
  /\ StartTimeout \in 0 .. Longest /\ Grace \in 0 .. Longest
  /\ BackoffBase .. BackoffCap \subseteq 0 .. Longest
<1> DEFINE S == {StartTimeout, BackoffCap, Grace}
           Top(m) == m \in S /\ \A n \in S : n <= m
<1>1. StartTimeout \in Nat /\ BackoffCap \in Nat /\ Grace \in Nat /\ BackoffBase \in Nat
  BY TimeAssumption, SMT
<1>2. \E m : Top(m)
  <2>1. Top(StartTimeout) \/ Top(BackoffCap) \/ Top(Grace)
    BY <1>1, SMT
  <2> QED BY <2>1
<1>3. Longest = CHOOSE m : Top(m)
  BY DEF Longest
<1>4. Top(Longest)
  BY <1>2, <1>3
<1> QED BY <1>1, <1>4, SMT

\* The window outlasts the longest backoff.
LEMMA PaceIsPositive == Pace \in Nat
  BY TimeAssumption, SMT DEF Pace

\* Taking a slot of a budget keeps its type.
LEMMA ClaimType ==
  ASSUME NEW k, NEW n \in Nat, NEW f \in [1 .. k -> 0 .. n]
  PROVE  Claim(f, n) \in [1 .. k -> 0 .. n]
<1>1. n \in 0 .. n
  BY SMT
<1>2. \A i : [f EXCEPT ![i] = n] \in [1 .. k -> 0 .. n]
  BY <1>1
<1> QED BY <1>2, Zenon DEF Claim

\* The backoff stays within its bounds.
LEMMA CappedType ==
  ASSUME NEW d \in BackoffBase .. BackoffCap
  PROVE  Capped(d) \in BackoffBase .. BackoffCap
  BY TimeAssumption, SMT DEF Capped

\* begin_restart keeps the types, and leaves no child, no record and no
\* endpoint.
LEMMA RescheduleType ==
  ASSUME Moving, NEW pr \in [Pid -> Status], NEW l \in [Slot -> 0 .. Window],
         NEW d \in BackoffBase .. BackoffCap, Reschedule(pr, l, d)
  PROVE  /\ Moving'
         /\ state' \in {"failed", "backoff"} /\ child' = None /\ reg' = None
         /\ endpoint' = None /\ proc' = pr
<1>1. Window \in Nat
  BY TimeAssumption
<1>2. /\ state' \in {"failed", "backoff"} /\ child' = None /\ reg' = None
      /\ endpoint' = None /\ proc' = pr /\ probe' = "none" /\ phase' = phase
  BY DEF Reschedule
<1>3. lapse' \in [Slot -> 0 .. Window]
  BY <1>1, ClaimType DEF Reschedule, Slot
<1>4. delay' \in BackoffBase .. BackoffCap
  BY CappedType DEF Reschedule
<1>5. timer' \in 0 .. Longest
  BY LongestBounds DEF Reschedule, Moving
<1> QED BY <1>2, <1>3, <1>4, <1>5 DEF Moving, States, Active

\* enter_spawning keeps the types and never ends in Ready; it leaves the cell
\* alone or clears it.
LEMMA SpawnType ==
  ASSUME Moving, NEW pr \in [Pid -> Status], NEW l \in [Slot -> 0 .. Window],
         NEW d \in BackoffBase .. BackoffCap, Spawn(pr, l, d)
  PROVE  /\ Moving'
         /\ state' \in {"failed", "backoff", "starting"}
         /\ endpoint' \in {None, endpoint}
<1>1. CASE ~HasLock
  BY <1>1 DEF Spawn, Moving, States
<1>2. CASE HasLock /\ Reschedule(pr, l, d)
  BY <1>2, RescheduleType
<1>3. CASE HasLock /\ ~Reschedule(pr, l, d)
  <2>1. PICK p \in Pid :
          /\ proc' = [pr EXCEPT ![p] = "run"]
          /\ child' = p /\ reg' = p /\ probe' = "none"
          /\ timer' = StartTimeout /\ state' = "starting"
          /\ lapse' = l /\ delay' = d
          /\ UNCHANGED <<phase, endpoint>>
    BY <1>3 DEF Spawn
  <2>2. proc' \in [Pid -> Status]
    BY <2>1 DEF Status
  <2>3. timer' \in 0 .. Longest
    BY <2>1, LongestBounds
  <2> QED BY <2>1, <2>2, <2>3 DEF Moving, States, Active
<1> QED BY <1>1, <1>2, <1>3

\* What enter_spawning starts is the only running process, held and recorded.
LEMMA SpawnChild ==
  ASSUME Moving, NEW pr \in [Pid -> Status], NEW l, NEW d,
         Quiet(pr), Spawn(pr, l, d)
  PROVE  ChildInv'
<1>1. CASE ~HasLock
  BY <1>1 DEF Spawn, ChildInv, Quiet, Holding
<1>2. CASE HasLock /\ Reschedule(pr, l, d)
  <2>1. state' \in {"failed", "backoff"} /\ child' = None /\ reg' = None /\ proc' = pr
    BY <1>2 DEF Reschedule
  <2> QED BY <2>1 DEF ChildInv, Quiet, Holding
<1>3. CASE HasLock /\ ~Reschedule(pr, l, d)
  <2>1. PICK p \in Pid :
          /\ proc' = [pr EXCEPT ![p] = "run"]
          /\ child' = p /\ reg' = p /\ state' = "starting"
    BY <1>3 DEF Spawn
  <2>2. \A q \in Pid : proc'[q] = "run" => q = p
    BY <2>1 DEF Quiet
  <2> QED BY <2>1, <2>2, PidAssumption DEF ChildInv, Holding
<1> QED BY <1>1, <1>2, <1>3

\* Without a child nothing runs.
LEMMA ChildlessIsQuiet ==
  ASSUME ChildInv, child = None
  PROVE  Quiet(proc)
  BY PidAssumption DEF ChildInv, Quiet

\* kill_and_clear_child and a reaped exit leave nothing running.
LEMMA KilledIsQuiet ==
  ASSUME Moving, ChildInv
  PROVE  /\ Killed \in [Pid -> Status] /\ Quiet(Killed)
         /\ child # None => Reaped \in [Pid -> Status] /\ Quiet(Reaped)
<1>1. CASE child = None
  BY <1>1, ChildlessIsQuiet DEF Killed, Moving
<1>2. CASE child # None
  <2>1. child \in Pid
    BY <1>2 DEF Moving
  <2>2. Killed \in [Pid -> Status] /\ Reaped \in [Pid -> Status]
    BY <1>2, <2>1 DEF Killed, Reaped, Moving, Status
  <2>3. \A p \in Pid : Killed[p] # "run" /\ Reaped[p] # "run"
    BY <1>2, <2>1 DEF Killed, Reaped, Moving, Status, ChildInv
  <2> QED BY <1>2, <2>2, <2>3 DEF Quiet
<1> QED BY <1>1, <1>2

\* begin_stop and finish_stop: a machine without a child is stopped at once.
LEMMA HaltKeeps ==
  ASSUME Moving, Resting, ChildInv, Halt
  PROVE  /\ Moving' /\ ChildInv' /\ told' \in BOOLEAN
         /\ stale' = stale
         /\ state \in Active => endpoint' = None /\ told' = (told /\ state # "ready")
         /\ state \in Active => state' \in {"stopped", "stopping"}
         /\ state \notin Active => state' = state /\ Keep
<1>1. CASE state \notin Active
  <2>1. state' = state /\ Keep
    BY <1>1 DEF Halt
  <2> QED BY <1>1, <2>1 DEF Keep, voice, Moving, Resting, ChildInv
<1>2. CASE state \in Active
  <2>1. BeginStop
    BY <1>2 DEF Halt
  <2>2. /\ endpoint' = None /\ told' = (told /\ state # "ready") /\ stale' = stale
        /\ UNCHANGED <<probe, lapse, delay>>
    BY <2>1 DEF BeginStop, Silence
  <2>3. CASE child = None
    <3>1. /\ state' = "stopped" /\ phase' = "none" /\ child' = None /\ reg' = None
          /\ proc' = proc /\ timer' = timer
      BY <2>1, <2>3 DEF BeginStop, FinishStop
    <3>2. ChildInv'
      BY <3>1, <2>3, ChildlessIsQuiet DEF ChildInv, Quiet, Holding
    <3>3. Moving'
      BY <2>2, <3>1 DEF Moving, States, Idle
    <3> QED BY <1>2, <2>2, <3>1, <3>2, <3>3 DEF Resting
  <2>4. CASE child # None
    <3>1. /\ state' = "stopping" /\ phase' \in {"drain", "term"} /\ timer' = Grace
          /\ UNCHANGED <<child, reg, proc>>
      BY <2>1, <2>4 DEF BeginStop
    <3>2. ChildInv'
      BY <3>1, <2>4 DEF ChildInv, Holding
    <3>3. Moving'
      BY <2>2, <3>1, LongestBounds DEF Moving, States
    <3> QED BY <1>2, <2>2, <3>1, <3>2, <3>3 DEF Resting
  <2> QED BY <2>3, <2>4
<1> QED BY <1>1, <1>2
-----------------------------------------------------------------------------
(* Actions. *)

\* The inductive invariant, without the history variables.
Sound == Moving /\ Resting /\ ChildInv /\ Announced

\* begin_restart keeps it, from whatever state: endpoint and event go together.
LEMMA RestartKeeps ==
  ASSUME Sound, NEW pr \in [Pid -> Status], Quiet(pr), Restart(pr)
  PROVE  Sound'
<1>1. Reschedule(pr, lapse, delay) /\ Silence /\ UNCHANGED <<gate, want, inflight>>
  BY DEF Restart
<1>2. /\ Moving'
      /\ state' \in {"failed", "backoff"} /\ child' = None /\ reg' = None
      /\ endpoint' = None /\ proc' = pr
  BY <1>1, RescheduleType DEF Sound, Moving
<1>3. told' = (told /\ state # "ready") /\ stale' = stale
  BY <1>1 DEF Silence
<1>4. Resting'
  BY <1>1, <1>3 DEF Sound, Resting
<1>5. ChildInv'
  BY <1>2 DEF ChildInv, Quiet, Holding
<1>6. Announced'
  BY <1>2, <1>3 DEF Sound, Announced, Resting
<1> QED BY <1>2, <1>4, <1>5, <1>6 DEF Sound

\* A spawn from a state without an announced endpoint keeps it.
LEMMA SpawnKeeps ==
  ASSUME Sound, NEW pr \in [Pid -> Status], NEW l \in [Slot -> 0 .. Window],
         NEW d \in BackoffBase .. BackoffCap, Spawn(pr, l, d), Quiet(pr),
         Resting', told' = told, stale' = FALSE => stale = FALSE,
         stale' = FALSE => state # "ready"
  PROVE  Sound'
<1>1. /\ Moving'
      /\ state' \in {"failed", "backoff", "starting"}
      /\ endpoint' \in {None, endpoint}
  BY SpawnType DEF Sound
<1>2. ChildInv'
  BY SpawnChild DEF Sound
<1>3. Announced'
  <2>1. SUFFICES ASSUME ~stale' PROVE ~told' /\ endpoint' = None
    BY <1>1 DEF Announced, Resting
  <2>2. ~stale /\ state # "ready"
    BY <2>1 DEF Resting, Sound
  <2> QED BY <2>2, <1>1 DEF Sound, Announced
<1> QED BY <1>1, <1>2, <1>3 DEF Sound

LEMMA HaltIsSound ==
  ASSUME Sound, Halt, Resting'
  PROVE  Sound'
<1>1. /\ Moving' /\ ChildInv' /\ stale' = stale
      /\ state \in Active => endpoint' = None /\ told' = (told /\ state # "ready")
      /\ state \in Active => state' \in {"stopped", "stopping"}
      /\ state \notin Active => state' = state /\ Keep
  BY HaltKeeps DEF Sound
<1>2. Announced'
  <2>1. CASE state \in Active
    BY <1>1, <2>1 DEF Sound, Announced, Resting
  <2>2. CASE state \notin Active
    BY <1>1, <2>2 DEF Sound, Announced, Keep, voice
  <2> QED BY <2>1, <2>2
<1> QED BY <1>1, <1>2 DEF Sound

LEMMA TickStoppingKeeps ==
  ASSUME Sound, TickStopping
  PROVE  Sound'
<1>1. /\ state = "stopping" /\ child \in Pid
      /\ UNCHANGED <<gate, want, probe, lapse, delay, endpoint, told, stale, inflight>>
  BY DEF TickStopping, voice, Sound, ChildInv, Holding, Moving
<1>2. Resting'
  BY <1>1 DEF Sound, Resting
<1>3. CASE /\ phase' = "term" /\ timer' = Grace
           /\ UNCHANGED <<state, child, reg, proc>>
  <2>1. Moving'
    BY <1>1, <1>3, LongestBounds DEF Sound, Moving
  <2>2. ChildInv' /\ Announced'
    BY <1>1, <1>3 DEF Sound, ChildInv, Announced
  <2> QED BY <1>2, <2>1, <2>2 DEF Sound
<1>4. CASE FinishStop(Reaped) /\ UNCHANGED timer
  <2>1. Reaped \in [Pid -> Status] /\ Quiet(Reaped)
    BY <1>1, KilledIsQuiet, PidAssumption DEF Sound
  <2>2. Moving'
    BY <1>1, <1>4, <2>1 DEF FinishStop, Sound, Moving, States, Idle
  <2>3. ChildInv'
    BY <1>4, <2>1 DEF FinishStop, ChildInv, Quiet, Holding
  <2>4. Announced'
    BY <1>1, <1>4 DEF FinishStop, Sound, Announced
  <2> QED BY <1>2, <2>2, <2>3, <2>4 DEF Sound
<1>5. CASE /\ phase' = "reap" /\ proc' = [proc EXCEPT ![child] = "dying"]
           /\ UNCHANGED <<state, timer, child, reg>>
  <2>1. /\ proc' \in [Pid -> Status]
        /\ \A p \in Pid : proc'[p] = "run" => proc[p] = "run"
    BY <1>1, <1>5 DEF Sound, Moving, Status
  <2>2. Moving'
    BY <1>1, <1>5, <2>1 DEF Sound, Moving
  <2>3. ChildInv' /\ Announced'
    BY <1>1, <1>5, <2>1 DEF Sound, ChildInv, Announced
  <2> QED BY <1>2, <2>2, <2>3 DEF Sound
<1> QED BY <1>3, <1>4, <1>5 DEF TickStopping

\* A probe started, or its answer taken.
LEMMA ProbeKeeps ==
  ASSUME Sound, NEW to \in Outcomes \union {"none", "pending"}, Probe(to)
  PROVE  Sound'
<1>1. /\ probe' = to
      /\ UNCHANGED <<state, gate, want, child, timer, phase, lapse, delay,
                     endpoint, told, stale, inflight, proc, reg>>
  BY DEF Probe, voice, world
<1>2. Resting'
  BY <1>1 DEF Sound, Resting
<1>3. Moving'
  BY <1>1 DEF Sound, Moving
<1>4. ChildInv' /\ Announced'
  BY <1>1 DEF Sound, ChildInv, Announced
<1> QED BY <1>2, <1>3, <1>4 DEF Sound

LEMMA EnterReadyKeeps ==
  ASSUME Sound, state = "starting", EnterReady
  PROVE  Sound'
<1>1. /\ state' = "ready" /\ endpoint' = child /\ told' = TRUE /\ stale' = FALSE
      /\ delay' = BackoffBase /\ probe' = "none"
      /\ UNCHANGED <<gate, want, child, timer, phase, lapse, inflight, proc, reg>>
  BY DEF EnterReady, world
<1>2. child \in Pid
  BY DEF Sound, ChildInv, Holding, Moving
<1>3. BackoffBase \in BackoffBase .. BackoffCap
  BY TimeAssumption, SMT
<1>4. Moving'
  BY <1>1, <1>2, <1>3 DEF Sound, Moving, States, Active
<1>5. Resting'
  BY <1>1 DEF Sound, Resting
<1>6. ChildInv'
  BY <1>1 DEF Sound, ChildInv, Holding
<1>7. Announced'
  BY <1>1, <1>2, PidAssumption DEF Announced
<1> QED BY <1>4, <1>5, <1>6, <1>7 DEF Sound

\* A tick, in whatever state.
LEMMA TickKeeps ==
  ASSUME Sound, Tick
  PROVE  Sound'
<1>1. Killed \in [Pid -> Status] /\ Quiet(Killed)
  BY KilledIsQuiet DEF Sound
<1>2. ASSUME Exited
      PROVE  Reaped \in [Pid -> Status] /\ Quiet(Reaped)
  BY <1>2, KilledIsQuiet DEF Sound, Exited
<1>3. \A to \in {"none", "pending"} : Probe(to) => Sound'
  BY ProbeKeeps
<1>4. CASE TickStarting
  <2>1. \/ Exited /\ Restart(Reaped)
        \/ Restart(Killed)
        \/ Probe("pending") \/ Probe("none")
        \/ state = "starting" /\ EnterReady
    BY <1>4 DEF TickStarting
  <2> QED BY <1>1, <1>2, <1>3, <2>1, RestartKeeps, EnterReadyKeeps
<1>5. CASE TickReady
  <2>1. \/ Exited /\ Restart(Reaped)
        \/ Restart(Killed)
        \/ Probe("pending") \/ Probe("none")
    BY <1>5 DEF TickReady
  <2> QED BY <1>1, <1>2, <1>3, <2>1, RestartKeeps
<1>6. CASE TickBackoff
  <2>1. /\ state = "backoff" /\ Spawn(proc, lapse, delay)
        /\ UNCHANGED <<gate, want, told, stale, inflight>>
    BY <1>6 DEF TickBackoff
  <2>2. Quiet(proc)
    BY <2>1, ChildlessIsQuiet DEF Sound, ChildInv, Holding
  <2>3. Resting'
    BY <2>1 DEF Sound, Resting
  <2>4. /\ proc \in [Pid -> Status] /\ lapse \in [Slot -> 0 .. Window]
        /\ delay \in BackoffBase .. BackoffCap
    BY DEF Sound, Moving
  <2> QED BY <2>1, <2>2, <2>3, <2>4, SpawnKeeps
<1>7. CASE TickStopping
  BY <1>7, TickStoppingKeeps
<1> QED BY <1>4, <1>5, <1>6, <1>7 DEF Tick

\* A step for one case of SetGate and SetWant: a spawn from an idle machine.
LEMMA IdleSpawnKeeps ==
  ASSUME Sound, state \in Idle, Resting', UNCHANGED <<told, stale>>,
         Spawn(proc, lapse, delay)
  PROVE  Sound'
<1>1. state # "ready" /\ state \notin Holding
  BY DEF Idle, Holding
<1>2. Quiet(proc)
  BY <1>1, ChildlessIsQuiet DEF Sound, ChildInv
<1>3. /\ proc \in [Pid -> Status] /\ lapse \in [Slot -> 0 .. Window]
      /\ delay \in BackoffBase .. BackoffCap
  BY DEF Sound, Moving
<1> QED BY <1>1, <1>2, <1>3, SpawnKeeps

\* Moving between the idle states.
LEMMA IdleMoveKeeps ==
  ASSUME Sound, state \in Idle \union {"failed"}, state' \in Idle, Keep, Resting'
  PROVE  Sound'
<1>1. UNCHANGED <<endpoint, told, stale, probe, timer, phase, lapse, delay,
                  child, reg, proc>>
  BY DEF Keep, voice
<1>2. Moving'
  BY <1>1 DEF Sound, Moving, States
<1>3. ChildInv' /\ Announced'
  BY <1>1 DEF Sound, ChildInv, Announced, Holding, Idle
<1> QED BY <1>2, <1>3 DEF Sound

\* Nothing but gate and desired run changes.
LEMMA KeepKeeps ==
  ASSUME Sound, state' = state, Keep, Resting'
  PROVE  Sound'
<1>1. UNCHANGED <<endpoint, told, stale, probe, timer, phase, lapse, delay,
                  child, reg, proc>>
  BY DEF Keep, voice
<1>2. Moving' /\ ChildInv' /\ Announced'
  BY <1>1 DEF Sound, Moving, ChildInv, Announced
<1> QED BY <1>2 DEF Sound

\* What Halt does to the published readiness is of its type.
LEMMA HaltRests ==
  ASSUME Sound, Halt, gate' \in AllGates, want' \in BOOLEAN, inflight' = inflight
  PROVE  Resting'
<1>1. told' \in BOOLEAN /\ stale' = stale
  BY HaltKeeps DEF Sound
<1> QED BY <1>1 DEF Sound, Resting

LEMMA SetGateKeeps ==
  ASSUME Sound, NEW g \in Gates, SetGate(g)
  PROVE  Sound'
<1>1. gate' = g /\ UNCHANGED <<want, inflight>> /\ g \in AllGates
  BY GateAssumption DEF SetGate
<1>2. CASE state \in Idle /\ g = "installed" /\ want
  <2>1. Spawn(proc, lapse, delay) /\ UNCHANGED <<told, stale>>
    BY <1>2 DEF SetGate
  <2>2. Resting'
    BY <1>1, <2>1 DEF Sound, Resting
  <2> QED BY <1>2, <2>1, <2>2, IdleSpawnKeeps
<1>3. CASE ~(state \in Idle /\ g = "installed" /\ want)
  <2>1. /\ Keep
        /\ state' = IF state \notin Idle THEN state
                    ELSE IF g = "installed" THEN "stopped" ELSE g
    BY <1>3 DEF SetGate
  <2>2. Resting'
    BY <1>1, <2>1 DEF Sound, Resting, Keep, voice
  <2>3. state \in Idle => state' \in Idle
    BY <1>1, <2>1 DEF AllGates, Idle
  <2> QED BY <2>1, <2>2, <2>3, IdleMoveKeeps, KeepKeeps
<1> QED BY <1>2, <1>3

LEMMA SetWantKeeps ==
  ASSUME Sound, NEW run \in BOOLEAN, SetWant(run)
  PROVE  Sound'
<1>1. want' = run /\ UNCHANGED <<gate, inflight>>
  BY DEF SetWant
<1>2. CASE ~run
  <2>1. Halt
    BY <1>2 DEF SetWant
  <2>2. Resting'
    BY <1>1, <2>1, HaltRests DEF Sound, Resting
  <2> QED BY <2>1, <2>2, HaltIsSound
<1>3. CASE run /\ gate = "installed" /\ state \in {"stopped", "notConfigured"}
  <2>1. Spawn(proc, lapse, delay) /\ UNCHANGED <<told, stale>>
    BY <1>3 DEF SetWant
  <2>2. Resting'
    BY <1>1, <2>1 DEF Sound, Resting
  <2> QED BY <1>3, <2>1, <2>2, IdleSpawnKeeps DEF Idle
<1>4. CASE run /\ ~(gate = "installed" /\ state \in {"stopped", "notConfigured"})
  <2>1. state' = state /\ Keep
    BY <1>4 DEF SetWant
  <2>2. Resting'
    BY <1>1, <2>1 DEF Sound, Resting, Keep, voice
  <2> QED BY <2>1, <2>2, KeepKeeps
<1> QED BY <1>2, <1>3, <1>4

LEMMA StopKeeps ==
  ASSUME Sound, Stop
  PROVE  Sound'
<1>1. want' = FALSE /\ UNCHANGED <<gate, inflight>>
  BY DEF Stop
<1>2. CASE state \in Active \union {"stopping"}
  <2>1. Halt
    BY <1>2 DEF Stop
  <2>2. Resting'
    BY <1>1, <2>1, HaltRests DEF Sound, Resting
  <2> QED BY <2>1, <2>2, HaltIsSound
<1>3. CASE state \notin Active \union {"stopping"}
  <2>1. state' = "stopped" /\ Keep
    BY <1>3 DEF Stop
  <2>2. Resting'
    BY <1>1, <2>1 DEF Sound, Resting, Keep, voice
  <2>3. state \in Idle \union {"failed"} /\ state' \in Idle
    BY <1>3, <2>1 DEF Sound, Moving, States, Idle
  <2> QED BY <2>1, <2>2, <2>3, IdleMoveKeeps
<1> QED BY <1>2, <1>3

\* An empty budget and the first backoff are of their types.
LEMMA FreshType ==
  Fresh \in [Slot -> 0 .. Window] /\ BackoffBase \in BackoffBase .. BackoffCap
<1>1. 0 \in 0 .. Window /\ BackoffBase \in BackoffBase .. BackoffCap
  BY TimeAssumption, SMT
<1> QED BY <1>1 DEF Fresh

\* restart_runtime: whoever ran is killed first, and a Ready state that is left
\* without a word is marked stale.
LEMMA RestartRuntimeKeeps ==
  ASSUME Sound, RestartRuntime
  PROVE  Sound'
<1>1. UNCHANGED <<gate, inflight>>
  BY DEF RestartRuntime
<1>2. CASE gate = "installed"
  <2>1. /\ want' = TRUE /\ Spawn(Killed, Fresh, BackoffBase)
        /\ stale' = (stale \/ state = "ready") /\ told' = told
    BY <1>2 DEF RestartRuntime
  <2>2. Resting'
    BY <1>1, <2>1 DEF Sound, Resting
  <2>3. Killed \in [Pid -> Status] /\ Quiet(Killed)
    BY KilledIsQuiet DEF Sound
  <2>4. (stale' = FALSE => stale = FALSE) /\ (stale' = FALSE => state # "ready")
    BY <2>1 DEF Sound, Resting
  <2> QED BY <2>1, <2>2, <2>3, <2>4, FreshType, SpawnKeeps
<1>3. CASE gate # "installed"
  <2>1. /\ lapse' = Fresh /\ delay' = BackoffBase
        /\ UNCHANGED <<state, want, child, probe, timer, phase, endpoint, told,
                       stale, reg, proc>>
    BY <1>3 DEF RestartRuntime, voice
  <2>2. Resting'
    BY <1>1, <2>1 DEF Sound, Resting
  <2>3. Moving'
    BY <2>1, FreshType DEF Sound, Moving
  <2>4. ChildInv' /\ Announced'
    BY <2>1 DEF Sound, ChildInv, Announced
  <2> QED BY <2>2, <2>3, <2>4 DEF Sound
<1> QED BY <1>2, <1>3

LEMMA InputsKeep ==
  ASSUME Sound, Inputs
  PROVE  Sound'
  BY SetGateKeeps, SetWantKeeps, StopKeeps, RestartRuntimeKeeps DEF Inputs

\* Time passing keeps the types of timers and budget.
LEMMA LessType ==
  ASSUME NEW n \in Nat, NEW m \in 0 .. n
  PROVE  Less(m) \in 0 .. n
  BY SMT DEF Less

\* Children, clients, probes and the clock leave the machine alone; they start
\* no process.
LEMMA WorldMoves ==
  ASSUME Moving, Resting, World
  PROVE  /\ Moving' /\ Resting'
         /\ UNCHANGED <<state, child, reg, endpoint, told, stale>>
         /\ \A p \in Pid : proc'[p] = "run" => proc[p] = "run"
<1>1. CASE \E o \in Outcomes : Answer(o)
  <2>1. PICK o \in Outcomes : Answer(o)
    BY <1>1
  <2>2. /\ probe' = o
        /\ UNCHANGED <<state, gate, want, child, timer, phase, lapse, delay,
                       endpoint, told, stale, inflight, proc, reg>>
    BY <2>1 DEF Answer, voice, world
  <2> QED BY <2>2 DEF Moving, Resting
<1>2. CASE Request \/ Response
  <2>1. /\ inflight' \in BOOLEAN
        /\ UNCHANGED <<state, gate, want, child, probe, timer, phase, lapse, delay,
                       endpoint, told, stale, proc, reg>>
    BY <1>2 DEF Request, Response, machine, voice
  <2> QED BY <2>1 DEF Moving, Resting
<1>3. CASE Elapse
  <2>1. /\ timer' = Less(timer) /\ lapse' = [i \in DOMAIN lapse |-> Less(lapse[i])]
        /\ UNCHANGED <<state, gate, want, child, probe, phase, delay,
                       endpoint, told, stale, inflight, proc, reg>>
    BY <1>3 DEF Elapse, voice, world
  <2>2. timer' \in 0 .. Longest
    BY <2>1, LessType, LongestBounds DEF Moving
  <2>3. Window \in Nat
    BY TimeAssumption
  <2>4. lapse' \in [Slot -> 0 .. Window]
    BY <2>1, <2>3, LessType DEF Moving
  <2> QED BY <2>1, <2>2, <2>4 DEF Moving, Resting
<1>4. CASE \E p \in Pid : Exit(p) \/ Die(p)
  <2>1. PICK p \in Pid : Ends(p)
    BY <1>4 DEF Exit, Die
  <2>2. /\ proc' = [proc EXCEPT ![p] = IF p = child THEN "exited" ELSE "free"]
        /\ UNCHANGED <<state, gate, want, child, probe, timer, phase, lapse, delay,
                       endpoint, told, stale, inflight, reg>>
    BY <2>1 DEF Ends, machine, voice
  <2>3. /\ proc' \in [Pid -> Status]
        /\ \A q \in Pid : proc'[q] = "run" => proc[q] = "run"
    BY <2>2 DEF Moving, Status
  <2> QED BY <2>2, <2>3 DEF Moving, Resting
<1> QED BY <1>1, <1>2, <1>3, <1>4 DEF World

LEMMA WorldKeeps ==
  ASSUME Sound, World
  PROVE  Sound'
<1>1. /\ Moving' /\ Resting'
      /\ UNCHANGED <<state, child, reg, endpoint, told, stale>>
      /\ \A p \in Pid : proc'[p] = "run" => proc[p] = "run"
  BY WorldMoves DEF Sound
<1>2. ChildInv' /\ Announced'
  BY <1>1 DEF Sound, ChildInv, Announced
<1> QED BY <1>1, <1>2 DEF Sound

\* The history variables keep their types.
LEMMA HistoryKeeps ==
  ASSUME History, Next
  PROVE  History'
<1>1. 0 \in 0 .. Pace /\ Pace \in Nat
  BY PaceIsPositive, SMT
<1>2. UNCHANGED <<recent, owed>> => History'
  BY DEF History
<1>3. Past => History'
  BY DEF Past, History
<1>4. CASE Tick
  <2>1. CASE TickBackoff
    <3>1. recent' \in {recent, Claim(recent, Pace)} /\ owed' = FALSE
      BY <2>1 DEF TickBackoff
    <3>2. Claim(recent, Pace) \in [1 .. MaxAttempts + 1 -> 0 .. Pace]
      BY <1>1, ClaimType DEF History
    <3> QED BY <3>1, <3>2 DEF History
  <2>2. CASE TickStopping
    BY <2>2, <1>2 DEF TickStopping, past
  <2>3. CASE TickStarting \/ TickReady
    <3>1. \/ \E pr : Restart(pr)
          \/ \E to : Probe(to)
          \/ EnterReady
      BY <2>3 DEF TickStarting, TickReady
    <3> QED BY <3>1, <1>2, <1>3 DEF Restart, Probe, EnterReady, past
  <2> QED BY <1>4, <2>1, <2>2, <2>3 DEF Tick
<1>5. CASE Inputs
  <2>1. CASE RestartRuntime
    <3>1. recent' = [i \in DOMAIN recent |-> 0] /\ owed' \in BOOLEAN
      BY <2>1 DEF RestartRuntime
    <3> QED BY <3>1, <1>1 DEF History
  <2>2. CASE ~RestartRuntime
    <3>1. Past
      BY <1>5, <2>2 DEF Inputs, SetGate, SetWant, Stop
    <3> QED BY <3>1, <1>3
  <2> QED BY <2>1, <2>2
<1>6. CASE World
  <2>1. CASE Elapse
    <3>1. recent' = [i \in DOMAIN recent |-> Less(recent[i])] /\ owed' = owed
      BY <2>1 DEF Elapse
    <3> QED BY <3>1, <1>1, LessType DEF History
  <2>2. CASE ~Elapse
    <3>1. UNCHANGED <<recent, owed>>
      BY <1>6, <2>2 DEF World, Answer, Request, Response, Exit, Die, Ends, past
    <3> QED BY <3>1, <1>2
  <2> QED BY <2>1, <2>2
<1> QED BY <1>4, <1>5, <1>6 DEF Next

-----------------------------------------------------------------------------
(* Theorems. *)

\* The initial machine is sound.
LEMMA InitIsSound == Init => Sound /\ History
<1> SUFFICES ASSUME Init PROVE Sound /\ History
  OBVIOUS
<1>1. 0 \in 0 .. Longest /\ 0 \in 0 .. Pace
  BY LongestBounds, PaceIsPositive, SMT
<1>2. Moving
  BY <1>1, FreshType DEF Init, MachineInit, Moving, States, Idle, Status
<1>3. Resting
  BY DEF Init, MachineInit, Resting, AllGates
<1>4. ChildInv
  BY DEF Init, MachineInit, ChildInv, Holding
<1>5. Announced
  BY DEF Init, MachineInit, Announced
<1>6. History
  BY <1>1 DEF Init, History
<1> QED BY <1>2, <1>3, <1>4, <1>5, <1>6 DEF Sound

\* The invariant is inductive, and holds throughout.
THEOREM SoundThroughout == Spec => [](Sound /\ History)
<1>1. Sound /\ History /\ [Next]_svars => (Sound /\ History)'
  <2> SUFFICES ASSUME Sound, History, [Next]_svars PROVE (Sound /\ History)'
    OBVIOUS
  <2>1. CASE Next
    <3>1. Sound'
      BY <2>1, TickKeeps, InputsKeep, WorldKeeps DEF Next
    <3> QED BY <2>1, <3>1, HistoryKeeps
  <2>2. CASE UNCHANGED svars
    <3>1. UNCHANGED <<state, gate, want, child, probe, timer, phase, lapse, delay,
                      endpoint, told, stale, inflight, proc, reg, recent, owed>>
      BY <2>2 DEF svars, machine, voice, world, past
    <3>2. Moving' /\ Resting' /\ ChildInv' /\ Announced' /\ History'
      BY <3>1 DEF Sound, Moving, Resting, ChildInv, Announced, History
    <3> QED BY <3>2 DEF Sound
  <2> QED BY <2>1, <2>2
<1> QED BY <1>1, InitIsSound, PTL DEF Spec

\* The variables of the machine stay in their types, whatever the times and the
\* budget: the backoff is capped, and timers and budget never leave their ranges.
THEOREM TypeCorrect == Spec => []TypeOK
<1>1. Sound /\ History => TypeOK
  BY TypeParts DEF Sound
<1> QED BY <1>1, SoundThroughout, PTL

\* No path through restart, stop, superseded start or failed spawn lets go of a
\* child that still runs, and children.json always names the one that does.
THEOREM NoChildLetGo == Spec => []NoOrphan
<1>1. Sound => NoOrphan
  BY DEF Sound, ChildInv, NoOrphan
<1> QED BY <1>1, SoundThroughout, PTL

\* Endpoint cell, last readiness event and state agree on every path, except
\* after a restart of the runtime in Ready.
THEOREM ReadinessIsHonest == Spec => []Announced
<1>1. Sound => Announced
  BY DEF Sound
<1> QED BY <1>1, SoundThroughout, PTL

-----------------------------------------------------------------------------
(* The pace of restarts.                                                     *)
(*                                                                           *)
(* A respawn that RespawnPace counts was paid for by a slot of the budget    *)
(* that stays taken longer than the respawn is counted, and no slot pays     *)
(* twice; so the respawns counted cannot outnumber the slots.                *)

Recents == 1 .. MaxAttempts + 1

\* f names the slot that paid for each respawn that still counts.
Matches(f) ==
  /\ f \in [Recents -> Slot]
  /\ \A i \in Recents : recent[i] # 0 => lapse[f[i]] >= recent[i]
  /\ \A i, j \in Recents : recent[i] # 0 /\ recent[j] # 0 /\ f[i] = f[j] => i = j

\* s pays for the respawn at the end of this backoff.
Spare(f, s) ==
  /\ s \in Slot /\ lapse[s] >= Pace + timer
  /\ \A i \in Recents : recent[i] # 0 => f[i] # s

Paced(f) == Matches(f) /\ (state = "backoff" /\ ~owed => \E s : Spare(f, s))

PaceInv == \E f : Paced(f)

\* What is used of the types.
PaceTypes ==
  /\ Moving /\ History

LEMMA PaceArithmetic ==
  /\ Pace \in Nat \ {0} /\ Window \in Nat /\ BackoffCap \in Nat
  /\ \A d \in BackoffBase .. BackoffCap : d \in Nat /\ Window >= Pace + d
  BY TimeAssumption, SMT DEF Pace

\* A budget that is not spent gives up one free slot.
LEMMA ClaimSlot ==
  ASSUME NEW f, NEW n, ~Spent(f)
  PROVE  \E i \in DOMAIN f : f[i] = 0 /\ Claim(f, n) = [f EXCEPT ![i] = n]
<1>1. \E i : i \in DOMAIN f /\ f[i] = 0
  BY DEF Spent
<1> DEFINE i == CHOOSE i \in DOMAIN f : f[i] = 0
<1>2. i \in DOMAIN f /\ f[i] = 0
  BY <1>1
<1>3. Claim(f, n) = [f EXCEPT ![i] = n]
  BY Zenon DEF Claim
<1> QED BY <1>2, <1>3

\* begin_restart pays for the respawn to come with a slot that paid for none.
LEMMA ReschedulePaced ==
  ASSUME PaceTypes, NEW f, Matches(f), NEW pr, NEW d \in BackoffBase .. BackoffCap,
         Reschedule(pr, lapse, d), recent' = recent
  PROVE  Paced(f)'
<1>1. CASE Spent(lapse)
  <2>1. state' = "failed" /\ lapse' = lapse
    BY <1>1 DEF Reschedule
  <2> QED BY <2>1 DEF Paced, Matches
<1>2. CASE ~Spent(lapse)
  <2>1. lapse' = Claim(lapse, Window) /\ timer' = d
    BY <1>2 DEF Reschedule
  <2>2. PICK s \in DOMAIN lapse : lapse[s] = 0 /\ lapse' = [lapse EXCEPT ![s] = Window]
    BY <1>2, <2>1, ClaimSlot
  <2>3. lapse \in [Slot -> Nat] /\ s \in Slot /\ recent \in [Recents -> Nat]
    BY PaceArithmetic DEF PaceTypes, Moving, History, Recents
  <2>4. \A i \in Recents : recent[i] # 0 => f[i] # s
    BY <2>2, <2>3 DEF Matches
  <2>5. Matches(f)'
    BY <2>2, <2>3, <2>4 DEF Matches
  <2>6. Spare(f, s)'
    BY <2>1, <2>2, <2>3, <2>4, PaceArithmetic DEF Spare
  <2> QED BY <2>5, <2>6 DEF Paced
<1> QED BY <1>1, <1>2

\* enter_spawning pays only when it fails.
LEMMA SpawnPaced ==
  ASSUME PaceTypes, NEW f, Matches(f), NEW pr, NEW d \in BackoffBase .. BackoffCap,
         Spawn(pr, lapse, d), recent' = recent
  PROVE  Paced(f)'
<1>1. CASE Reschedule(pr, lapse, d)
  BY <1>1, ReschedulePaced
<1>2. CASE ~Reschedule(pr, lapse, d)
  <2>1. state' \in {"failed", "starting"} /\ lapse' = lapse
    BY <1>2 DEF Spawn
  <2> QED BY <2>1 DEF Paced, Matches
<1> QED BY <1>1, <1>2

\* A user's restart clears both accounts.
LEMMA FreshPaced ==
  ASSUME PaceTypes, RestartRuntime
  PROVE  PaceInv'
<1> DEFINE f == [i \in Recents |-> 1]
<1>1. 1 \in Slot /\ DOMAIN recent = Recents
  BY TimeAssumption, SMT DEF Slot, PaceTypes, History, Recents
<1>2. \A i \in Recents : recent'[i] = 0
  BY <1>1 DEF RestartRuntime
<1>3. Matches(f)'
  BY <1>1, <1>2 DEF Matches
<1>4. CASE gate = "installed"
  <2>1. Spawn(Killed, Fresh, BackoffBase)
    BY <1>4 DEF RestartRuntime
  <2>2. CASE Reschedule(Killed, Fresh, BackoffBase)
    <3>1. ~Spent(Fresh) /\ DOMAIN Fresh = Slot
      BY <1>1 DEF Spent, Fresh
    <3>2. lapse' = Claim(Fresh, Window) /\ timer' = BackoffBase
      BY <2>2, <3>1 DEF Reschedule
    <3>3. PICK s \in Slot : lapse' = [Fresh EXCEPT ![s] = Window]
      BY <3>1, <3>2, ClaimSlot
    <3>4. lapse'[s] = Window
      BY <3>1, <3>3
    <3>5. Spare(f, s)'
      BY <1>2, <3>2, <3>4, PaceArithmetic, FreshType DEF Spare
    <3> QED BY <1>3, <3>5 DEF PaceInv, Paced
  <2>3. CASE ~Reschedule(Killed, Fresh, BackoffBase)
    <3>1. state' \in {"failed", "starting"}
      BY <2>1, <2>3 DEF Spawn
    <3> QED BY <1>3, <3>1 DEF PaceInv, Paced
  <2> QED BY <2>2, <2>3
<1>5. CASE gate # "installed"
  <2>1. state' = state /\ owed' = (state = "backoff")
    BY <1>5 DEF RestartRuntime
  <2> QED BY <1>3, <2>1 DEF PaceInv, Paced
<1> QED BY <1>4, <1>5

\* Time passes on both accounts and on the backoff alike.
LEMMA ElapsePaced ==
  ASSUME PaceTypes, NEW f, Paced(f), Elapse
  PROVE  Paced(f)'
<1>1. /\ timer' = Less(timer) /\ state' = state /\ owed' = owed
      /\ lapse' = [i \in Slot |-> Less(lapse[i])]
      /\ recent' = [i \in Recents |-> Less(recent[i])]
  BY DEF Elapse, PaceTypes, Moving, History, Recents
<1>2. /\ timer \in Nat /\ lapse \in [Slot -> Nat] /\ recent \in [Recents -> Nat]
      /\ f \in [Recents -> Slot]
  BY LongestBounds, PaceArithmetic
     DEF PaceTypes, Moving, History, Recents, Paced, Matches
<1>3. state = "backoff" => timer # 0
  BY DEF Elapse, Due
<1>4. \A i \in Recents : recent'[i] # 0 => recent[i] # 0 /\ recent'[i] = recent[i] - 1
  BY <1>1, <1>2 DEF Less
<1>5. \A s \in Slot : lapse[s] # 0 => lapse'[s] = lapse[s] - 1
  BY <1>1, <1>2 DEF Less
<1>6. ASSUME NEW i \in Recents, recent'[i] # 0
      PROVE  lapse'[f[i]] >= recent'[i]
  <2>1. /\ f[i] \in Slot /\ lapse[f[i]] \in Nat /\ recent[i] \in Nat
        /\ recent[i] # 0 /\ recent'[i] = recent[i] - 1
    BY <1>2, <1>4, <1>6
  <2>2. lapse[f[i]] >= recent[i]
    BY <2>1 DEF Paced, Matches
  <2>3. lapse[f[i]] # 0
    BY <2>1, <2>2, SMT
  <2>4. lapse'[f[i]] = lapse[f[i]] - 1
    BY <1>5, <2>1, <2>3
  <2> QED BY <2>1, <2>2, <2>4, SMT
<1>7. Matches(f)'
  BY <1>2, <1>4, <1>6 DEF Paced, Matches
<1>8. ASSUME state' = "backoff", ~owed'
      PROVE  \E s : Spare(f, s)'
  <2>1. PICK s : Spare(f, s)
    BY <1>1, <1>8 DEF Paced
  <2>2. /\ s \in Slot /\ lapse[s] \in Nat /\ lapse[s] >= Pace + timer /\ Pace \in Nat \ {0}
        /\ timer # 0
    BY <1>1, <1>2, <1>3, <1>8, <2>1, PaceArithmetic DEF Spare
  <2>3. lapse[s] # 0 /\ timer' = timer - 1
    BY <1>1, <1>2, <2>2, SMT DEF Less
  <2>4. lapse'[s] = lapse[s] - 1
    BY <1>5, <2>2, <2>3
  <2>5. lapse'[s] >= Pace + timer'
    BY <1>2, <2>2, <2>3, <2>4, SMT
  <2>6. \A i \in Recents : recent'[i] # 0 => f[i] # s
    BY <1>4, <2>1 DEF Spare
  <2> QED BY <2>2, <2>5, <2>6 DEF Spare
<1> QED BY <1>7, <1>8 DEF Paced

\* A respawn is counted with the slot that paid for it.
LEMMA BackoffPaced ==
  ASSUME PaceTypes, NEW f, Paced(f), TickBackoff
  PROVE  PaceInv'
<1>1. /\ state = "backoff" /\ timer = 0 /\ Spawn(proc, lapse, delay)
      /\ recent' = IF state' = "starting" /\ ~owed THEN Claim(recent, Pace) ELSE recent
      /\ owed' = FALSE /\ Matches(f) /\ delay \in BackoffBase .. BackoffCap
  BY DEF TickBackoff, Paced, PaceTypes, Moving
<1>2. CASE ~(state' = "starting" /\ ~owed) \/ Spent(recent)
  <2>1. recent' = recent
    BY <1>1, <1>2 DEF Claim
  <2> QED BY <1>1, <2>1, SpawnPaced DEF PaceInv
<1>3. CASE state' = "starting" /\ ~owed /\ ~Spent(recent)
  <2>1. lapse' = lapse
    BY <1>1, <1>3 DEF Spawn, Reschedule
  <2>2. PICK s : Spare(f, s)
    BY <1>1, <1>3 DEF Paced
  <2>3. DOMAIN recent = Recents /\ recent \in [Recents -> Nat] /\ lapse \in [Slot -> Nat]
    BY PaceArithmetic DEF PaceTypes, History, Recents, Moving
  <2>4. PICK k \in Recents : recent[k] = 0 /\ recent' = [recent EXCEPT ![k] = Pace]
    BY <1>1, <1>3, <2>3, ClaimSlot
  <2> DEFINE g == [f EXCEPT ![k] = s]
  <2>5. g \in [Recents -> Slot] /\ g[k] = s /\ \A i \in Recents : i # k => g[i] = f[i]
    BY <1>1, <2>2 DEF Matches, Spare
  <2>6. recent'[k] = Pace /\ \A i \in Recents : i # k => recent'[i] = recent[i]
    BY <2>3, <2>4
  <2>7. lapse[s] >= Pace
    BY <1>1, <2>2, <2>3, PaceArithmetic DEF Spare
  <2>8. \A i \in Recents : recent'[i] # 0 => lapse'[g[i]] >= recent'[i]
    BY <1>1, <2>1, <2>5, <2>6, <2>7 DEF Matches
  <2>9. \A i, j \in Recents : recent'[i] # 0 /\ recent'[j] # 0 /\ g[i] = g[j] => i = j
    BY <1>1, <2>2, <2>5, <2>6 DEF Matches, Spare
  <2>10. Matches(g)'
    BY <2>5, <2>8, <2>9 DEF Matches
  <2> QED BY <1>3, <2>10 DEF PaceInv, Paced
<1> QED BY <1>2, <1>3

\* Steps that touch neither account and begin no backoff.
LEMMA QuietPaced ==
  ASSUME NEW f, Paced(f), lapse' = lapse, recent' = recent,
         state' = "backoff" /\ ~owed' => state = "backoff" /\ ~owed /\ timer' = timer
  PROVE  Paced(f)'
  BY DEF Paced, Matches, Spare

LEMMA HaltPaced ==
  ASSUME NEW f, Paced(f), Halt, Past
  PROVE  Paced(f)'
<1>1. recent' = recent /\ owed' = (owed /\ state = "backoff" /\ state' = "backoff")
  BY DEF Past
<1>2. lapse' = lapse
  BY DEF Halt, BeginStop, Keep
<1>3. state \in Active => state' # "backoff"
  BY DEF Halt, BeginStop, FinishStop
<1>4. state \notin Active => state' = state
  BY DEF Halt
<1> QED BY <1>1, <1>2, <1>3, <1>4, QuietPaced DEF Active

LEMMA NextPaced ==
  ASSUME PaceTypes, NEW f, Paced(f), Next
  PROVE  PaceInv'
<1> DEFINE Steady == /\ lapse' = lapse /\ recent' = recent
                     /\ state' = "backoff" /\ ~owed' =>
                          state = "backoff" /\ ~owed /\ timer' = timer
<1>1. Steady => PaceInv'
  BY QuietPaced DEF PaceInv
<1>2. delay \in BackoffBase .. BackoffCap /\ Matches(f)
  BY DEF PaceTypes, Moving, Paced
<1>3. ASSUME NEW pr, Restart(pr)
      PROVE  PaceInv'
  BY <1>2, <1>3, ReschedulePaced DEF Restart, Past, PaceInv
<1>4. ASSUME Spawn(proc, lapse, delay), Past
      PROVE  PaceInv'
  BY <1>2, <1>4, SpawnPaced DEF Past, PaceInv
<1>5. ASSUME Keep, Past, state' # "backoff" \/ state' = state
      PROVE  PaceInv'
  BY <1>1, <1>5 DEF Keep, Past
<1>6. Halt /\ Past => PaceInv'
  BY HaltPaced DEF PaceInv
<1>7. CASE Tick
  <2>1. CASE TickBackoff
    BY <2>1, BackoffPaced
  <2>2. CASE TickStopping
    <3>1. lapse' = lapse /\ recent' = recent /\ state' # "backoff"
      BY <2>2 DEF TickStopping, FinishStop, past
    <3> QED BY <1>1, <3>1
  <2>3. CASE TickStarting \/ TickReady
    <3>1. \/ \E pr : Restart(pr)
          \/ \E to : Probe(to)
          \/ EnterReady
      BY <2>3 DEF TickStarting, TickReady
    <3>2. (\E to : Probe(to)) \/ EnterReady => Steady
      BY DEF Probe, EnterReady, past
    <3> QED BY <1>1, <1>3, <3>1, <3>2
  <2> QED BY <1>7, <2>1, <2>2, <2>3 DEF Tick
<1>8. CASE Inputs
  <2>1. ASSUME NEW g \in Gates, SetGate(g)
        PROVE  PaceInv'
    <3>1. Past /\ g \in AllGates
      BY <2>1, GateAssumption DEF SetGate
    <3>2. \/ Spawn(proc, lapse, delay)
          \/ Keep /\ (state' = state \/ state' \in {"stopped", g})
      BY <2>1 DEF SetGate
    <3>3. g # "backoff"
      BY <3>1 DEF AllGates
    <3> QED BY <1>4, <1>5, <3>1, <3>2, <3>3
  <2>2. ASSUME NEW run \in BOOLEAN, SetWant(run)
        PROVE  PaceInv'
    <3>1. Past /\ (Halt \/ Spawn(proc, lapse, delay) \/ (Keep /\ state' = state))
      BY <2>2 DEF SetWant
    <3> QED BY <1>4, <1>5, <1>6, <3>1
  <2>3. CASE Stop
    <3>1. Past /\ (Halt \/ (Keep /\ state' = "stopped"))
      BY <2>3 DEF Stop
    <3> QED BY <1>5, <1>6, <3>1
  <2>4. CASE RestartRuntime
    BY <2>4, FreshPaced
  <2> QED BY <1>8, <2>1, <2>2, <2>3, <2>4 DEF Inputs
<1>9. CASE World
  <2>1. CASE Elapse
    BY <2>1, ElapsePaced DEF PaceInv
  <2>2. CASE ~Elapse
    <3>1. Steady
      BY <1>9, <2>2 DEF World, Answer, Request, Response, Exit, Die, Ends, past, machine
    <3> QED BY <1>1, <3>1
  <2> QED BY <2>1, <2>2
<1> QED BY <1>7, <1>8, <1>9 DEF Next

\* More respawns than slots cannot be matched with slots.
LEMMA PaceBounds ==
  ASSUME PaceTypes, PaceInv
  PROVE  RespawnPace
<1> SUFFICES ASSUME Spent(recent) PROVE FALSE
  BY DEF RespawnPace
<1>1. PICK f : Matches(f)
  BY DEF PaceInv, Paced
<1>2. \A i \in Recents : recent[i] # 0
  BY DEF Spent, PaceTypes, History, Recents
<1>3. MaxAttempts \in Nat \ {0}
  BY TimeAssumption
<1>4. /\ IsFiniteSet(Recents) /\ Cardinality(Recents) = MaxAttempts + 1
      /\ IsFiniteSet(Slot) /\ Cardinality(Slot) = MaxAttempts
  BY <1>3, FS_Interval DEF Recents, Slot
<1>5. f \in [Recents -> Slot] /\ Cardinality(Slot) < Cardinality(Recents)
  BY <1>1, <1>3, <1>4 DEF Matches
<1>6. \E i, j \in Recents : i # j /\ f[i] = f[j]
  BY <1>4, <1>5, FS_PigeonHole
<1> QED BY <1>1, <1>2, <1>6 DEF Matches

\* No stretch of time shorter than the window less the longest backoff sees more
\* respawns than the budget has slots (begin_restart), whatever the budget, the
\* backoff and the order of exits, gates, stops and probes.
THEOREM RespawnsArePaced == Spec => []RespawnPace
<1>1. Sound /\ History => PaceTypes
  BY DEF Sound, PaceTypes
<1>2. Init => PaceInv
  <2> SUFFICES ASSUME Init PROVE PaceInv
    OBVIOUS
  <2> DEFINE f == [i \in Recents |-> 1]
  <2>1. 1 \in Slot
    BY TimeAssumption, SMT DEF Slot
  <2>2. Matches(f) /\ state # "backoff"
    BY <2>1 DEF Init, MachineInit, Matches, Recents
  <2> QED BY <2>2 DEF PaceInv, Paced
<1>3. PaceInv /\ PaceTypes /\ [Next]_svars => PaceInv'
  <2> SUFFICES ASSUME PaceInv, PaceTypes, [Next]_svars PROVE PaceInv'
    OBVIOUS
  <2>1. PICK f : Paced(f)
    BY DEF PaceInv
  <2>2. CASE UNCHANGED svars
    BY <2>1, <2>2, QuietPaced DEF PaceInv, svars, machine, past
  <2> QED BY <2>1, <2>2, NextPaced
<1>4. PaceInv /\ PaceTypes => RespawnPace
  BY PaceBounds
<1> QED BY <1>1, <1>2, <1>3, <1>4, SoundThroughout, PTL DEF Spec

-----------------------------------------------------------------------------
(* One role of the host.                                                     *)

\* The host's own variables.
HostTypes ==
  /\ plan \in AnyTarget /\ desired \in AnyTarget /\ current \in AnyTarget
  /\ owner \in [Pid -> AnyTarget]
  /\ call \in [Caller -> AnyTarget \union {Nothing}]
  /\ stop \in BOOLEAN
  /\ ticker \in {"run", "close", "done", "off"}
  /\ late \subseteq Caller
  /\ used \in [plans : 0 .. MaxPlans, restarts : 0 .. MaxRestarts,
               launches : 0 .. MaxLaunches]

NoCalls == \A c \in Caller : call[c] = Nothing

\* What a program that has ended leaves behind: no machine, and at most the
\* child that children.json names; it may be launched again.
Left ==
  /\ Moving /\ Resting /\ Announced
  /\ child = None /\ state = "notConfigured" /\ NoCalls
  /\ \A p \in Pid : proc[p] = "run" => p = reg
  /\ used.launches < MaxLaunches

Running == IF On THEN Sound ELSE Left

\* The child runs the slot's target, an empty slot has no machine, and a
\* superseded one is on its way out.
Following ==
  /\ child # None => owner[child] = current
  /\ current = None => state = "notConfigured"
  /\ desired # current => state \in {"stopping", "stopped", "notConfigured"}

\* The thread closes only when told, and is done only without a child; a caller
\* that is still in its call by then is one that the gate gave up on.
Ending ==
  /\ ticker \in {"close", "done"} => stop
  /\ stop /\ On => \A c \in Caller \ late : call[c] = Nothing
  /\ ticker = "done" /\ late = {} => child = None

HostInv == HostTypes /\ Running /\ Following /\ Ending

\* Whatever this step starts runs the target the role should run.
StartsDesired ==
  \A p \in Pid : proc[p] # "run" /\ proc'[p] = "run" => owner'[p] = desired'

\* This step starts nothing.
StartsNothing == \A p \in Pid : proc'[p] = "run" => proc[p] = "run"

-----------------------------------------------------------------------------
(* Who runs what. *)

\* Without a start the owners stay as they are.
LEMMA OwnersStay ==
  ASSUME HostTypes, StartsNothing, Own
  PROVE  owner' = owner /\ StartsDesired
<1>1. \A p \in Pid : ~(proc'[p] = "run" /\ proc[p] = "free")
  BY DEF StartsNothing
<1>2. owner' = [p \in Pid |-> owner[p]]
  BY <1>1 DEF Own
<1> QED BY <1>2 DEF HostTypes, StartsNothing, StartsDesired

\* A spawn gives the child it starts to the target in the slot; a process table
\* entry that the same step freed was that target's already.
LEMMA SpawnOwns ==
  ASSUME HostTypes, Moving, NEW pr \in [Pid -> Status], Quiet(pr), NEW l, NEW d,
         Spawn(pr, l, d), Own,
         \A p \in Pid : pr[p] = "free" /\ proc[p] # "free" => owner[p] = current'
  PROVE  /\ child' # None => owner'[child'] = current'
         /\ \A p \in Pid : proc[p] # "run" /\ proc'[p] = "run" => owner'[p] = current'
<1>1. \/ child' = None /\ proc' = pr
      \/ \E p \in Pid : pr[p] = "free" /\ proc' = [pr EXCEPT ![p] = "run"] /\ child' = p
  BY DEF Spawn, Reschedule
<1>2. CASE child' = None /\ proc' = pr
  BY <1>2 DEF Quiet
<1>3. CASE \E p \in Pid : pr[p] = "free" /\ proc' = [pr EXCEPT ![p] = "run"] /\ child' = p
  <2>1. PICK p \in Pid : pr[p] = "free" /\ proc' = [pr EXCEPT ![p] = "run"] /\ child' = p
    BY <1>3
  <2>2. proc'[p] = "run" /\ \A q \in Pid : proc'[q] = "run" => q = p
    BY <2>1 DEF Quiet
  <2>3. owner'[p] = IF proc[p] = "free" THEN current' ELSE owner[p]
    BY <2>2 DEF Own
  <2>4. owner'[p] = current'
    BY <2>1, <2>3
  <2> QED BY <2>1, <2>2, <2>4
<1> QED BY <1>1, <1>2, <1>3

\* Only a backoff that is over starts a child by itself; any other tick keeps
\* the child or lets go of it.
LEMMA TickStarts ==
  ASSUME Sound, Tick, state # "backoff"
  PROVE  StartsNothing /\ child' \in {child, None}
<1>1. Killed \in [Pid -> Status] /\ Quiet(Killed)
  BY KilledIsQuiet DEF Sound
<1>2. ASSUME Exited
      PROVE  Reaped \in [Pid -> Status] /\ Quiet(Reaped)
  BY <1>2, KilledIsQuiet DEF Sound, Exited
<1>3. CASE TickStarting \/ TickReady
  <2>1. \/ Exited /\ Restart(Reaped)
        \/ Restart(Killed)
        \/ \E to : Probe(to)
        \/ EnterReady
    BY <1>3 DEF TickStarting, TickReady
  <2>2. CASE (Exited /\ Restart(Reaped)) \/ Restart(Killed)
    <3>1. child' = None /\ Quiet(proc')
      BY <1>1, <1>2, <2>2 DEF Restart, Reschedule
    <3> QED BY <3>1 DEF Quiet, StartsNothing
  <2>3. CASE (\E to : Probe(to)) \/ EnterReady
    <3>1. proc' = proc /\ child' = child
      BY <2>3 DEF Probe, EnterReady, world
    <3> QED BY <3>1 DEF StartsNothing
  <2> QED BY <2>1, <2>2, <2>3
<1>4. CASE TickStopping
  <2>1. CASE UNCHANGED <<child, proc>>
    BY <2>1 DEF StartsNothing
  <2>2. CASE Exited /\ FinishStop(Reaped)
    BY <1>2, <2>2 DEF FinishStop, Quiet, StartsNothing
  <2>3. CASE proc' = [proc EXCEPT ![child] = "dying"] /\ child' = child
    BY <2>3 DEF StartsNothing, Sound, Moving
  <2> QED BY <1>4, <2>1, <2>2, <2>3 DEF TickStopping
<1> QED BY <1>3, <1>4 DEF Tick, TickBackoff

\* Stops and the world start nothing.
LEMMA OthersStartNothing ==
  ASSUME Sound
  PROVE  /\ Halt \/ Stop => proc' = proc /\ child' \in {child, None}
         /\ World => StartsNothing /\ child' = child /\ state' = state
<1>1. Halt => proc' = proc /\ child' \in {child, None}
  BY DEF Halt, BeginStop, FinishStop, Keep
<1>2. Stop => proc' = proc /\ child' \in {child, None}
  BY <1>1 DEF Stop, Keep
<1>3. ASSUME World
      PROVE  StartsNothing /\ child' = child /\ state' = state
  BY <1>3, WorldMoves DEF Sound, StartsNothing
<1> QED BY <1>1, <1>2, <1>3
-----------------------------------------------------------------------------
(* converge_role. *)

\* What a call must show of the step it makes: the machine stays sound, the
\* slot is followed, and what starts is desired.
Kept ==
  Sound' /\ Following' /\ StartsDesired /\ owner' \in [Pid -> AnyTarget]

LEMMA OwnType ==
  ASSUME HostTypes, Own, current' \in AnyTarget
  PROVE  owner' \in [Pid -> AnyTarget]
  BY DEF HostTypes, Own

\* A step that neither starts a child nor takes another one keeps its owner.
LEMMA OwnerFollows ==
  ASSUME HostTypes, Following, Own, StartsNothing, child' \in {child, None},
         current' = current
  PROVE  (child' # None => owner'[child'] = current') /\ StartsDesired
  BY OwnersStay DEF Following

\* The slot is emptied under a machine that holds nothing afterwards.
LEMMA VacateKeeps ==
  ASSUME Sound, HostTypes, Own, Vacate, child' = None, reg' = None,
         UNCHANGED <<endpoint, told, stale, inflight>>, state # "ready",
         proc' \in [Pid -> Status], Quiet(proc')
  PROVE  Kept
<1>1. /\ current' = None /\ want' = FALSE /\ gate' = "notConfigured"
      /\ state' = "notConfigured" /\ phase' = "none"
      /\ lapse' = Fresh /\ delay' = BackoffBase /\ timer' = 0 /\ probe' = "none"
  BY DEF Vacate
<1>2. 0 \in 0 .. Longest
  BY LongestBounds, SMT
<1>3. Moving'
  BY <1>1, <1>2, FreshType DEF Sound, Moving, States, Idle
<1>4. Resting'
  BY <1>1 DEF Sound, Resting, AllGates
<1>5. ChildInv'
  BY <1>1 DEF ChildInv, Quiet, Holding
<1>6. Announced'
  BY <1>1 DEF Sound, Announced
<1>7. Following'
  BY <1>1 DEF Following
<1>8. StartsNothing
  BY DEF StartsNothing, Quiet
<1>9. StartsDesired
  BY <1>8, OwnersStay
<1>10. owner' \in [Pid -> AnyTarget]
  BY <1>1, OwnType DEF AnyTarget
<1> QED BY <1>3, <1>4, <1>5, <1>6, <1>7, <1>9, <1>10 DEF Kept, Sound

LEMMA RearmKeeps ==
  ASSUME Sound, HostTypes, Following, current # None, desired' = current, Rearm, Own
  PROVE  Kept
<1>1. gate' = "installed" /\ want' = TRUE /\ UNCHANGED <<current, inflight>>
  BY DEF Rearm
<1>2. owner' \in [Pid -> AnyTarget]
  BY <1>1, OwnType DEF HostTypes
<1>3. CASE state \in Idle
  <2>1. Spawn(proc, lapse, delay) /\ UNCHANGED <<told, stale>>
    BY <1>3 DEF Rearm
  <2>2. Resting'
    BY <1>1, <2>1 DEF Sound, Resting, AllGates
  <2>3. Sound'
    BY <1>3, <2>1, <2>2, IdleSpawnKeeps
  <2>4. Quiet(proc) /\ proc \in [Pid -> Status]
    BY <1>3, ChildlessIsQuiet DEF Sound, ChildInv, Holding, Idle, Moving
  <2>5. /\ child' # None => owner'[child'] = current'
        /\ \A p \in Pid : proc[p] # "run" /\ proc'[p] = "run" => owner'[p] = current'
    BY <2>1, <2>4, SpawnOwns DEF Sound
  <2> QED BY <1>1, <1>2, <2>3, <2>5 DEF Kept, Following, StartsDesired
<1>4. CASE state \notin Idle
  <2>1. state' = state /\ Keep
    BY <1>4 DEF Rearm
  <2>2. Resting'
    BY <1>1, <2>1 DEF Sound, Resting, AllGates, Keep, voice
  <2>3. Sound'
    BY <2>1, <2>2, KeepKeeps
  <2>4. StartsNothing /\ child' = child
    BY <2>1 DEF Keep, StartsNothing
  <2> QED BY <1>1, <1>2, <2>3, <2>4, OwnerFollows DEF Kept, Following
<1> QED BY <1>3, <1>4

LEMMA RetireKeeps ==
  ASSUME Sound, HostTypes, Following, state \in Holding, Retire, Own
  PROVE  Kept
<1>1. want' = FALSE /\ Halt /\ UNCHANGED <<current, gate, inflight>>
  BY DEF Retire
<1>2. Resting'
  BY <1>1, HaltRests DEF Sound, Resting
<1>3. Sound'
  BY <1>1, <1>2, HaltIsSound
<1>4. StartsNothing /\ child' \in {child, None}
  BY <1>1, OthersStartNothing DEF StartsNothing
<1>5. state' = "stopping"
  BY <1>1 DEF Halt, BeginStop, Sound, ChildInv, Active, Holding
<1>6. current # None
  BY DEF Following, Holding
<1>7. owner' \in [Pid -> AnyTarget]
  BY <1>1, OwnType DEF HostTypes
<1> QED BY <1>1, <1>3, <1>4, <1>5, <1>6, <1>7, OwnerFollows DEF Kept, Following

LEMMA BuildKeeps ==
  ASSUME Sound, HostTypes, state \notin Holding, NEW d \in Target, desired' = d,
         Build(d), Own
  PROVE  Kept
<1>1. /\ current' = d /\ want' = TRUE /\ gate' = "installed"
      /\ Spawn(proc, Fresh, BackoffBase)
      /\ UNCHANGED <<told, stale, inflight>>
  BY DEF Build
<1>2. Quiet(proc) /\ proc \in [Pid -> Status]
  BY ChildlessIsQuiet DEF Sound, ChildInv, Moving
<1>3. Resting'
  BY <1>1 DEF Sound, Resting, AllGates
<1>4. state # "ready"
  BY DEF Holding
<1>5. Sound'
  BY <1>1, <1>2, <1>3, <1>4, FreshType, SpawnKeeps
<1>6. /\ child' # None => owner'[child'] = current'
      /\ \A p \in Pid : proc[p] # "run" /\ proc'[p] = "run" => owner'[p] = current'
  BY <1>1, <1>2, SpawnOwns DEF Sound
<1>7. owner' \in [Pid -> AnyTarget]
  BY <1>1, OwnType DEF AnyTarget
<1>8. Following'
  BY <1>1, <1>6, TargetAssumption DEF Following
<1> QED BY <1>1, <1>5, <1>6, <1>7, <1>8 DEF Kept, StartsDesired

\* converge_role, whatever it finds in the slot.
LEMMA ConvergeKeeps ==
  ASSUME Sound, HostTypes, Following, NEW d \in AnyTarget, Converge(d)
  PROVE  Kept /\ desired' = d /\ current' \in AnyTarget
<1>1. desired' = d /\ Own
  BY DEF Converge
<1>2. CASE current # None /\ d = current
  <2>1. Rearm
    BY <1>2 DEF Converge
  <2>2. current' = current
    BY <2>1 DEF Rearm
  <2> QED BY <1>1, <1>2, <2>1, <2>2, RearmKeeps DEF HostTypes
<1>3. CASE ~(current # None /\ d = current) /\ state \in Holding
  <2>1. Retire
    BY <1>3 DEF Converge, Holding
  <2>2. current' = current
    BY <2>1 DEF Retire
  <2> QED BY <1>1, <1>3, <2>1, <2>2, RetireKeeps DEF HostTypes
<1>4. CASE current = None /\ d = None /\ state \notin Holding
  <2>1. UNCHANGED <<svars, current>>
    BY <1>4 DEF Converge, Holding
  <2>2. UNCHANGED <<state, gate, want, child, probe, timer, phase, lapse, delay,
                    endpoint, told, stale, inflight, proc, reg>>
    BY <2>1 DEF svars, machine, voice, world
  <2>3. Sound'
    BY <2>2 DEF Sound, Moving, Resting, ChildInv, Announced
  <2>4. StartsNothing
    BY <2>2 DEF StartsNothing
  <2> QED BY <1>1, <1>4, <2>1, <2>2, <2>3, <2>4, OwnerFollows, OwnType
          DEF Kept, Following, HostTypes
<1>5. CASE /\ ~(current # None /\ d = current) /\ state \notin Holding
           /\ ~(current = None /\ d = None)
  <2>1. Replace(d)
    BY <1>5 DEF Converge, Holding
  <2>2. CASE d = None
    <3>1. Vacate /\ child' = None /\ reg' = None /\ UNCHANGED <<voice, inflight, proc>>
      BY <2>1, <2>2 DEF Replace
    <3>2. Quiet(proc') /\ proc' \in [Pid -> Status] /\ state # "ready"
      BY <1>5, <3>1, ChildlessIsQuiet DEF Sound, ChildInv, Moving, Quiet, Holding
    <3>3. current' = None /\ UNCHANGED <<endpoint, told, stale, inflight>>
      BY <3>1 DEF Vacate, voice
    <3> QED BY <1>1, <3>1, <3>2, <3>3, VacateKeeps DEF AnyTarget
  <2>3. CASE d # None
    <3>1. d \in Target /\ Build(d)
      BY <2>1, <2>3 DEF Replace, AnyTarget
    <3>2. current' = d
      BY <3>1 DEF Build
    <3> QED BY <1>1, <1>5, <3>1, <3>2, BuildKeeps
  <2> QED BY <2>2, <2>3
<1> QED BY <1>2, <1>3, <1>4, <1>5
-----------------------------------------------------------------------------
(* The host's actions. *)

\* A tick of the machine in the slot.
LEMMA TickFollows ==
  ASSUME Sound, HostTypes, Following, current # None, Tick, Own,
         UNCHANGED <<desired, current>>
  PROVE  Kept
<1>1. Sound' /\ owner' \in [Pid -> AnyTarget]
  BY TickKeeps, OwnType DEF HostTypes
<1>2. CASE state = "backoff"
  <2>1. Spawn(proc, lapse, delay) /\ desired = current
    BY <1>2 DEF Tick, TickStarting, TickReady, TickStopping, TickBackoff, Following
  <2>2. Quiet(proc) /\ proc \in [Pid -> Status]
    BY <1>2, ChildlessIsQuiet DEF Sound, ChildInv, Moving, Holding
  <2>3. /\ child' # None => owner'[child'] = current'
        /\ \A p \in Pid : proc[p] # "run" /\ proc'[p] = "run" => owner'[p] = current'
    BY <2>1, <2>2, SpawnOwns DEF Sound
  <2> QED BY <1>1, <2>1, <2>3 DEF Kept, Following, StartsDesired
<1>3. CASE state # "backoff"
  <2>1. StartsNothing /\ child' \in {child, None}
    BY <1>3, TickStarts
  <2>2. state \in {"starting", "ready", "stopping"}
    BY <1>3 DEF Tick, TickStarting, TickReady, TickStopping, TickBackoff
  <2>3. state = "stopping" => state' \in {"stopping", "stopped"}
    BY DEF Tick, TickStarting, TickReady, TickStopping, TickBackoff, FinishStop
  <2> QED BY <1>1, <2>1, <2>2, <2>3, OwnerFollows DEF Kept, Following
<1> QED BY <1>2, <1>3

\* What is kept while nothing of the machine, the slot or its target moves.
LEMMA StillRunning ==
  ASSUME Running, Following,
         UNCHANGED <<svars, desired, current, owner>>, ticker' \in {ticker, "done"},
         On, On', ticker' = "off" => ticker = "off"
  PROVE  Running' /\ Following' /\ StartsDesired
<1>1. UNCHANGED <<state, gate, want, child, probe, timer, phase, lapse, delay,
                  endpoint, told, stale, inflight, proc, reg>>
  BY DEF svars, machine, voice, world
<1>2. Sound'
  BY <1>1 DEF Running, Sound, Moving, Resting, ChildInv, Announced
<1>3. Following' /\ StartsDesired
  BY <1>1 DEF Following, StartsDesired
<1> QED BY <1>2, <1>3 DEF Running

LEMMA EnterStep ==
  ASSUME HostInv, NEW c \in Caller, Enter(c)
  PROVE  HostInv' /\ StartsDesired
<1>1. /\ On /\ ~stop /\ call' = [call EXCEPT ![c] = plan]
      /\ UNCHANGED <<svars, plan, desired, current, owner, stop, ticker, late>>
  BY DEF Enter, role
<1>2. used' \in [plans : 0 .. MaxPlans, restarts : 0 .. MaxRestarts,
                 launches : 0 .. MaxLaunches]
  <2>1. \A u \in [plans : 0 .. MaxPlans, restarts : 0 .. MaxRestarts,
                  launches : 0 .. MaxLaunches] :
          u.restarts < MaxRestarts =>
            [u EXCEPT !.restarts = @ + 1] \in
              [plans : 0 .. MaxPlans, restarts : 0 .. MaxRestarts,
               launches : 0 .. MaxLaunches]
    BY HostBounds, SMT
  <2> QED BY <2>1 DEF Enter, HostInv, HostTypes
<1>3. HostTypes'
  BY <1>1, <1>2 DEF HostInv, HostTypes
<1>4. Running' /\ Following' /\ StartsDesired
  BY <1>1, StillRunning DEF HostInv, On
<1>5. Ending'
  BY <1>1 DEF HostInv, Ending
<1> QED BY <1>3, <1>4, <1>5 DEF HostInv

\* A call in progress means that the program is up, and that a shutdown that has
\* begun gave up on the caller.
LEMMA CallsAreEarly ==
  ASSUME HostInv, NEW c \in Caller, call[c] # Nothing
  PROVE  On /\ Sound /\ (stop \/ ticker \in {"close", "done"} => c \in late)
<1>1. On
  BY DEF HostInv, Running, Left, NoCalls
<1> QED BY <1>1 DEF HostInv, Running, Ending

\* What the return of a caller leaves of the end.
LEMMA ReturnEnds ==
  ASSUME HostInv, NEW c \in Caller, call[c] # Nothing, Return(c), UNCHANGED <<stop, ticker>>
  PROVE  Ending' /\ late' \subseteq Caller
<1>1. stop \/ ticker \in {"close", "done"} => c \in late
  BY CallsAreEarly
<1>2. \A d \in Caller \ {c} : call'[d] = call[d]
  BY DEF Return, HostInv, HostTypes
<1>3. call'[c] = Nothing
  BY DEF Return, HostInv, HostTypes
<1>4. late' = IF ticker = "done" THEN late ELSE late \ {c}
  BY DEF Return
<1> QED BY <1>1, <1>2, <1>3, <1>4 DEF HostInv, HostTypes, Ending, On

LEMMA ApplyStep ==
  ASSUME HostInv, Apply
  PROVE  HostInv' /\ StartsDesired
<1> DEFINE d == call["apply"]
<1>1. /\ d # Nothing /\ Converge(d) /\ call' = [call EXCEPT !["apply"] = Nothing]
      /\ Return("apply") /\ UNCHANGED <<plan, stop, ticker, used>>
  BY DEF Apply, Return
<1>2. d \in AnyTarget /\ "apply" \in Caller
  BY <1>1 DEF HostInv, HostTypes, Caller
<1>3. On /\ Sound
  BY <1>1, <1>2, CallsAreEarly
<1>4. Kept /\ desired' = d /\ current' \in AnyTarget
  BY <1>1, <1>2, <1>3, ConvergeKeeps DEF HostInv
<1>7. Ending' /\ late' \subseteq Caller
  BY <1>1, <1>2, ReturnEnds
<1>5. HostTypes'
  BY <1>1, <1>2, <1>4, <1>7 DEF HostInv, HostTypes, Kept
<1>6. Running'
  BY <1>1, <1>3, <1>4 DEF Running, Kept, On
<1> QED BY <1>4, <1>5, <1>6, <1>7 DEF HostInv, Kept

LEMMA RestartStep ==
  ASSUME HostInv, RestartRole
  PROVE  HostInv' /\ StartsDesired
<1>1. /\ call["restart"] # Nothing /\ "restart" \in Caller
      /\ call' = [call EXCEPT !["restart"] = Nothing] /\ Return("restart")
      /\ UNCHANGED <<plan, desired, current, stop, ticker, used>> /\ Own
  BY DEF RestartRole, Return, Caller, role
<1>2. On /\ Sound
  BY <1>1, CallsAreEarly
<1>3. owner' \in [Pid -> AnyTarget]
  BY <1>1, OwnType DEF HostInv, HostTypes
<1>4. Sound' /\ Following' /\ StartsDesired
  <2>1. CASE desired # None /\ desired = current /\ RestartRuntime /\ gate = "installed"
    <3>1. Spawn(Killed, Fresh, BackoffBase)
      BY <2>1 DEF RestartRuntime
    <3>2. Killed \in [Pid -> Status] /\ Quiet(Killed)
      BY <1>2, KilledIsQuiet DEF Sound
    <3>3. \A p \in Pid : Killed[p] = "free" /\ proc[p] # "free" => owner[p] = current'
      BY <1>1, <1>2 DEF Killed, HostInv, Following, Sound, Moving
    <3>4. /\ child' # None => owner'[child'] = current'
          /\ \A p \in Pid : proc[p] # "run" /\ proc'[p] = "run" => owner'[p] = current'
      BY <1>1, <1>2, <3>1, <3>2, <3>3, SpawnOwns DEF HostInv, Sound
    <3>5. Sound'
      BY <1>2, <2>1, RestartRuntimeKeeps
    <3> QED BY <1>1, <2>1, <3>4, <3>5 DEF Following, StartsDesired
  <2>2. CASE RestartRuntime /\ gate # "installed"
    <3>1. UNCHANGED <<state, child, proc>>
      BY <2>2 DEF RestartRuntime
    <3>2. Sound'
      BY <1>2, <2>2, RestartRuntimeKeeps
    <3>3. StartsNothing
      BY <3>1 DEF StartsNothing
    <3> QED BY <1>1, <3>1, <3>2, <3>3, OwnerFollows DEF HostInv, Following
  <2>3. CASE UNCHANGED svars
    <3>1. UNCHANGED <<state, gate, want, child, probe, timer, phase, lapse, delay,
                      endpoint, told, stale, inflight, proc, reg>>
      BY <2>3 DEF svars, machine, voice, world
    <3>2. Sound'
      BY <1>2, <3>1 DEF Sound, Moving, Resting, ChildInv, Announced
    <3>3. StartsNothing
      BY <3>1 DEF StartsNothing
    <3> QED BY <1>1, <3>1, <3>2, <3>3, OwnerFollows DEF HostInv, Following
  <2> QED BY <2>1, <2>2, <2>3 DEF RestartRole
<1>7. Ending' /\ late' \subseteq Caller
  BY <1>1, ReturnEnds
<1>5. HostTypes'
  BY <1>1, <1>3, <1>7 DEF HostInv, HostTypes
<1>6. Running'
  BY <1>1, <1>2, <1>4 DEF HostInv, Running, On
<1> QED BY <1>4, <1>5, <1>6, <1>7 DEF HostInv

LEMMA ReplanStep ==
  ASSUME HostInv, Replan
  PROVE  HostInv' /\ StartsDesired
<1>1. /\ On /\ used.plans < MaxPlans /\ used' = [used EXCEPT !.plans = @ + 1]
      /\ plan' \in AnyTarget
      /\ UNCHANGED <<svars, desired, current, owner, call, stop, ticker, late>>
  BY DEF Replan
<1>2. used' \in [plans : 0 .. MaxPlans, restarts : 0 .. MaxRestarts,
                 launches : 0 .. MaxLaunches]
  <2>1. \A u \in [plans : 0 .. MaxPlans, restarts : 0 .. MaxRestarts,
                  launches : 0 .. MaxLaunches] :
          u.plans < MaxPlans =>
            [u EXCEPT !.plans = @ + 1] \in
              [plans : 0 .. MaxPlans, restarts : 0 .. MaxRestarts,
               launches : 0 .. MaxLaunches]
    BY HostBounds, SMT
  <2> QED BY <1>1, <2>1 DEF HostInv, HostTypes
<1>3. HostTypes'
  BY <1>1, <1>2 DEF HostInv, HostTypes
<1>4. Running' /\ Following' /\ StartsDesired
  BY <1>1, StillRunning DEF HostInv, On
<1>5. Ending'
  <2>1. child' = child
    BY <1>1 DEF svars, machine
  <2> QED BY <1>1, <2>1 DEF HostInv, Ending, On
<1> QED BY <1>3, <1>4, <1>5 DEF HostInv

LEMMA TickRunStep ==
  ASSUME HostInv, TickRun
  PROVE  HostInv' /\ StartsDesired
<1>1. /\ ticker = "run" /\ ~stop /\ current # None /\ Own
      /\ UNCHANGED <<plan, desired, call, stop, ticker, late, used>>
  BY DEF TickRun, host
<1>2. On /\ Sound
  BY <1>1 DEF HostInv, Running, On
<1>3. CASE Tick /\ UNCHANGED current
  <2>1. Kept
    BY <1>1, <1>2, <1>3, TickFollows DEF HostInv
  <2>2. HostTypes' /\ Running' /\ Ending'
    BY <1>1, <1>2, <1>3, <2>1 DEF HostInv, HostTypes, Running, Ending, Kept, On
  <2> QED BY <2>1, <2>2 DEF HostInv, Kept
<1>4. CASE /\ state = "stopping" /\ Exited
           /\ Vacate /\ child' = None /\ reg' = None /\ proc' = Reaped
           /\ UNCHANGED <<voice, inflight, past>>
  <2>1. Reaped \in [Pid -> Status] /\ Quiet(Reaped)
    BY <1>2, <1>4, KilledIsQuiet DEF Sound, Exited
  <2>2. UNCHANGED <<endpoint, told, stale, inflight>>
    BY <1>4 DEF voice
  <2>3. Kept
    BY <1>1, <1>2, <1>4, <2>1, <2>2, VacateKeeps DEF HostInv
  <2>4. current' = None
    BY <1>4 DEF Vacate
  <2>5. HostTypes' /\ Running' /\ Ending'
    BY <1>1, <1>2, <2>3, <2>4
       DEF HostInv, HostTypes, Running, Ending, Kept, On, AnyTarget
  <2> QED BY <2>3, <2>5 DEF HostInv, Kept
<1> QED BY <1>3, <1>4 DEF TickRun

LEMMA TickCloseStep ==
  ASSUME HostInv, TickClose
  PROVE  HostInv' /\ StartsDesired
<1>1. /\ ticker = "close" /\ current # None /\ Tick /\ Own
      /\ UNCHANGED <<plan, desired, current, call, stop, ticker, late, used>>
  BY DEF TickClose, role, host
<1>2. On /\ Sound
  BY <1>1 DEF HostInv, Running, On
<1>3. Kept
  BY <1>1, <1>2, TickFollows DEF HostInv
<1>4. HostTypes' /\ Running' /\ Ending'
  BY <1>1, <1>2, <1>3 DEF HostInv, HostTypes, Running, Ending, Kept, On, NoCalls
<1> QED BY <1>3, <1>4 DEF HostInv, Kept

LEMMA CloseStep ==
  ASSUME HostInv, Close
  PROVE  HostInv' /\ StartsDesired
<1>1. /\ ticker = "run" /\ stop /\ ticker' = "close"
      /\ UNCHANGED <<plan, desired, current, owner, call, stop, late, used>>
  BY DEF Close, role
<1>2. On /\ Sound /\ On'
  BY <1>1 DEF HostInv, Running, On
<1>3. HostTypes' /\ Ending'
  BY <1>1, <1>2 DEF HostInv, HostTypes, Ending, NoCalls
<1>4. CASE current # None /\ Stop
  <2>1. Sound'
    BY <1>2, <1>4, StopKeeps
  <2>2. StartsNothing /\ child' \in {child, None}
    BY <1>2, <1>4, OthersStartNothing DEF StartsNothing
  <2>3. state' \in {"stopped", "stopping"}
    BY <1>2, <1>4 DEF Stop, Halt, BeginStop, FinishStop, Active
  <2> QED BY <1>1, <1>2, <1>3, <1>4, <2>1, <2>2, <2>3
          DEF HostInv, Running, Following, StartsNothing, StartsDesired
<1>5. CASE UNCHANGED svars
  BY <1>1, <1>2, <1>3, <1>5 DEF HostInv, Running, Following, StartsDesired, svars,
     machine, voice, world, Sound, Moving, Resting, ChildInv, Announced
<1> QED BY <1>4, <1>5 DEF Close

LEMMA ClosedStep ==
  ASSUME HostInv, Closed
  PROVE  HostInv' /\ StartsDesired
<1>1. /\ ticker = "close" /\ ticker' = "done"
      /\ current = None \/ state \in {"notConfigured", "stopped"}
      /\ UNCHANGED <<svars, plan, desired, current, owner, call, stop, late, used>>
  BY DEF Closed, role
<1>2. On /\ On' /\ Sound
  BY <1>1 DEF HostInv, Running, On
<1>3. child = None /\ child' = child
  <2>1. state \in {"notConfigured", "stopped"}
    BY <1>1 DEF HostInv, Following
  <2>2. child' = child
    BY <1>1 DEF svars, machine
  <2> QED BY <1>2, <2>1, <2>2 DEF Sound, ChildInv, Holding
<1>4. HostTypes' /\ Ending'
  BY <1>1, <1>2, <1>3 DEF HostInv, HostTypes, Ending, NoCalls
<1>5. Running' /\ Following' /\ StartsDesired
  BY <1>1, <1>2, StillRunning DEF HostInv
<1> QED BY <1>4, <1>5 DEF HostInv

LEMMA ShutdownStep ==
  ASSUME HostInv, Shutdown
  PROVE  HostInv' /\ StartsDesired
<1>1. /\ On /\ ~stop /\ stop' = TRUE /\ late' = {c \in Caller : call[c] # Nothing}
      /\ UNCHANGED <<svars, plan, desired, current, owner, call, ticker, used>>
  BY DEF Shutdown, role
<1>2. On' /\ child' = child
  BY <1>1 DEF On, svars, machine
<1>3. HostTypes' /\ Ending'
  BY <1>1, <1>2 DEF HostInv, HostTypes, Ending, NoCalls
<1>4. Running' /\ Following' /\ StartsDesired
  BY <1>1, <1>2, StillRunning DEF HostInv
<1> QED BY <1>3, <1>4 DEF HostInv

\* The program may end at any moment: what children.json names is all there is.
LEMMA ExitsStep ==
  ASSUME HostInv, Exits
  PROVE  HostInv' /\ StartsDesired
<1>1. /\ On /\ used.launches < MaxLaunches /\ ticker' = "off" /\ call' = [c \in Caller |-> Nothing]
      /\ Vacate /\ child' = None /\ desired' = None
      /\ endpoint' = None /\ told' = FALSE /\ stale' = FALSE /\ inflight' = FALSE
      /\ late' = {} /\ UNCHANGED <<proc, reg, plan, owner, stop, used>>
  BY DEF Exits
<1>2. Sound
  BY <1>1 DEF HostInv, Running
<1>3. /\ current' = None /\ want' = FALSE /\ gate' = "notConfigured"
      /\ state' = "notConfigured" /\ phase' = "none"
      /\ lapse' = Fresh /\ delay' = BackoffBase /\ timer' = 0 /\ probe' = "none"
  BY <1>1 DEF Vacate
<1>4. 0 \in 0 .. Longest
  BY LongestBounds, SMT
<1>5. Moving'
  BY <1>1, <1>2, <1>3, <1>4, FreshType DEF Sound, Moving, States, Idle
<1>6. Resting' /\ Announced'
  BY <1>1, <1>3 DEF Resting, Announced, AllGates
<1>7. \A p \in Pid : proc'[p] = "run" => p = reg'
  BY <1>1, <1>2 DEF Sound, ChildInv
<1>8. ~On' /\ NoCalls'
  BY <1>1 DEF On, NoCalls
<1>9. Running'
  BY <1>1, <1>3, <1>5, <1>6, <1>7, <1>8 DEF Running, Left
<1>10. HostTypes'
  BY <1>1, <1>3 DEF HostInv, HostTypes, AnyTarget
<1>11. Following' /\ Ending'
  BY <1>1, <1>3, <1>8 DEF Following, Ending
<1>12. StartsDesired
  BY <1>1 DEF StartsDesired
<1> QED BY <1>9, <1>10, <1>11, <1>12 DEF HostInv

\* The sweep of the next launch ends it.
LEMMA LaunchStep ==
  ASSUME HostInv, Launch
  PROVE  HostInv' /\ StartsDesired
<1>1. /\ ticker = "off" /\ used' = [used EXCEPT !.launches = @ + 1]
      /\ ticker' = "run" /\ stop' = FALSE /\ reg' = None
      /\ proc' = IF reg = None THEN proc
                 ELSE [proc EXCEPT ![reg] = IF @ = "run" THEN "dying" ELSE @]
      /\ UNCHANGED <<state, gate, want, child, probe, timer, phase, lapse, delay,
                     endpoint, told, stale, inflight, plan, desired, current, owner,
                     call, late>>
  BY DEF Launch, machine, voice, role
<1>2. Left
  BY <1>1 DEF HostInv, Running, On
<1>3. proc' \in [Pid -> Status] /\ Quiet(proc')
  BY <1>1, <1>2, PidAssumption DEF Left, Moving, Status, Quiet
<1>4. Moving' /\ Resting' /\ Announced'
  BY <1>1, <1>2, <1>3 DEF Left, Moving, Resting, Announced
<1>5. ChildInv'
  BY <1>1, <1>2, <1>3 DEF Left, ChildInv, Holding, Quiet
<1>6. Running'
  BY <1>1, <1>4, <1>5 DEF Running, Sound, On
<1>7. used' \in [plans : 0 .. MaxPlans, restarts : 0 .. MaxRestarts,
                 launches : 0 .. MaxLaunches]
  <2>1. \A u \in [plans : 0 .. MaxPlans, restarts : 0 .. MaxRestarts,
                  launches : 0 .. MaxLaunches] :
          u.launches < MaxLaunches =>
            [u EXCEPT !.launches = @ + 1] \in
              [plans : 0 .. MaxPlans, restarts : 0 .. MaxRestarts,
               launches : 0 .. MaxLaunches]
    BY HostBounds, SMT
  <2> QED BY <1>1, <1>2, <2>1 DEF Left, HostInv, HostTypes
<1>8. HostTypes'
  BY <1>1, <1>7 DEF HostInv, HostTypes
<1>9. Following' /\ Ending'
  BY <1>1 DEF HostInv, Following, Ending
<1>10. StartsDesired
  BY <1>3 DEF Quiet, StartsDesired
<1> QED BY <1>6, <1>8, <1>9, <1>10 DEF HostInv

LEMMA HostWorldStep ==
  ASSUME HostInv, HostWorld
  PROVE  HostInv' /\ StartsDesired
<1>1. World /\ UNCHANGED <<plan, desired, current, owner, call, stop, ticker, late, used>>
  BY DEF HostWorld, role, host
<1>2. Moving /\ Resting
  BY DEF HostInv, Running, Left, Sound
<1>3. /\ Moving' /\ Resting'
      /\ UNCHANGED <<state, child, reg, endpoint, told, stale>>
      /\ \A p \in Pid : proc'[p] = "run" => proc[p] = "run"
  BY <1>1, <1>2, WorldMoves
<1>4. Running'
  <2>1. CASE On
    BY <1>1, <2>1, WorldKeeps DEF HostInv, Running, On
  <2>2. CASE ~On
    <3>1. Left /\ ~On'
      BY <1>1, <2>2 DEF HostInv, Running, On
    <3>2. Left'
      BY <1>1, <1>3, <3>1 DEF Left, Announced, NoCalls
    <3> QED BY <3>1, <3>2 DEF Running
  <2> QED BY <2>1, <2>2
<1>5. HostTypes' /\ Following' /\ Ending'
  BY <1>1, <1>3 DEF HostInv, HostTypes, Following, Ending, NoCalls, On
<1>6. StartsDesired
  BY <1>3 DEF StartsDesired
<1> QED BY <1>4, <1>5, <1>6 DEF HostInv

\* The history variables keep their types under the host too.
LEMMA HostHistory ==
  ASSUME History, HostNext
  PROVE  History'
<1>1. 0 \in 0 .. Pace
  BY PaceIsPositive, SMT
<1>2. UNCHANGED <<recent, owed>> \/ Past => History'
  BY DEF History, Past
<1>3. Next => History'
  BY HistoryKeeps
<1>4. RestartRuntime \/ Stop \/ Tick \/ World => Next
  BY DEF Next, Inputs
<1>5. ASSUME NEW d, Converge(d)
      PROVE  History'
  <2>1. Rearm \/ Retire => Past
    BY DEF Rearm, Retire
  <2>2. ASSUME Replace(d)
        PROVE  History'
    <3>1. CASE d = None
      BY <1>2, <2>2, <3>1 DEF Replace, past
    <3>2. CASE d # None
      <4>1. recent' = [i \in DOMAIN recent |-> 0] /\ owed' = FALSE
        BY <2>2, <3>2 DEF Replace, Build
      <4> QED BY <1>1, <4>1 DEF History
    <3> QED BY <3>1, <3>2
  <2>3. UNCHANGED svars => UNCHANGED <<recent, owed>>
    BY DEF svars, past
  <2> QED BY <1>2, <1>5, <2>1, <2>2, <2>3 DEF Converge
<1>6. CASE Apply
  BY <1>5, <1>6 DEF Apply
<1>7. CASE RestartRole \/ TickRun \/ Close \/ TickClose \/ HostWorld
  BY <1>2, <1>3, <1>4, <1>7
     DEF RestartRole, TickRun, Close, TickClose, HostWorld, svars, past
<1>8. CASE \/ \E c \in Caller : Enter(c)
           \/ Replan \/ Closed \/ Shutdown \/ Exits \/ Launch
  BY <1>2, <1>8 DEF Enter, Replan, Closed, Shutdown, Exits, Launch, svars, past
<1> QED BY <1>6, <1>7, <1>8 DEF HostNext

LEMMA HostStep ==
  ASSUME HostInv, HostNext
  PROVE  HostInv' /\ StartsDesired
<1>1. CASE \E c \in Caller : Enter(c)
  BY <1>1, EnterStep
<1>2. CASE Apply \/ RestartRole \/ Replan
  BY <1>2, ApplyStep, RestartStep, ReplanStep
<1>3. CASE TickRun \/ Close \/ TickClose \/ Closed
  BY <1>3, TickRunStep, CloseStep, TickCloseStep, ClosedStep
<1>4. CASE Shutdown \/ Exits \/ Launch
  BY <1>4, ShutdownStep, ExitsStep, LaunchStep
<1>5. CASE HostWorld
  BY <1>5, HostWorldStep
<1> QED BY <1>1, <1>2, <1>3, <1>4, <1>5 DEF HostNext

LEMMA HostStutter ==
  ASSUME HostInv, History, UNCHANGED hvars
  PROVE  HostInv' /\ History' /\ StartsDesired
<1>1. UNCHANGED <<state, gate, want, child, probe, timer, phase, lapse, delay,
                  endpoint, told, stale, inflight, proc, reg, recent, owed,
                  plan, desired, current, owner, call, stop, ticker, late, used>>
  BY DEF hvars, svars, machine, voice, world, past, role, host
<1>2. Sound = Sound' /\ Left = Left' /\ On = On'
  BY <1>1 DEF Sound, Moving, Resting, ChildInv, Announced, Left, NoCalls, On
<1>3. HostTypes' /\ Running' /\ Following' /\ Ending' /\ History'
  BY <1>1, <1>2 DEF HostInv, HostTypes, Running, Following, Ending, NoCalls, History
<1>4. StartsDesired
  BY <1>1 DEF StartsDesired
<1> QED BY <1>3, <1>4 DEF HostInv

LEMMA HostInitially == HostInit => HostInv /\ History
<1> SUFFICES ASSUME HostInit PROVE HostInv /\ History
  OBVIOUS
<1>1. Sound /\ History
  BY InitIsSound DEF HostInit
<1>2. child = None /\ state = "notConfigured"
  BY DEF HostInit, Init, MachineInit
<1>3. HostTypes
  <2>1. 0 \in 0 .. MaxPlans /\ 0 \in 0 .. MaxRestarts /\ 0 \in 0 .. MaxLaunches
    BY HostBounds, SMT
  <2>2. used \in [plans : 0 .. MaxPlans, restarts : 0 .. MaxRestarts,
                  launches : 0 .. MaxLaunches]
    BY <2>1 DEF HostInit
  <2>3. plan \in AnyTarget /\ desired \in AnyTarget /\ current \in AnyTarget
    BY DEF HostInit, AnyTarget
  <2>4. owner \in [Pid -> AnyTarget] /\ call \in [Caller -> AnyTarget \union {Nothing}]
    BY DEF HostInit, AnyTarget
  <2> QED BY <2>2, <2>3, <2>4 DEF HostInit, HostTypes
<1>4. Running /\ Following /\ Ending
  BY <1>1, <1>2 DEF HostInit, Running, Following, Ending, On
<1> QED BY <1>1, <1>3, <1>4 DEF HostInv

-----------------------------------------------------------------------------
(* Theorems. *)

\* The host's invariant holds throughout.
THEOREM HostInvariant == HostSpec => [](HostInv /\ History)
<1>1. HostInv /\ History /\ [HostNext]_hvars => (HostInv /\ History)'
  BY HostStep, HostStutter, HostHistory
<1> QED BY <1>1, HostInitially, PTL DEF HostSpec

\* Role, machine and history keep their types, for any number of targets, plan
\* changes, restarts and launches.
THEOREM HostTypeCorrect == HostSpec => []HostTypeOK
<1>1. HostInv /\ History => HostTypeOK
  <2>1. HostInv => Moving /\ Resting
    BY DEF HostInv, Running, Left, Sound
  <2> QED BY <2>1, TypeParts DEF HostInv, HostTypes, HostTypeOK
<1> QED BY <1>1, HostInvariant, PTL

\* However plans, restarts, shutdown and death of the program interleave, a child
\* that runs is held by its role's machine or named in children.json.
THEOREM OwnedOrRecordedAlways == HostSpec => []OwnedOrRecorded
<1>1. HostInv => OwnedOrRecorded
  BY DEF HostInv, Running, Left, Sound, ChildInv, OwnedOrRecorded, On
<1> QED BY <1>1, HostInvariant, PTL

\* No step of converge_role, of the restart command or of the tick thread starts
\* a child for a target the latest plan has superseded.
THEOREM NothingSupersededStarts == HostSpec => NoResurrection
<1>1. HostInv /\ [HostNext]_hvars => [StartsDesired]_hvars
  BY HostStep
<1>2. [StartsDesired]_hvars =>
        [\A p \in Pid : proc[p] # "run" /\ proc'[p] = "run" => owner'[p] = desired']_hvars
  BY DEF StartsDesired
<1> QED BY <1>1, <1>2, HostInvariant, PTL DEF HostSpec, NoResurrection

\* Once the tick thread is done nothing runs or is started, unless a caller that
\* App::shutdown had given up on at its gate was then still in its call: for any
\* number of targets, plan changes, restarts and launches.
THEOREM NothingAfterShutdown == HostSpec => []ShutdownIsFinal
<1>1. HostInv => ShutdownIsFinal
  <2> SUFFICES ASSUME HostInv, ticker = "done", late = {} PROVE \A p \in Pid : proc[p] # "run"
    BY DEF ShutdownIsFinal
  <2>1. Sound /\ child = None
    BY DEF HostInv, Running, On, Ending
  <2> QED BY <2>1, ChildlessIsQuiet DEF Sound, Quiet
<1> QED BY <1>1, HostInvariant, PTL
=============================================================================
