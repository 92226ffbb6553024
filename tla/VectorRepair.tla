---------------------------- MODULE VectorRepair ----------------------------
(***************************************************************************)
(* The readiness-driven repair of vector spaces: the runtime pump observes *)
(* which embedder is Ready and asks for a reconcile of the spaces against  *)
(* it (state.rs); one managed task at a time performs what is pending      *)
(* (VectorRepairState); the startup doctor does the same once; the         *)
(* embedding drain fills the Ready model's space meanwhile.                *)
(*                                                                         *)
(* One embedder role and its vector kind; the space of a model is the set  *)
(* of images that have a live row in it.                                   *)
(***************************************************************************)
EXTENDS Naturals, FiniteSets

CONSTANTS
    Image, Model,
    Nothing,        \* no model, no target
    MaxLoads,       \* bound: times an embedder becomes Ready
    MaxFaults       \* bound: failed reconciles, lost space files

VARIABLES
    ready,      \* the model of the Ready embedder, or Nothing
    loads,      \* its generation: times one became Ready
    pending, inFlight, last,    \* VectorRepairState: targets
    running,    \* VectorRepairState::running
    pump,       \* the requester: "idle", or "spawn" after enqueue said to spawn
    task,       \* the repair task: where it is
    doctor,     \* the startup doctor: where it is
    doctored,   \* the target the doctor captured
    rows,       \* Model -> images with a live row in the model's space
    file,       \* models whose space file exists
    pass,       \* Image -> the model its pass was done with, Nothing: pending
    draining,   \* has a drain with the Ready embedder begun?
    forsaken,   \* history: done passes whose rows a reconcile took and nobody re-pended
    stopping, faults

coord == <<pending, inFlight, last, running, pump, task>>
store == <<rows, file, pass, forsaken>>
vars == <<ready, loads, draining, coord, doctor, doctored, store, stopping, faults>>

Target == [model : Model, gen : 1..MaxLoads]
ReadyTarget == [model |-> ready, gen |-> loads]

Init ==
    /\ ready = Nothing /\ loads = 0
    /\ pending = Nothing /\ inFlight = Nothing /\ last = Nothing
    /\ running = FALSE /\ pump = "idle" /\ task = "none"
    /\ doctor = "begin" /\ doctored = Nothing
    /\ rows = [m \in Model |-> {}] /\ file = {} /\ pass = [i \in Image |-> Nothing]
    /\ draining = FALSE /\ forsaken = {} /\ stopping = FALSE /\ faults = 0

----------------------------------------------------------------------------
(* The embedder and its drain *)

\* A helper lands Ready: a new generation, whatever the model.
Load(m) ==
    /\ ready = Nothing /\ loads < MaxLoads /\ ~stopping
    /\ ready' = m /\ loads' = loads + 1
    /\ UNCHANGED <<draining, coord, doctor, doctored, store, stopping, faults>>

Unload ==
    /\ ready # Nothing
    /\ ready' = Nothing /\ draining' = FALSE
    /\ UNCHANGED <<loads, coord, doctor, doctored, store, stopping, faults>>

\* A drain begins by re-pending every image another model did.
Drain ==
    /\ ready # Nothing /\ ~stopping
    /\ draining' = TRUE
    /\ pass' = [i \in Image |-> IF pass[i] = ready THEN ready ELSE Nothing]
    /\ UNCHANGED <<ready, loads, coord, doctor, doctored, rows, file, forsaken, stopping, faults>>

\* It embeds one pending image with the Ready model: its row, then done.
Embed(i) ==
    /\ draining /\ pass[i] = Nothing /\ ~stopping
    /\ rows' = [rows EXCEPT ![ready] = @ \cup {i}]
    /\ file' = file \cup {ready}
    /\ pass' = [pass EXCEPT ![i] = ready]
    /\ forsaken' = forsaken \ {<<i, ready>>}
    /\ UNCHANGED <<ready, loads, draining, coord, doctor, doctored, stopping, faults>>

\* The file of a space vanishes while its rows stay.
LoseFile(m) ==
    /\ m \in file /\ faults < MaxFaults
    /\ faults' = faults + 1 /\ file' = file \ {m}
    /\ UNCHANGED <<ready, loads, draining, coord, doctor, doctored, rows, pass, forsaken, stopping>>

----------------------------------------------------------------------------
(* reconcile_spaces, in one hold of the database, and the re-pend it asks   *)
(* for, in another                                                          *)

Done(n) == {<<i, n>> : i \in {j \in Image : pass[j] = n}}

\* The populated space of the active model retires every other one; if its own
\* file is gone its rows go too.
Doomed(m) ==
    IF rows[m] = {} THEN {}
    ELSE {n \in Model : rows[n] # {} /\ (n # m \/ m \notin file)}

\* Judged by a model that does not write any more, or before its drain has begun,
\* it takes rows of passes that are done and stay so.
Misjudged(m, S) == IF m # ready \/ ~draining THEN UNION {Done(n) : n \in S \ {m}} ELSE {}

Drop(m, S) == rows' = [n \in Model |-> IF n \in S THEN {} ELSE rows[n]] /\ UNCHANGED pass

\* All of them, and then the files without a row.
Reconcile(m) ==
    /\ Drop(m, Doomed(m))
    /\ file' = {n \in file : rows'[n] # {}}
    /\ forsaken' = forsaken \cup Misjudged(m, Doomed(m))

\* Some of them, each for good, and some files without a row; then an error, of the
\* database, of a file or of the sweep, and what was to be re-pended is forgotten.
ReconcileBreaks(m) ==
    \E S \in SUBSET Doomed(m) :
        /\ Drop(m, S)
        /\ \E F \in SUBSET {n \in file : rows'[n] = {}} : file' = file \ F
        /\ forsaken' = forsaken \cup Misjudged(m, S) \cup (IF m \in S THEN Done(m) ELSE {})

\* The rows of the active space go: its passes are to be done again.
Dangling(m) == m \in Doomed(m)

\* Mutant: re-pended as after a change of model, which spares the model's own.
RependOthers(m) ==
    /\ pass' = [i \in Image |-> IF pass[i] = m THEN m ELSE Nothing]
    /\ forsaken' = {} /\ UNCHANGED <<rows, file>>

\* repend_pass: whatever model it was done with.
Repend(m) == pass' = [i \in Image |-> Nothing] /\ forsaken' = {} /\ UNCHANGED <<rows, file>>

\* It fails (or the program dies here, with the same rows and passes).
RependBreaks(m) == forsaken' = forsaken \cup Done(m) /\ UNCHANGED <<rows, file, pass>>

----------------------------------------------------------------------------
(* The requester: the runtime pump, on every event and every 500 ms *)

\* VectorRepairState::enqueue: whether the caller is to spawn the task.
Enqueue(t) == ~running

\* A target that was repaired or is being repaired is not asked for again; while
\* the doctor runs it is only noted.
Request ==
    /\ pump = "idle" /\ ~stopping /\ ready # Nothing
    /\ ReadyTarget \notin {last, inFlight}
    /\ pending' = ReadyTarget
    /\ IF doctor # "none" \/ ~Enqueue(ReadyTarget)
         THEN UNCHANGED <<running, pump>>
         ELSE running' = TRUE /\ pump' = "spawn"
    /\ UNCHANGED <<ready, loads, draining, inFlight, last, task, doctor, doctored, store, stopping, faults>>

Stopped == inFlight' = Nothing /\ running' = FALSE

\* The registry takes the task unless it is stopping or the last one has not
\* quite ended; a refusal takes the coordinator back.
Spawn ==
    /\ pump = "spawn"
    /\ pump' = "idle"
    /\ IF stopping \/ task # "none"
         THEN Stopped /\ UNCHANGED task
         ELSE task' = "top" /\ UNCHANGED <<inFlight, running>>
    /\ UNCHANGED <<ready, loads, draining, pending, last, doctor, doctored, store, stopping, faults>>

----------------------------------------------------------------------------
(* The repair task *)

taskOnly == <<ready, loads, draining, pump, doctor, doctored, stopping>>

Take ==
    /\ task = "top" /\ ~stopping /\ pending # Nothing
    /\ inFlight' = pending /\ pending' = Nothing /\ task' = "acquire"
    /\ UNCHANGED <<last, running, store, faults>> /\ UNCHANGED taskOnly

\* Nothing is pending: seen under one lock, said under the next.
Empty ==
    /\ task = "top" /\ ~stopping /\ pending = Nothing
    /\ task' = "stop"
    /\ UNCHANGED <<pending, inFlight, last, running, store, faults>> /\ UNCHANGED taskOnly

Cancelled ==
    /\ task \in {"top", "acquire"} /\ stopping
    /\ task' = "stop"
    /\ UNCHANGED <<pending, inFlight, last, running, store, faults>> /\ UNCHANGED taskOnly

\* The Repair lane admits the task: it has waited for every busier lane.
Acquire ==
    /\ task = "acquire" /\ ~stopping
    /\ task' = "reconcile"
    /\ UNCHANGED <<pending, inFlight, last, running, store, faults>> /\ UNCHANGED taskOnly

Repair ==
    /\ task = "reconcile"
    /\ Reconcile(inFlight.model)
    /\ task' = IF Dangling(inFlight.model) THEN "repend" ELSE "completed"
    /\ UNCHANGED <<pending, inFlight, last, running, faults>> /\ UNCHANGED taskOnly

RepairRepends ==
    /\ task = "repend"
    /\ Repend(inFlight.model)
    /\ task' = "completed"
    /\ UNCHANGED <<pending, inFlight, last, running, faults>> /\ UNCHANGED taskOnly

RepairFails ==
    /\ faults < MaxFaults /\ faults' = faults + 1
    /\ \/ task = "reconcile" /\ ReconcileBreaks(inFlight.model)
       \/ task = "repend" /\ RependBreaks(inFlight.model)
    /\ task' = "stop"
    /\ UNCHANGED <<pending, inFlight, last, running>> /\ UNCHANGED taskOnly

Completed ==
    /\ task = "completed"
    /\ inFlight' = Nothing /\ last' = inFlight /\ task' = "top"
    /\ UNCHANGED <<pending, running, store, faults>> /\ UNCHANGED taskOnly

\* Mutant: a task that ends leaves the coordinator running.
StopSilent ==
    /\ task = "stop" /\ task' = "exit" /\ inFlight' = Nothing
    /\ UNCHANGED <<pending, last, running, store, faults>> /\ UNCHANGED taskOnly

Stop ==
    /\ task = "stop" /\ task' = "exit" /\ Stopped
    /\ UNCHANGED <<pending, last, store, faults>> /\ UNCHANGED taskOnly

\* The registry learns that the thread has ended.
Exit ==
    /\ task = "exit" /\ task' = "none"
    /\ UNCHANGED <<pending, inFlight, last, running, store, faults>> /\ UNCHANGED taskOnly

----------------------------------------------------------------------------
(* The startup doctor *)

\* It captures what is Ready when it gets there; nothing Ready judges nothing.
DoctorCaptures ==
    /\ doctor = "begin" /\ ~stopping
    /\ IF ready = Nothing
         THEN doctor' = "walk" /\ UNCHANGED doctored
         ELSE doctor' = "reconcile" /\ doctored' = ReadyTarget
    /\ UNCHANGED <<ready, loads, draining, coord, store, stopping, faults>>

DoctorReconciles ==
    /\ doctor = "reconcile"
    /\ Reconcile(doctored.model)
    /\ doctor' = IF Dangling(doctored.model) THEN "repend" ELSE "walk"
    /\ UNCHANGED <<ready, loads, draining, coord, doctored, stopping, faults>>

DoctorRepends ==
    /\ doctor = "repend"
    /\ Repend(doctored.model)
    /\ doctor' = "walk"
    /\ UNCHANGED <<ready, loads, draining, coord, doctored, stopping, faults>>

\* A failed reconcile returns no target.
DoctorFails ==
    /\ faults < MaxFaults /\ faults' = faults + 1
    /\ \/ doctor = "reconcile" /\ ReconcileBreaks(doctored.model)
       \/ doctor = "repend" /\ RependBreaks(doctored.model)
    /\ doctor' = "walk" /\ doctored' = Nothing
    /\ UNCHANGED <<ready, loads, draining, coord, stopping>>

\* external_completed, after the walk of the roots; with no embedder Ready at
\* capture the empty target is recorded, which equals none the pump asks for.
DoctorEnds ==
    /\ doctor = "walk"
    /\ doctor' = "none" /\ doctored' = Nothing
    /\ last' = doctored
    /\ pending' = IF pending = doctored THEN Nothing ELSE pending
    /\ UNCHANGED <<ready, loads, draining, inFlight, running, pump, task, store, stopping, faults>>

Shutdown ==
    /\ ~stopping /\ stopping' = TRUE
    /\ UNCHANGED <<ready, loads, draining, coord, doctor, doctored, store, faults>>

----------------------------------------------------------------------------

TaskStep ==
    \/ Take \/ Empty \/ Cancelled \/ Acquire \/ Repair \/ RepairRepends \/ RepairFails
    \/ Completed \/ Stop \/ Exit
DoctorStep ==
    DoctorCaptures \/ DoctorReconciles \/ DoctorRepends \/ DoctorFails \/ DoctorEnds

Next ==
    \/ \E m \in Model : Load(m) \/ LoseFile(m)
    \/ Unload \/ Drain
    \/ \E i \in Image : Embed(i)
    \/ Request \/ Spawn \/ TaskStep \/ DoctorStep \/ Shutdown

(***************************************************************************)
(* Fairness: the pump polls for ever, threads run, the governor admits the *)
(* Repair lane in the end (a paused or always busier machine may not: then *)
(* nothing is repaired and nothing is promised).                           *)
(***************************************************************************)
Fairness == WF_vars(Request) /\ WF_vars(Spawn) /\ WF_vars(TaskStep) /\ WF_vars(DoctorStep)
Spec == Init /\ [][Next]_vars /\ Fairness

----------------------------------------------------------------------------
(* Properties *)

TypeOK ==
    /\ ready \in Model \cup {Nothing} /\ loads \in 0..MaxLoads
    /\ {pending, inFlight, last, doctored} \subseteq Target \cup {Nothing}
    /\ running \in BOOLEAN /\ pump \in {"idle", "spawn"}
    /\ task \in {"none", "top", "acquire", "reconcile", "repend", "completed", "stop", "exit"}
    /\ doctor \in {"none", "begin", "reconcile", "repend", "walk"}
    /\ rows \in [Model -> SUBSET Image] /\ file \subseteq Model
    /\ pass \in [Image -> Model \cup {Nothing}]
    /\ draining \in BOOLEAN /\ forsaken \subseteq Image \X Model
    /\ stopping \in BOOLEAN /\ faults \in 0..MaxFaults

\* `running` never outlives the task, or the spawn, it stands for: a coordinator
\* left running with nobody to run it would refuse every later repair.  And a
\* target is in flight only while the task holds it.
RunningIsOwned ==
    /\ running => pump = "spawn" \/ task \notin {"none", "exit"}
    /\ inFlight # Nothing => task \in {"acquire", "reconcile", "repend", "completed", "stop"}

\* The re-pend that follows the loss of the model's rows is still to come.
RependOwed(m) ==
    \/ task = "repend" /\ inFlight.model = m
    \/ doctor = "repend" /\ doctored.model = m

\* A pass done with the model that is Ready has its row in that model's space,
\* or search would miss the image for good: nothing re-pends a done pass.
\* The doctor must judge by "the model that actually WRITES" (runtime.rs:1182).
\* What a reconcile took by the word of a model that does not write, or before it
\* broke off, is excused, image by image, until it is embedded again.
DoneHasVector ==
    \A i \in Image : ready # Nothing /\ pass[i] = ready =>
        i \in rows[ready] \/ RependOwed(ready) \/ <<i, ready>> \in forsaken

\* The same without the excuse.
DoneAlwaysHasVector ==
    \A i \in Image : ready # Nothing /\ pass[i] = ready =>
        i \in rows[ready] \/ RependOwed(ready)

\* While the program runs, again and again the embedder that is Ready is the one
\* last reconciled for, past refused spawns, failed reconciles, older targets
\* and the doctor.
RepairFollows == []<>((~stopping /\ ready # Nothing) => last = ReadyTarget)
=============================================================================
