----------------------------- MODULE FairParts -----------------------------
(***************************************************************************)
(* Four machines that share nothing and must get somewhere in the end, in  *)
(* one run: the path index of a root with one path, the repair of the      *)
(* vectors of two images, the download queue and the background pumps.     *)
(* One of them moves, the others rest.                                     *)
(***************************************************************************)
EXTENDS Naturals, Sequences, FiniteSets

CONSTANTS Path, Content, Missing, World, Id, MaxChanges, MaxUpsets  \* PathIndex
CONSTANTS Image, Embedder, MaxLoads, MaxFaults                      \* VectorRepair
CONSTANTS Wanted, Off, MaxEnqueued, MaxVerifies                     \* DownloadQueue
CONSTANTS Seats, Ready, MaxRows, MaxTurns                           \* Pumps

\* No model and no target of a repair is told from nothing.
ASSUME RepairAssumption ==
    Missing \notin Embedder /\ Missing \notin [model : Embedder, gen : Nat]

VARIABLES part
VARIABLES world, disk, stamp, rows, root, watch, events, dueAt, seeing, polled, walkDue, scan,
          muddled, departed, misled, moved, upsets
VARIABLES ready, loads, pending, inFlight, last, running, pump, task, doctor, doctored,
          vectors, file, pass, draining, forsaken, stopping, faults
VARIABLES row, line, flag, flipped, attempt, fresh, live, workers, closing, landed,
          busy, verifies, says, display, ends
VARIABLES passes, arrived, at, rig, heeds, accel, budget, paused, full, armed, begun, gap, missed,
          walks, sixHours, turns

indexVars == <<world, disk, stamp, rows, root, watch, events, dueAt, seeing, polled, walkDue, scan,
               muddled, departed, misled, moved, upsets>>
repairVars == <<ready, loads, pending, inFlight, last, running, pump, task, doctor, doctored,
                vectors, file, pass, draining, forsaken, stopping, faults>>
lineVars == <<row, line, flag, flipped, attempt, fresh, live, workers, closing, landed,
              busy, verifies, says, display, ends>>
pumpVars == <<passes, arrived, at, rig, heeds, accel, budget, paused, full, armed, begun, gap, missed,
              walks, sixHours, turns>>
fairVars == <<part, indexVars, repairVars, lineVars, pumpVars>>

Index == INSTANCE PathIndex WITH Nothing <- Missing, due <- dueAt
Repair == INSTANCE VectorRepair WITH Nothing <- Missing, Model <- Embedder, rows <- vectors
Queue == INSTANCE DownloadQueue
             WITH MaxAttempts <- MaxEnqueued, installed <- landed, shown <- display
Pump == INSTANCE Pumps
            WITH Budgets <- Seats, MaxMoves <- MaxTurns, rows <- passes, mic <- armed,
                 late <- begun, seeing <- walks, due <- sixHours, moves <- turns

\* The index of a removed root that had no file.
IndexRests ==
    /\ world = CHOOSE w \in World : TRUE
    /\ disk = [p \in Path |-> Missing] /\ stamp = 0 /\ rows = {} /\ root = "removed"
    /\ watch = FALSE /\ events = <<>> /\ dueAt = [p \in Path |-> Index!Resting]
    /\ seeing = Missing /\ polled = FALSE /\ walkDue = FALSE /\ scan = Index!NoScan
    /\ muddled = FALSE /\ departed = {} /\ misled = {} /\ moved = 0 /\ upsets = 0

\* The repair machine with its program already told to stop.
RepairRests ==
    /\ ready = Missing /\ loads = 0 /\ pending = Missing /\ inFlight = Missing /\ last = Missing
    /\ running = FALSE /\ pump = "idle" /\ task = "none" /\ doctor = "none" /\ doctored = Missing
    /\ vectors = [m \in Embedder |-> {}] /\ file = {} /\ pass = [i \in Image |-> Missing]
    /\ draining = FALSE /\ forsaken = {} /\ stopping = TRUE /\ faults = 0

\* Pumps with no row to work, while a capture session runs.
PumpsRest ==
    /\ passes = [p \in Pump!Pass |-> 0] /\ arrived = 0
    /\ at = [l \in Pump!Lane |-> IF l = "resume" THEN "none" ELSE "rest"]
    /\ rig = {} /\ heeds = TRUE /\ accel = TRUE
    /\ budget = CHOOSE b \in Seats : TRUE
    /\ paused = FALSE /\ full = FALSE /\ armed = TRUE /\ begun = [l \in Pump!Lane |-> 0]
    /\ gap = FALSE /\ missed = FALSE /\ walks = {} /\ sixHours = TRUE /\ turns = 0

\* The queue rests in its first state: nothing was asked of it.
FairInit ==
    \/ part = "index" /\ Index!Init /\ RepairRests /\ Queue!Init /\ PumpsRest
    \/ part = "repair" /\ IndexRests /\ Repair!Init /\ Queue!Init /\ PumpsRest
    \/ part = "queue" /\ IndexRests /\ RepairRests /\ Queue!Init /\ PumpsRest
    \/ part = "pumps" /\ IndexRests /\ RepairRests /\ Queue!Init /\ Pump!Init

PumpNumber == [raw |-> 1, ingest |-> 2, preview |-> 3, embed |-> 4, resume |-> 5, maintain |-> 6]

\* A step of one part leaves the others alone.
InIndex(A) == part = "index" /\ A /\ UNCHANGED <<part, repairVars, lineVars, pumpVars>>
InRepair(A) == part = "repair" /\ A /\ UNCHANGED <<part, indexVars, lineVars, pumpVars>>
InQueue(A) == part = "queue" /\ A /\ UNCHANGED <<part, indexVars, repairVars, pumpVars>>
InPumps(A) == part = "pumps" /\ A /\ UNCHANGED <<part, indexVars, repairVars, lineVars>>

FairNext == InIndex(Index!Next) \/ InRepair(Repair!Next) \/ InQueue(Queue!Next) \/ InPumps(Pump!Next)

\* A behaviour is of one part for ever, so the fair actions of the parts can
\* share their WF: the n-th is fair for the n-th action of every part.
Turn(n) ==
    \/ InIndex(CASE n = 1 -> Index!Watching
                 [] n = 2 -> Index!Scans
                 [] n = 3 -> Index!StartScan("watcher")
                 [] n = 4 -> Index!StartScan("start")
                 [] OTHER -> FALSE)
    \/ InRepair(CASE n = 1 -> Repair!Request
                  [] n = 2 -> Repair!Spawn
                  [] n = 3 -> Repair!TaskStep
                  [] n = 4 -> Repair!DoctorStep
                  [] OTHER -> FALSE)
    \/ InQueue(CASE n = 1 -> Queue!Work
                 [] n = 2 -> Queue!OtherLeaves
                 [] n = 3 -> \E e \in says : Queue!Publish(e)
                 [] OTHER -> FALSE)
    \/ InPumps(IF n = 7 THEN Pump!FallDue
               ELSE \E l \in Pump!Lane : n = PumpNumber[l] /\ Pump!PumpStep(l))

FairSpec == FairInit /\ [][FairNext]_fairVars /\ \A n \in 1..7 : WF_fairVars(Turn(n))

----------------------------------------------------------------------------
(* The properties of the parts, by their names there. *)

IndexConverges == Index!IndexConverges
DoneHasVector == Repair!DoneHasVector
RepairFollows == Repair!RepairFollows
DownloadSettles == Queue!DownloadSettles
MicPreempts == Pump!MicPreempts
NoLaneStarves == Pump!NoLaneStarves
WakeIsReconciled == Pump!WakeIsReconciled
=============================================================================
