------------------------------- MODULE Pumps -------------------------------
(***************************************************************************)
(* The background pumps and what admits them (pump.rs, and                 *)
(* resource_governor.rs, disk.rs): essential ingest, previews, explicit    *)
(* RAW develops, embeddings, the six-hour maintenance and the reconcile    *)
(* that a wake from sleep asks for.  A pump looks whether it may work,     *)
(* waits for a lane of the governor, works a bounded batch and looks       *)
(* again.  A turn that finds no row is left out: it lasts one empty claim, *)
(* and the 500 ms of rest after it outlast the 100 ms poll of a waiter.    *)
(***************************************************************************)
EXTENDS Naturals, FiniteSets

CONSTANTS
    Budgets,        \* concurrent batches the intensities allow, one at least
    Ready,          \* which embedders are loaded, out of {"image", "text"}
    MaxRows,        \* bound: rows that arrive, for any pass
    MaxMoves        \* bound: changes of settings, microphone and disk, sleeps and errors

Pass == {"raw", "ingest", "preview", "image", "text"}
Lane == {"raw", "ingest", "preview", "embed", "resume", "maintain"}

VARIABLES
    rows,           \* Pass -> pending rows
    arrived,        \* rows so far
    at,             \* Lane -> where its pump is
    rig,            \* the passes the embedding batch claims
    heeds,          \* whether the embedding batch ends when the microphone is armed
    accel,          \* the image embedder runs on an accelerator
    budget, paused, \* the governor's settings
    full,           \* the disk governor's flag
    mic,            \* capture_live
    late,           \* Lane -> rows begun since the microphone was armed
    gap,            \* the machine slept and no pump has looked at the clock since
    missed,         \* files changed while it slept and no walk has seen them
    seeing,         \* the walks that began after the last sleep
    due,            \* six hours have passed
    moves

vars == <<rows, arrived, at, rig, heeds, accel, budget, paused, full, mic, late, gap, missed,
          seeing, due, moves>>
env == <<accel, budget, paused, full, mic>>
sleep == <<gap, missed, seeing, due>>

----------------------------------------------------------------------------
(* The governor. *)

Rank == [raw |-> 0, ingest |-> 1, preview |-> 2, embed |-> 4, resume |-> 5, maintain |-> 8]
Holds == {"turn", "item", "more"}
Active == {l \in Lane : at[l] \in Holds}

\* Mutant: a develop takes its place in the line.
CanAdmitInLine(l) ==
    /\ ~paused
    /\ \A other \in Lane : at[other] = "ask" => Rank[other] >= Rank[l]
    /\ Cardinality(Active) < budget

\* Mutant: the last seat is not given.
CanAdmitBelow(l) ==
    /\ paused => l = "raw"
    /\ l # "raw" =>
        /\ \A other \in Lane : at[other] = "ask" => Rank[other] >= Rank[l]
        /\ Cardinality(Active) + 1 < budget

CanAdmit(l) ==
    /\ paused => l = "raw"
    /\ l # "raw" =>
        /\ \A other \in Lane : at[other] = "ask" => Rank[other] >= Rank[l]
        /\ Cardinality(Active) < budget

----------------------------------------------------------------------------
(* What a pump looks at before it asks. *)

\* Armed, only an image embedder on an accelerator may work.
Rig == IF mic THEN (IF accel THEN {"image"} \cap Ready ELSE {}) ELSE Ready
Passes(l) == IF l = "embed" THEN rig ELSE {l} \cap Pass
Finds(l) == \E p \in (IF l = "embed" THEN Rig ELSE {l} \cap Pass) : rows[p] > 0

\* The status the maintenance reads: no pending row, no walk, no session.
Idle == (\A p \in Pass : rows[p] = 0) /\ at["resume"] # "turn" /\ ~mic

Wants(l) ==
    CASE l = "raw"      -> ~full /\ ~mic
      [] l = "ingest"   -> ~paused
      [] l \in {"preview", "embed"} -> ~paused /\ ~full
      [] l = "maintain" -> due /\ Idle /\ ~full /\ ~paused
      [] l = "resume"   -> FALSE

Look(l) ==
    /\ at[l] = "rest" /\ Wants(l) /\ (l # "maintain" => Finds(l))
    /\ at' = [at EXCEPT ![l] = "ask"]
    /\ UNCHANGED <<rows, arrived, rig, heeds, env, late, sleep, moves>>

\* The ingest pump compares wall clocks between its turns; one reconcile runs
\* at a time, and a gap seen while it does is let go.
Notice ==
    /\ at["ingest"] = "rest" /\ gap /\ gap' = FALSE
    /\ at' = IF at["resume"] = "none" THEN [at EXCEPT !["resume"] = "ask"] ELSE at
    /\ UNCHANGED <<rows, arrived, rig, heeds, env, late, missed, seeing, due, moves>>

----------------------------------------------------------------------------
(* A turn. *)

\* The embedding pump reads the microphone when it has its lane; a batch on an
\* accelerator does not heed the flag.
Admit(l) ==
    /\ at[l] = "ask" /\ CanAdmit(l)
    /\ at' = [at EXCEPT ![l] = "turn"]
    /\ IF l = "embed" THEN rig' = Rig /\ heeds' = ~mic ELSE UNCHANGED <<rig, heeds>>
    /\ seeing' = seeing \union ({l} \cap {"resume", "maintain"})
    /\ UNCHANGED <<rows, arrived, env, late, gap, missed, due, moves>>

\* Mutant: the develops are not told of the microphone.
HeedsEmbed(l) == l = "embed" /\ heeds

Heeds(l) == l = "raw" \/ (l = "embed" /\ heeds)

Goes(l) == ~(Heeds(l) /\ mic) /\ \E p \in Passes(l) : rows[p] > 0

\* The batch tests its flags, then claims.
Test(l) ==
    /\ at[l] \in {"turn", "more"} /\ Goes(l)
    /\ at' = [at EXCEPT ![l] = "item"]
    /\ UNCHANGED <<rows, arrived, rig, heeds, env, late, sleep, moves>>

Contends(l, p) == l = "raw" \/ p = "text" \/ (p = "image" /\ ~accel)

Item(l) ==
    /\ at[l] = "item"
    /\ \E p \in Passes(l) :
        /\ rows[p] > 0 /\ rows' = [rows EXCEPT ![p] = @ - 1]
        /\ late' = [late EXCEPT ![l] = IF mic /\ Contends(l, p) THEN @ + 1 ELSE @]
    /\ at' = [at EXCEPT ![l] = "more"]
    /\ UNCHANGED <<arrived, rig, heeds, env, sleep, moves>>

\* The batch is told to end, finds nothing or has its number of rows.
End(l) ==
    /\ l \notin {"resume", "maintain"}
    /\ at[l] = "more" \/ (at[l] = "turn" /\ ~Goes(l))
    /\ at' = [at EXCEPT ![l] = "rest"]
    /\ UNCHANGED <<rows, arrived, rig, heeds, env, late, sleep, moves>>

\* A walk of the roots, which a pause holds where it is.  It sees what changed
\* before it began; an error ends it short, and the maintenance stays due.
Walk(l) ==
    /\ l \in {"resume", "maintain"} /\ at[l] = "turn" /\ ~paused
    /\ at' = [at EXCEPT ![l] = IF l = "resume" THEN "none" ELSE "rest"]
    /\ \/ /\ missed' = (missed /\ l \notin seeing)
          /\ due' = (due /\ l # "maintain") /\ UNCHANGED moves
       \/ /\ moves < MaxMoves /\ moves' = moves + 1
          /\ UNCHANGED <<missed, due>>
    /\ UNCHANGED <<rows, arrived, rig, heeds, env, late, gap, seeing>>

----------------------------------------------------------------------------
(* The world. *)

Arrive(p) ==
    /\ arrived < MaxRows
    /\ arrived' = arrived + 1 /\ rows' = [rows EXCEPT ![p] = @ + 1]
    /\ UNCHANGED <<at, rig, heeds, env, late, sleep, moves>>

Move == moves < MaxMoves /\ moves' = moves + 1

Configure ==
    /\ Move /\ budget' \in Budgets /\ paused' \in BOOLEAN
    /\ UNCHANGED <<rows, arrived, at, rig, heeds, accel, full, mic, late, sleep>>

DiskTurns ==
    /\ Move /\ full' = ~full
    /\ UNCHANGED <<rows, arrived, at, rig, heeds, accel, budget, paused, mic, late, sleep>>

ToggleMic ==
    /\ Move /\ mic' = ~mic /\ late' = [l \in Lane |-> 0]
    /\ UNCHANGED <<rows, arrived, at, rig, heeds, accel, budget, paused, full, sleep>>

Suspend ==
    /\ Move /\ gap' = TRUE /\ missed' = TRUE /\ seeing' = {}
    /\ UNCHANGED <<rows, arrived, at, rig, heeds, env, late, due>>

FallDue ==
    /\ ~due /\ due' = TRUE
    /\ UNCHANGED <<rows, arrived, at, rig, heeds, env, late, gap, missed, seeing, moves>>

Init ==
    /\ rows = [p \in Pass |-> 0] /\ arrived = 0
    /\ at = [l \in Lane |-> IF l = "resume" THEN "none" ELSE "rest"]
    /\ rig = {} /\ heeds = TRUE /\ accel \in BOOLEAN
    /\ budget \in Budgets /\ paused = FALSE /\ full = FALSE /\ mic = FALSE
    /\ late = [l \in Lane |-> 0]
    /\ gap = FALSE /\ missed = FALSE /\ seeing = {} /\ due = FALSE /\ moves = 0

PumpStep(l) == Look(l) \/ (l = "ingest" /\ Notice) \/ Admit(l) \/ Test(l) \/ Item(l) \/ End(l) \/ Walk(l)

Next ==
    \/ \E l \in Lane : PumpStep(l)
    \/ \E p \in Pass : Arrive(p)
    \/ Configure \/ DiskTurns \/ ToggleMic \/ Suspend \/ FallDue

\* Each pump's thread goes on, and six hours pass.
PumpsFairness == WF_vars(FallDue) /\ \A l \in Lane : WF_vars(PumpStep(l))

PumpsSpec == Init /\ [][Next]_vars /\ PumpsFairness

----------------------------------------------------------------------------

PumpsTypeOK ==
    /\ rows \in [Pass -> 0..MaxRows] /\ arrived \in 0..MaxRows
    /\ at \in [Lane -> {"none", "rest", "ask", "turn", "item", "more"}]
    /\ rig \subseteq {"image", "text"} /\ {heeds, accel, paused, full, mic, gap, missed, due} \subseteq BOOLEAN
    /\ budget \in Budgets /\ late \in [Lane -> Nat] /\ seeing \subseteq Lane
    /\ moves \in 0..MaxMoves

\* Once the microphone is armed, a lane that shares the processor with the
\* recognizer begins at most the one row whose flags it had just tested.
MicPreempts == \A l \in Lane : late[l] <= 1

Open(p) ==
    CASE p = "raw"     -> ~full /\ ~mic
      [] p = "ingest"  -> ~paused
      [] p = "preview" -> ~paused /\ ~full
      [] p = "image"   -> ~paused /\ ~full /\ (~mic \/ accel) /\ "image" \in Ready
      [] p = "text"    -> ~paused /\ ~full /\ ~mic /\ "text" \in Ready

\* No lane starves: again and again, every pass that its policy admits has all
\* its rows worked, a develop even while the processing is paused.
NoLaneStarves == []<>(\A p \in Pass : Open(p) => rows[p] = 0)

\* What changed while the machine slept is seen by a walk in the end, also when
\* the wake's own reconcile was refused, fails or began before the last sleep.
WakeIsReconciled == <>[](\A p \in Pass : Open(p)) => (missed ~> ~missed)
=============================================================================
