----------------------------- MODULE SafeParts -----------------------------
(***************************************************************************)
(* Six machines of which only safety is asked: the supervisor machine, the *)
(* pass scheduler, the model files, the collections file, the path index   *)
(* of a root and the drains of the ingest pool.  They share nothing; one   *)
(* moves, the others stay where they began.                                *)
(***************************************************************************)
EXTENDS Supervisor, Integers

CONSTANTS Model, Wait, Unpause, MaxJobs, MaxTime, MaxLosses \* PassScheduler
CONSTANTS Weights, Nothing, Unreadable, AtRest, MaxVersion, MaxMishaps \* ModelFiles
CONSTANTS Name, No, Still, Torn, Newer, Foreign, MaxEdits, MaxSlips \* Collections
CONSTANTS Path, Content, Systems, Id, MaxChanges, MaxUpsets \* PathIndex
CONSTANTS Drain, Thread, Widths, MaxRows                    \* Pipeline

\* What the scheduler keeps in a slot or on the wire is told from nothing.
ASSUME SchedulerAssumption ==
    /\ MaxJobs \in Nat
    /\ Nothing \notin {"prompt", "stream", "ok", "error", "lost"}
    /\ Nothing \notin [id : Nat, retried : BOOLEAN]
    /\ Nothing \notin [id : Nat, model : Model, retried : BOOLEAN, cancelling : BOOLEAN]

\* A drain has a worker (ingest_parallelism is at least 1).
ASSUME PoolAssumption == Widths \subseteq Nat \ {0}

VARIABLES part
VARIABLES now, next, sched, wire, answers, lost, asked, losses
VARIABLES up, version, disk, index, known, unproved, commitDue, hidden, lock, loaded,
          doubtful, mishaps
VARIABLES clock, base, mirror, opened, unmarked, dirty, gen, enabled, flush, edits, slips
VARIABLES system, tree, stamp, rows, root, watch, events, due, seeing, polled, walkDue, scan,
          muddled, departed, misled, moved, upsets
VARIABLES pending, call, width, chan, spawned, queue, stack

schedVars == <<now, next, sched, wire, answers, lost, asked, losses>>
filesVars == <<up, version, disk, index, known, unproved, commitDue, hidden, lock, loaded,
               doubtful, mishaps>>
mirrorVars == <<clock, base, mirror, opened, unmarked, dirty, gen, enabled, flush, edits, slips>>
treeVars == <<system, tree, stamp, rows, root, watch, events, due, seeing, polled, walkDue, scan,
              muddled, departed, misled, moved, upsets>>
poolVars == <<pending, call, width, chan, spawned, queue, stack>>

Scheduler == INSTANCE PassScheduler WITH told <- answers
Files == INSTANCE ModelFiles WITH gate <- lock, Idle <- AtRest
Mirror == INSTANCE Collections
Paths == INSTANCE PathIndex WITH world <- system, disk <- tree, World <- Systems
Pool == INSTANCE Pipeline

PartsInit ==
    /\ part \in {"machine", "scheduler", "files", "mirror", "paths", "pool"}
    /\ Init /\ Scheduler!Init /\ Files!Init /\ Mirror!Init
    /\ Paths!Init /\ (part # "paths" => system = CHOOSE w \in Systems : TRUE)
    /\ Pool!Init /\ (part # "pool" => pending = [d \in Drain |-> 0])

PartsNext ==
    /\ UNCHANGED part
    /\ IF part = "machine" THEN Next ELSE UNCHANGED svars
    /\ IF part = "scheduler" THEN Scheduler!Next ELSE UNCHANGED schedVars
    /\ IF part = "files" THEN Files!Next ELSE UNCHANGED filesVars
    /\ IF part = "mirror" THEN Mirror!Next ELSE UNCHANGED mirrorVars
    /\ IF part = "paths" THEN Paths!Next ELSE UNCHANGED treeVars
    /\ IF part = "pool" THEN Pool!Next ELSE UNCHANGED poolVars

allVars == <<part, svars, schedVars, filesVars, mirrorVars, treeVars, poolVars>>
PartsSpec == PartsInit /\ [][PartsNext]_allVars

\* The pool alone, with its fairness.
PoolFairness ==
    /\ \A t \in Thread : WF_poolVars(Pool!ThreadStep(t))
    /\ \A d \in Drain : WF_poolVars(Pool!CallerWorks(d))
PoolSpec == part = "pool" /\ PartsInit /\ [][PartsNext]_allVars /\ PoolFairness

----------------------------------------------------------------------------
(* The properties of the parts, by their names there. *)

OneAnswer == Scheduler!OneAnswer
LoadedIsWhole == Files!LoadedIsWhole
CleanIsWritten == Mirror!CleanIsWritten
FastPathIsSound == Paths!FastPathIsSound
NothingInHand == Pool!NothingInHand
DrainEnds == Pool!DrainEnds
AbsenceIsProven == Paths!AbsenceIsProven
=============================================================================
