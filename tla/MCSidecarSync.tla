---------------------------- MODULE MCSidecarSync ----------------------------
(* Instances of SidecarSync for TLC: two threads, and which engine calls    *)
(* each of them makes.                                                      *)
EXTENDS SidecarSync, TLC

CONSTANTS p, q, d1, d2, r1

\* The sidecar pump, and a command thread that redacts and whose session close
\* flushes: all that the desktop shell ever runs.
TwoFlushers == (p :> {"flush"}) @@ (q :> {"flush", "redact"})

\* Two threads that flush and redact, one of which also runs the engine's scan.
Everyone == (p :> {"flush", "redact"})
            @@ (q :> {"flush", "redact", "migrate", "drain", "regen"})

(* Three kinds of behaviours in one run: the volume comes and goes and nobody
   edits the sidecar; or a sidecar is changed from outside at any moment and
   the volume moves once at most; or another machine's sidecar is there from
   the start, and is changed, on a volume that stays.  While an edit may come
   or has come p flushes and redacts and q migrates and drains. *)
Moved  == [moves |-> 0, edits |-> MaxEdits, crashes |-> MaxCrashes]
Edited == [moves |-> MaxMoves - 1, edits |-> 0, crashes |-> MaxCrashes]
Met    == [moves |-> MaxMoves, edits |-> 0, crashes |-> MaxCrashes]

MCInit ==
  /\ index = Blank /\ dirty = FALSE /\ upto = {} /\ queue = {}
  /\ ovf = NoFile /\ place \in Places /\ armed = FALSE
  /\ call = [t \in Thread |-> Resting] /\ temps = {} /\ done = {}
  /\ slips = {} /\ blind = {}
  /\ \/ spent = Moved /\ adj \in {Bare("none"), Bare("corrupt")}
     \/ spent = Edited /\ adj \in {Bare(k) : k \in Kinds \ {"doc"}}
     \/ spent = Met /\ adj \in {Doc([ids |-> Remote, husks |-> h]) : h \in SUBSET Remote}

Editing == spent.edits < MaxEdits \/ "edit" \in slips

MCNext ==
  /\ Next
  /\ Editing => call'[q].job \in {"none", "migrate", "drain"}

MCSpec == MCInit /\ [][MCNext]_vars
=============================================================================
