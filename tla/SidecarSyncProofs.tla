-------------------------- MODULE SidecarSyncProofs --------------------------
(***************************************************************************)
(* Proofs about SidecarSync, for every set of events and threads, every    *)
(* assignment of duties and every value of the bounds: no content the      *)
(* index lacks is destroyed; when nothing is left to do the files hold all *)
(* the index holds; a redaction reported as done does not come undone.     *)
(***************************************************************************)
EXTENDS SidecarSync, TLAPS

-----------------------------------------------------------------------------
(* Contents and calls. *)

LEMMA ContentsClosed ==
  ASSUME NEW a \in Contents(Event), NEW b \in Contents(Event), NEW e \in Event
  PROVE  /\ Blank \in Contents(Event)
         /\ Join(a, b) \in Contents(Event)
         /\ Insert(a, e) \in Contents(Event)
         /\ Scrub(a, e) \in Contents(Event)
         /\ a.ids \in SUBSET Event /\ a.husks \in SUBSET Event
BY DEF Contents, Blank, Join, Insert, Scrub

\* The records the actions make of a call are calls.
LEMMA RestingType == Resting \in Calls
BY TriesAssumption DEF Resting, Calls, Contents, Blank, Jobs

LEMMA StartType ==
  ASSUME NEW r \in Calls, NEW x \in SUBSET Event, NEW b \in Contents(Event)
  PROVE  /\ [r EXCEPT !.job = "flush", !.at = "locate"] \in Calls
         /\ [r EXCEPT !.job = "redact", !.at = "locate", !.about = x] \in Calls
         /\ [r EXCEPT !.job = "migrate", !.at = "pull", !.buf = b] \in Calls
         /\ [r EXCEPT !.job = "drain", !.at = "read", !.about = x] \in Calls
         /\ [r EXCEPT !.job = "regen", !.at = "read"] \in Calls
BY DEF Calls, Jobs

LEMMA AtType ==
  ASSUME NEW r \in Calls,
         NEW s \in {"read", "ingest", "aside", "snap", "rename", "seen",
                    "again", "enqueue", "verify"}
  PROVE  [r EXCEPT !.at = s] \in Calls
BY DEF Calls

LEMMA RouteType ==
  ASSUME NEW r \in Calls
  PROVE  /\ [r EXCEPT !.dest = "ovf", !.at = "snap"] \in Calls
         /\ [r EXCEPT !.job = "redactFar", !.dest = "ovf", !.at = "snap"] \in Calls
<1>1. [r EXCEPT !.dest = "ovf", !.at = "snap"] \in Calls
  BY DEF Calls
<1>2. [r EXCEPT !.job = "redactFar", !.dest = "ovf", !.at = "snap"] \in Calls
  BY DEF Calls, Jobs
<1> QED
  BY <1>1, <1>2

LEMMA ReadType ==
  ASSUME NEW r \in Calls, NEW b \in Contents(Event), NEW d \in {"adj", "ovf"},
         NEW s \in {"ingest", "aside", "snap"}
  PROVE  [r EXCEPT !.dest = d, !.buf = b, !.at = s] \in Calls
BY DEF Calls

LEMMA SnapType ==
  ASSUME NEW r \in Calls, NEW b \in Contents(Event)
  PROVE  [r EXCEPT !.buf = b, !.at = "temp"] \in Calls
BY DEF Calls

LEMMA ObserveType ==
  ASSUME NEW r \in Calls, NEW w \in BOOLEAN
  PROVE  [r EXCEPT !.saw = w, !.at = "ack"] \in Calls
BY DEF Calls

LEMMA RoundType ==
  ASSUME NEW r \in Calls, NEW n \in 0 .. MaxTries
  PROVE  [r EXCEPT !.at = "again", !.tries = n] \in Calls
BY DEF Calls

LEMMA RemoveType ==
  ASSUME NEW r \in Calls, NEW x \in SUBSET Event
  PROVE  [r EXCEPT !.at = "remove", !.about = x] \in Calls
BY DEF Calls

-----------------------------------------------------------------------------
(* Type correctness.  The rounds of the re-verify loop stay within the       *)
(* bound because a thread goes round again only while it has tries left.     *)

TriesLeft ==
  \A t \in Thread :
    call[t].at \notin {"idle", "again", "verify", "remove"} => call[t].tries < MaxTries

TypeInv == TypeOK /\ TriesLeft

LEMMA TypeInit == Init => TypeInv
<1> SUFFICES ASSUME Init PROVE TypeInv
  OBVIOUS
<1>1. adj \in Files
  BY DEF Init, Files, Kinds, Bare, Doc, Contents, Blank, Event
<1>2. ovf \in Files
  BY DEF Init, Files, Kinds, Bare, NoFile, Contents, Blank
<1>3. index \in Contents(Event)
  BY DEF Init, Contents, Blank
<1>4. call \in [Thread -> Calls] /\ \A t \in Thread : call[t].at = "idle"
  BY RestingType DEF Init, Resting
<1>5. spent \in [moves : 0 .. MaxMoves, edits : 0 .. MaxEdits,
                 crashes : 0 .. MaxCrashes]
  BY BoundAssumption DEF Init
<1> QED
  BY <1>1, <1>2, <1>3, <1>4, <1>5 DEF Init, TypeInv, TypeOK, TriesLeft

LEMMA TypeStart ==
  ASSUME TypeInv, NEW t \in Thread, Start(t), blind' \subseteq Thread
  PROVE  TypeInv'
<1> USE DEF TypeInv, TypeOK, TriesLeft, Begin, store, files
<1>1. call[t] \in Calls /\ call[t].tries < MaxTries
  BY TriesAssumption DEF Start, StartFlush, StartRedact, StartMigrate, StartDrain,
     StartRegen, Resting
<1>2. CASE StartFlush(t)
  <2>1. call' \in [Thread -> Calls]
    BY <1>1, <1>2, StartType, ContentsClosed DEF StartFlush
  <2>2. TriesLeft'
    BY <1>1, <1>2, <2>1 DEF StartFlush, Calls
  <2> QED
    BY <1>2, <2>1, <2>2 DEF StartFlush
<1>3. CASE StartMigrate(t)
  <2>1. ovf.body \in Contents(Event)
    BY DEF Files
  <2>2. call' \in [Thread -> Calls]
    BY <1>1, <1>3, <2>1, StartType DEF StartMigrate
  <2>3. TriesLeft'
    BY <1>1, <1>3, <2>2 DEF StartMigrate, Calls
  <2> QED
    BY <1>3, <2>2, <2>3 DEF StartMigrate
<1>4. CASE StartDrain(t)
  <2>1. call' \in [Thread -> Calls]
    BY <1>1, <1>4, StartType, ContentsClosed DEF StartDrain
  <2>2. TriesLeft'
    BY <1>1, <1>4, <2>1 DEF StartDrain, Calls
  <2> QED
    BY <1>4, <2>1, <2>2 DEF StartDrain
<1>5. CASE StartRegen(t)
  <2>1. call' \in [Thread -> Calls]
    BY <1>1, <1>5, StartType, ContentsClosed DEF StartRegen
  <2>2. TriesLeft'
    BY <1>1, <1>5, <2>1 DEF StartRegen, Calls
  <2> QED
    BY <1>5, <2>1, <2>2 DEF StartRegen
<1>6. ASSUME NEW e \in Event, StartRedact(t, e)
      PROVE  TypeInv'
  <2> DEFINE r == [call[t] EXCEPT !.job = "redact", !.at = "locate", !.about = {e}]
  <2>0. r \in Calls
    BY <1>1, StartType, ContentsClosed
  <2>1. call' \in [Thread -> Calls]
    BY <1>1, <1>6, <2>0 DEF StartRedact
  <2>2. TriesLeft'
    BY <1>1, <1>6, <2>1 DEF StartRedact, Calls
  <2>3. index' \in Contents(Event) /\ dirty' \in BOOLEAN /\ upto' \subseteq Thread
    BY <1>6, ContentsClosed DEF StartRedact, MarkDirty
  <2> QED
    BY <1>6, <2>1, <2>2, <2>3 DEF StartRedact
<1> QED
  BY <1>2, <1>3, <1>4, <1>5, <1>6 DEF Start
LEMMA TypeEnd ==
  ASSUME TypeOK, TriesLeft, NEW t \in Thread
  PROVE  /\ Finish(t) => /\ call' \in [Thread -> Calls] /\ TriesLeft'
                         /\ armed' \in BOOLEAN /\ done' \subseteq Event
         /\ Fail(t)   => /\ call' \in [Thread -> Calls] /\ TriesLeft'
                         /\ armed' \in BOOLEAN /\ done' \subseteq Event
                         /\ temps' \subseteq Thread /\ slips' \subseteq slips \union {"error"}
<1> USE DEF TypeOK, TriesLeft
<1>1. ASSUME call' = [call EXCEPT ![t] = Resting]
      PROVE  call' \in [Thread -> Calls] /\ TriesLeft'
  <2>1. call' \in [Thread -> Calls]
    BY <1>1, RestingType
  <2> QED
    BY <1>1, <2>1 DEF Resting
<1>2. call[t].about \in SUBSET Event
  BY DEF Calls
<1> QED
  BY <1>1, <1>2 DEF Finish, Fail
LEMMA TypeGoto ==
  ASSUME TypeOK, TriesLeft, NEW t \in Thread,
         NEW s \in {"read", "ingest", "aside", "snap", "rename", "seen",
                    "again", "enqueue", "verify"}, Goto(t, s),
         s = "verify" \/ call[t].tries < MaxTries
  PROVE  call' \in [Thread -> Calls] /\ TriesLeft'
<1> USE DEF TypeOK, TriesLeft, Goto
<1>1. call' \in [Thread -> Calls]
  BY AtType
<1> QED
  BY <1>1 DEF Calls

LEMMA TypeMerge ==
  ASSUME TypeOK, TriesLeft, NEW t \in Thread, NEW s \in {"read", "snap"},
         call[t].tries < MaxTries, MergeThen(t, s), blind' \subseteq Thread
  PROVE  TypeInv'
<1> USE DEF TypeOK
<1>1. index' \in Contents(Event)
  <2>1. call[t].buf \in Contents(Event)
    BY DEF Calls
  <2>2. index' = Join(index, call[t].buf)
    BY DEF MergeThen, Merge
  <2> QED
    BY <2>1, <2>2 DEF Contents, Join
<1>2. dirty' \in BOOLEAN /\ upto' \subseteq Thread
  BY DEF MergeThen, Merge, MarkDirty
<1>3. CASE Goto(t, s) /\ UNCHANGED <<armed, temps, done, slips>>
  BY <1>1, <1>2, <1>3, TypeGoto DEF MergeThen, files, TypeInv
<1>4. CASE Fail(t)
  BY <1>1, <1>2, <1>4, TypeEnd DEF MergeThen, files, TypeInv
<1> QED
  BY <1>3, <1>4 DEF MergeThen

LEMMA TypeWritten ==
  ASSUME TypeOK, TriesLeft, NEW t \in Thread, call[t].tries < MaxTries, Written(t)
  PROVE  /\ call' \in [Thread -> Calls] /\ TriesLeft'
         /\ temps' \subseteq Thread
<1>1. temps' \subseteq Thread
  BY DEF TypeOK, Written
<1> QED
  BY <1>1, TypeGoto DEF Written

LEMMA TypeWrap ==
  ASSUME TypeOK, TriesLeft, NEW t \in Thread, Wrap(t)
  PROVE  /\ call' \in [Thread -> Calls] /\ TriesLeft'
         /\ armed' \in BOOLEAN /\ done' \subseteq Event
<1>1. CASE Goto(t, "verify") /\ UNCHANGED <<armed, done>>
  BY <1>1, TypeGoto DEF TypeOK
<1>2. CASE Finish(t)
  BY <1>2, TypeEnd
<1> QED
  BY <1>1, <1>2 DEF Wrap

LEMMA TypeStep ==
  ASSUME TypeInv, NEW t \in Thread, Step(t), blind' \subseteq Thread
  PROVE  TypeInv'
<1> USE DEF TypeInv, TypeOK, store, files
<1>1. call[t] \in Calls
  OBVIOUS
<1>2. call[t].at \notin {"idle", "again", "verify", "remove"} => call[t].tries < MaxTries
  BY DEF TriesLeft
\* Any step that puts a well-typed record in t's place and does not use tries up.
<1>3. ASSUME NEW r \in Calls, call' = [call EXCEPT ![t] = r],
             call[t].tries < MaxTries, r.tries = call[t].tries
      PROVE  call' \in [Thread -> Calls] /\ TriesLeft'
  BY <1>3 DEF TriesLeft
<1>4. CASE Locate(t)
  <2>1. CASE Defer(t)
    BY <1>4, <2>1, TypeEnd DEF Locate, Defer
  <2>2. CASE /\ Goto(t, "read") \/ \E r \in Calls : /\ call' = [call EXCEPT ![t] = r]
                                                   /\ r.tries = call[t].tries
             /\ UNCHANGED <<dirty, upto, armed, done>>
    <3>1. call' \in [Thread -> Calls] /\ TriesLeft'
      BY <1>2, <1>3, <1>4, <2>2, TypeGoto DEF Locate
    <3> QED
      BY <1>4, <2>2, <3>1 DEF Locate
  <2>3. /\ [call[t] EXCEPT !.dest = "ovf", !.at = "snap"].tries = call[t].tries
        /\ [call[t] EXCEPT !.job = "redactFar", !.dest = "ovf", !.at = "snap"].tries
             = call[t].tries
    BY <1>1 DEF Calls
  <2> QED
    BY <1>1, <1>4, <2>1, <2>2, <2>3, RouteType DEF Locate
<1>5. CASE Pull(t)
  BY <1>2, <1>5, TypeMerge DEF Pull
<1>6. CASE Read(t)
  <2> DEFINE kind == IF place = "offline" THEN "none" ELSE adj.kind
             d == IF kind \in {"newer", "foreign"} THEN "ovf" ELSE "adj"
             b == IF kind = "doc" THEN adj.body ELSE call[t].buf
             s == CASE kind = "doc" -> "ingest"
                    [] kind = "corrupt" -> "aside"
                    [] OTHER -> "snap"
             r == [call[t] EXCEPT !.dest = d, !.buf = b, !.at = s]
  <2>1. d \in {"adj", "ovf"} /\ s \in {"ingest", "aside", "snap"}
    OBVIOUS
  <2>2. b \in Contents(Event)
    BY <1>1 DEF Calls, Files
  <2>3. call' = [call EXCEPT ![t] = r]
    BY <1>6 DEF Read
  <2> HIDE DEF d, b, s
  <2>4. r \in Calls /\ r.tries = call[t].tries
    <3>1. r \in Calls
      BY <1>1, <2>1, <2>2, ReadType
    <3> QED
      BY <1>1, <3>1 DEF Calls
  <2>5. call[t].tries < MaxTries
    BY <1>2, <1>6 DEF Read
  <2> HIDE DEF r
  <2>6. call' \in [Thread -> Calls] /\ TriesLeft'
    BY <1>3, <2>3, <2>4, <2>5
  <2> QED
    BY <1>6, <2>6 DEF Read
<1>7. CASE Ingest(t)
  BY <1>2, <1>7, TypeMerge DEF Ingest
<1>8. CASE Aside(t)
  <2>1. CASE /\ adj' = NoFile /\ Goto(t, "snap") /\ UNCHANGED <<armed, temps, done>>
             /\ slips' \subseteq slips \union {"aside"}
    <3>1. NoFile \in Files
      BY DEF NoFile, Bare, Files, Kinds, Contents, Blank
    <3>2. call' \in [Thread -> Calls] /\ TriesLeft'
      BY <1>2, <1>8, <2>1, TypeGoto DEF Aside
    <3> QED
      BY <1>8, <2>1, <3>1, <3>2 DEF Aside
  <2>2. CASE Fail(t) /\ UNCHANGED adj
    BY <1>8, <2>2, TypeEnd DEF Aside
  <2> QED
    BY <1>8, <2>1, <2>2 DEF Aside
<1>9. CASE Snap(t)
  <2> DEFINE r == [call[t] EXCEPT !.buf = index, !.at = "temp"]
  <2>1. r \in Calls
    BY <1>1, SnapType
  <2>2. r.tries = call[t].tries /\ call[t].tries < MaxTries
    BY <1>1, <1>2, <1>9 DEF Snap, Calls
  <2>3. call' = [call EXCEPT ![t] = r]
    BY <1>9 DEF Snap
  <2> HIDE DEF r
  <2>4. call' \in [Thread -> Calls] /\ TriesLeft'
    BY <1>3, <2>1, <2>2, <2>3
  <2> QED
    BY <1>9, <2>4 DEF Snap
<1>10. CASE Temp(t)
  <2>1. CASE Written(t)
    BY <1>2, <1>10, <2>1, TypeWritten DEF Temp, Written
  <2>2. CASE temps' = temps \union {t} /\ Goto(t, "rename") /\ UNCHANGED <<armed, done, slips>>
    BY <1>2, <1>10, <2>2, TypeGoto DEF Temp
  <2>3. CASE Fail(t)
    BY <1>10, <2>3, TypeEnd DEF Temp
  <2> QED
    BY <1>10, <2>1, <2>2, <2>3 DEF Temp
<1>11. CASE Rename(t)
  <2>1. CASE Written(t)
    <3>1. Doc(call[t].buf) \in Files
      BY <1>1 DEF Doc, Files, Kinds, Calls
    <3>2. adj' \in Files /\ ovf' \in Files
      BY <1>11, <3>1, <2>1 DEF Rename
    <3> QED
      BY <1>2, <1>11, <2>1, <3>2, TypeWritten DEF Rename, Written
  <2>2. CASE Fail(t) /\ UNCHANGED files
    BY <1>11, <2>2, TypeEnd DEF Rename
  <2> QED
    BY <1>11, <2>1, <2>2 DEF Rename
<1>12. CASE Observe(t)
  <2> DEFINE r == [call[t] EXCEPT !.saw = dirty, !.at = "ack"]
  <2>1. r \in Calls
    BY <1>1, ObserveType
  <2>2. r.tries = call[t].tries /\ call[t].tries < MaxTries
    BY <1>1, <1>2, <1>12 DEF Observe, Calls
  <2>3. call' = [call EXCEPT ![t] = r]
    BY <1>12 DEF Observe
  <2> HIDE DEF r
  <2>4. call' \in [Thread -> Calls] /\ TriesLeft'
    BY <1>3, <2>1, <2>2, <2>3
  <2> QED
    BY <1>12, <2>4 DEF Observe
<1>13. CASE Ack(t)
  <2>1. dirty' \in BOOLEAN /\ upto' \subseteq Thread
    BY <1>13 DEF Ack, AckDirty
  <2>2. CASE Adjacent(t)
    <3> DEFINE r == [call[t] EXCEPT !.at = "again", !.tries = call[t].tries + 1]
    <3>1. call[t].tries + 1 \in 0 .. MaxTries
      BY <1>1, <1>2, <1>13, TriesAssumption DEF Ack, Calls
    <3>2. r \in Calls
      BY <1>1, <3>1, RoundType
    <3>3. call' = [call EXCEPT ![t] = r]
      BY <1>13, <2>2 DEF Ack
    <3>4. r.at = "again"
      BY <1>1 DEF Calls
    <3> HIDE DEF r
    <3>5. call' \in [Thread -> Calls] /\ TriesLeft'
      BY <3>2, <3>3, <3>4 DEF TriesLeft
    <3> QED
      BY <1>13, <2>1, <2>2, <3>5 DEF Ack
  <2>3. CASE ~Adjacent(t)
    BY <1>13, <2>1, <2>3, TypeWrap DEF Ack, Unverified
  <2> QED
    BY <2>2, <2>3
<1>14. CASE Again(t)
  <2>1. CASE /\ call[t].tries < MaxTries
             /\ Goto(t, "snap") /\ UNCHANGED <<armed, done, slips>>
    BY <1>14, <2>1, TypeGoto DEF Again
  <2>2. CASE Wrap(t) /\ slips' \subseteq slips \union {"exhausted"}
    BY <1>14, <2>2, TypeWrap DEF Again
  <2> QED
    BY <1>14, <2>1, <2>2 DEF Again
<1>15. CASE Enqueue(t)
  <2>1. call[t].about \subseteq Event
    BY <1>1 DEF Calls
  <2> QED
    BY <1>15, <2>1, TypeEnd DEF Enqueue, Unverified
<1>16. CASE Verify(t)
  <2> DEFINE r == [call[t] EXCEPT !.at = "remove",
                     !.about = {e \in call[t].about : ~Shows(adj.body, e)}]
  <2>1. r \in Calls
    BY <1>1, RemoveType DEF Calls
  <2>2. r.at = "remove" /\ Resting.at = "idle"
    BY <1>1 DEF Calls, Resting
  <2>3. call' = [call EXCEPT ![t] = r] \/ call' = [call EXCEPT ![t] = Resting]
    <3>1. CASE place # "offline" /\ adj.kind = "doc"
      BY <1>16, <3>1 DEF Verify
    <3>2. CASE ~(place # "offline" /\ adj.kind = "doc")
      BY <1>16, <3>2 DEF Verify
    <3> QED
      BY <3>1, <3>2
  <2> HIDE DEF r
  <2>4. call' \in [Thread -> Calls] /\ TriesLeft'
    BY <2>1, <2>2, <2>3, RestingType DEF TriesLeft
  <2> QED
    BY <1>16, <2>4 DEF Verify
<1>17. CASE Remove(t)
  <2>1. ovf' \in Files
    BY <1>17 DEF Remove, NoFile, Bare, Files, Kinds, Contents, Blank
  <2>2. call' \in [Thread -> Calls] /\ TriesLeft'
    BY <1>17, RestingType DEF Remove, TriesLeft, Resting
  <2> QED
    BY <1>17, <2>1, <2>2 DEF Remove
<1> QED
  BY <1>4, <1>5, <1>6, <1>7, <1>8, <1>9, <1>10, <1>11, <1>12, <1>13,
     <1>14, <1>15, <1>16, <1>17 DEF Step
LEMMA TypeWorld ==
  ASSUME TypeInv, blind' \subseteq Thread,
         Move \/ Edit \/ Crash \/ (\E e \in Local : Append(e)) \/ UNCHANGED vars
  PROVE  TypeInv'
<1> USE DEF TypeInv, TypeOK, store, files
<1>1. ASSUME NEW e \in Local, Append(e)
      PROVE  TypeInv'
  <2>1. index' \in Contents(Event)
    BY <1>1, ContentsClosed DEF Append, Event
  <2> QED
    BY <1>1, <2>1 DEF Append, MarkDirty, TriesLeft
<1>2. CASE Move
  <2>1. spent' \in [moves : 0 .. MaxMoves, edits : 0 .. MaxEdits, crashes : 0 .. MaxCrashes]
    BY <1>2, BoundAssumption DEF Move
  <2> QED
    BY <1>2, <2>1 DEF Move, TriesLeft
<1>3. CASE Edit
  <2>1. spent' \in [moves : 0 .. MaxMoves, edits : 0 .. MaxEdits, crashes : 0 .. MaxCrashes]
    BY <1>3, BoundAssumption DEF Edit
  <2>2. adj' \in Files
    <3>1. index.ids \subseteq Event /\ Remote \subseteq Event
      BY DEF Contents, Event
    <3> QED
      BY <1>3, <3>1 DEF Edit, Files, Kinds, Bare, Doc, Contents, Blank
  <2> QED
    BY <1>3, <2>1, <2>2 DEF Edit, TriesLeft
<1>4. CASE Crash
  <2>1. spent' \in [moves : 0 .. MaxMoves, edits : 0 .. MaxEdits, crashes : 0 .. MaxCrashes]
    BY <1>4, BoundAssumption DEF Crash
  <2>2. call' \in [Thread -> Calls] /\ TriesLeft'
    BY <1>4, RestingType DEF Crash, TriesLeft, Resting
  <2> QED
    BY <1>4, <2>1, <2>2 DEF Crash
<1>5. CASE UNCHANGED vars
  BY <1>5 DEF vars, TriesLeft
<1> QED
  BY <1>1, <1>2, <1>3, <1>4, <1>5

LEMMA TypeNext == TypeInv /\ [Next]_vars => TypeInv'
<1> SUFFICES ASSUME TypeInv, [Next]_vars PROVE TypeInv'
  OBVIOUS
<1>1. blind' \subseteq Thread
  BY DEF Next, Track, vars, TypeInv, TypeOK
<1> QED
  BY <1>1, TypeStart, TypeStep, TypeWorld DEF Next

\* Every variable keeps its type; in particular the re-verify loop never runs
\* more than MaxTries rounds.
THEOREM TypeCorrect == Spec => []TypeOK
<1>1. TypeInv /\ [Next]_vars => TypeInv'
  BY TypeNext
<1> QED
  BY <1>1, TypeInit, PTL DEF Spec, TypeInv
-----------------------------------------------------------------------------
(* Nothing is destroyed.  A thread that acts on what it saw of the slot has   *)
(* merged it, or knows that it is the app's, unless it is blind: it looked    *)
(* while the volume was away, or the file was changed from outside since.     *)
(* What is said of the buffers and of the overflow file holds for all.        *)

LEMMA StillSighted ==
  ASSUME Track, NEW t \in Thread, t \notin blind',
         call'[t].at \notin {"idle", "locate", "pull", "read"}
  PROVE  /\ t \notin blind /\ spent'.edits = spent.edits
         /\ call[t].at = "read" => place # "offline"
BY DEF Track

\* The file in the slot is the app's to replace, and the index has it all.
Ours ==
  adj.kind \in {"none", "doc", "corrupt"} /\ Within(adj.body, index)

\* What thread t's progress says of the file and of its buffer: whatever it
\* holds is in the index, unless it is about to be merged; and from the read
\* on, the slot holds nothing that a thread with open eyes will lose.
Held(t) ==
  /\ call[t].at # "ingest" => Within(call[t].buf, index)
  /\ t \notin blind =>
       /\ call[t].at = "ingest" =>
            /\ adj.kind \in {"none", "doc", "corrupt"}
            /\ Within(adj.body, Join(index, call[t].buf))
       /\ \/ call[t].at = "aside"
          \/ Adjacent(t) /\ call[t].at \in {"snap", "temp", "rename", "seen", "ack", "again"}
          => Ours

Guarded ==
  /\ Within(ovf.body, index)
  /\ adj.kind # "doc" => adj.body = Blank
  /\ \A t \in Thread : Held(t)

SafeInv == TypeInv /\ Guarded

LEMMA WithinOrder ==
  ASSUME NEW a, NEW b, NEW c
  PROVE  /\ Within(a, a) /\ Within(Blank, a)
         /\ Within(a, b) /\ Within(b, c) => Within(a, c)
         /\ Within(a, Join(a, b)) /\ Within(b, Join(a, b))
         /\ Within(a, c) => Within(Join(a, b), Join(c, b))
BY DEF Within, Join, Blank

\* A step of thread t that leaves the files alone disturbs nobody else.
LEMMA OthersHold ==
  ASSUME Guarded, NEW t, Within(index, index'), UNCHANGED files, Track,
         \A u \in Thread \ {t} : call'[u] = call[u],
         t \in Thread => Held(t)'
  PROVE  Guarded'
<1>1. Within(ovf.body, index)' /\ (adj.kind # "doc" => adj.body = Blank)'
  BY WithinOrder DEF Guarded, files
<1>2. Ours => Ours'
  BY WithinOrder DEF Ours, files
<1>3. ASSUME NEW u \in Thread \ {t}
      PROVE  Held(u)'
  <2>1. call'[u] = call[u] /\ Held(u) /\ adj' = adj
    BY <1>3 DEF Guarded, files
  <2>4. u \in blind' \/ u \notin blind \/ call'[u].at \in {"idle", "locate", "pull", "read"}
    BY StillSighted
  <2>2. Within(call[u].buf, index) => Within(call[u].buf, index')
    BY WithinOrder
  <2>3. Within(adj.body, Join(index, call[u].buf)) => Within(adj.body, Join(index', call[u].buf))
    BY DEF Within, Join
  <2> QED
    BY <1>2, <2>1, <2>2, <2>3, <2>4 DEF Held, Adjacent
<1> QED
  BY <1>1, <1>3 DEF Guarded

\* A step of thread t after which the file in the slot is the app's again.
LEMMA ReplacedHold ==
  ASSUME Guarded, NEW t \in Thread, index' = index, ovf' = ovf, Ours',
         (adj.kind # "doc" => adj.body = Blank)',
         \A u \in Thread \ {t} : call'[u] = call[u],
         Held(t)'
  PROVE  Guarded'
<1>1. ASSUME NEW u \in Thread \ {t}
      PROVE  Held(u)'
  <2>1. call'[u] = call[u] /\ Held(u)
    BY <1>1 DEF Guarded
  <2>2. Within(adj.body, Join(index, call[u].buf))'
    BY DEF Ours, Within, Join
  <2> QED
    BY <2>1, <2>2 DEF Held, Adjacent, Ours
<1> QED
  BY <1>1 DEF Guarded
\* Ending a call: an idle thread holds nothing.
LEMMA RestingHolds ==
  ASSUME TypeOK, NEW t \in Thread, call' = [call EXCEPT ![t] = Resting]
  PROVE  Held(t)' /\ \A u \in Thread \ {t} : call'[u] = call[u]
BY WithinOrder DEF TypeOK, Held, Resting, Adjacent, Blank

\* Moving on within a call that already is past the read, or never reads.
LEMMA GotoHolds ==
  ASSUME TypeOK, NEW t \in Thread, NEW s \in {"read", "snap", "rename", "seen",
                                            "again", "enqueue", "verify"},
         Goto(t, s), Within(call[t].buf, index'),
         Track,
         (t \notin blind /\ Adjacent(t) /\ s \in {"snap", "rename", "seen", "again"}) => Ours'
  PROVE  Held(t)' /\ \A u \in Thread \ {t} : call'[u] = call[u]
<1>1. call[t] \in Calls /\ call'[t] = [call[t] EXCEPT !.at = s]
  BY DEF TypeOK, Goto
<1>2. /\ call'[t].at = s /\ call'[t].buf = call[t].buf /\ call'[t].dest = call[t].dest
      /\ \A u \in Thread \ {t} : call'[u] = call[u]
  BY <1>1 DEF TypeOK, Goto, Calls
<1>3. t \in blind' \/ t \notin blind \/ s = "read"
  BY <1>2, StillSighted
<1> QED
  BY <1>2, <1>3 DEF Held, Adjacent

LEMMA SafeStart ==
  ASSUME SafeInv, NEW t \in Thread, Start(t), Track
  PROVE  Guarded'
<1> USE DEF SafeInv, TypeInv, TypeOK
<1>1. call[t] \in Calls /\ call[t].buf = Blank /\ call[t].dest = "adj" /\ UNCHANGED files
  BY DEF Start, StartFlush, StartRedact, StartMigrate, StartDrain, StartRegen, Begin, Resting
<1>2. Within(index, index')
  BY DEF Start, StartFlush, StartRedact, StartMigrate, StartDrain, StartRegen,
     store, Within, Scrub, Contents
<1>3. \A u \in Thread \ {t} : call'[u] = call[u]
  BY DEF Start, StartFlush, StartRedact, StartMigrate, StartDrain, StartRegen
<1>4. CASE StartMigrate(t)
  <2>1. call'[t].at = "pull" /\ call'[t].buf = ovf.body /\ index' = index
    BY <1>1, <1>4 DEF StartMigrate, store, Calls
  <2>2. Held(t)'
    BY <2>1 DEF Held, Guarded
  <2> QED
    BY <1>1, <1>2, <1>3, <2>2, OthersHold
<1>5. CASE ~StartMigrate(t)
  <2>1. call'[t].at \in {"idle", "locate", "read"} /\ call'[t].buf = Blank
    BY <1>1, <1>5 DEF Start, StartFlush, StartRedact, StartDrain, StartRegen,
       Begin, Resting, Calls
  <2>2. Held(t)'
    BY <2>1, WithinOrder DEF Held
  <2> QED
    BY <1>1, <1>2, <1>3, <2>2, OthersHold
<1> QED
  BY <1>4, <1>5

LEMMA SafeMerge ==
  ASSUME SafeInv, NEW t \in Thread, NEW s \in {"read", "snap"}, MergeThen(t, s),
         Track,
         (t \notin blind /\ Adjacent(t) /\ s = "snap") =>
            /\ adj.kind \in {"none", "doc", "corrupt"}
            /\ Within(adj.body, Join(index, call[t].buf))
  PROVE  Guarded'
<1> USE DEF SafeInv, TypeInv
<1>1. index' = Join(index, call[t].buf) /\ UNCHANGED files
  BY DEF MergeThen, Merge
<1>2. Within(index, index') /\ Within(call[t].buf, index')
  BY <1>1, WithinOrder
<1>3. CASE Goto(t, s)
  <2>1. (t \notin blind /\ Adjacent(t) /\ s = "snap") => Ours'
    BY <1>1 DEF Ours, files
  <2> QED
    BY <1>1, <1>2, <1>3, <2>1, GotoHolds, OthersHold
<1>4. CASE Fail(t)
  BY <1>1, <1>2, <1>4, RestingHolds, OthersHold DEF Fail
<1> QED
  BY <1>3, <1>4 DEF MergeThen
LEMMA SafeStep ==
  ASSUME SafeInv, NEW t \in Thread, Step(t), Track
  PROVE  Guarded'
<1> USE DEF SafeInv, TypeInv
<1>1. call[t] \in Calls /\ Held(t)
  BY DEF TypeOK, Guarded
<1>2. Within(index, index)
  BY WithinOrder
<1>0. t \in blind' \/ t \notin blind \/ call'[t].at \in {"idle", "locate", "pull", "read"}
  BY StillSighted
<1>3. CASE Locate(t)
  <2>1. UNCHANGED files /\ index' = index
    BY <1>3 DEF Locate, files
  <2>2. CASE Defer(t)
    BY <1>2, <2>1, <2>2, RestingHolds, OthersHold DEF Defer, Finish
  <2>3. CASE Goto(t, "read")
    BY <1>1, <1>2, <1>3, <2>1, <2>3, GotoHolds, OthersHold DEF Held, Locate
  <2>4. ASSUME NEW r \in Calls, call' = [call EXCEPT ![t] = r],
               r.at = "snap", r.dest = "ovf", r.buf = call[t].buf
        PROVE  Guarded'
    <3>1. call'[t] = r /\ \A u \in Thread \ {t} : call'[u] = call[u]
      BY <2>4 DEF TypeOK
    <3>2. Held(t)'
      BY <1>1, <1>3, <2>1, <2>4, <3>1 DEF Held, Adjacent, Locate
    <3> QED
      BY <1>2, <2>1, <3>1, <3>2, OthersHold
  <2>5. CASE call' = [call EXCEPT ![t].dest = "ovf", ![t].at = "snap"]
    <3> DEFINE r == [call[t] EXCEPT !.dest = "ovf", !.at = "snap"]
    <3>1. r \in Calls
      BY <1>1, RouteType
    <3>2. r.at = "snap" /\ r.dest = "ovf" /\ r.buf = call[t].buf
      BY <1>1 DEF Calls
    <3> QED
      BY <2>4, <2>5, <3>1, <3>2
  <2>6. CASE call' = [call EXCEPT ![t].job = "redactFar", ![t].dest = "ovf",
                                 ![t].at = "snap"]
    <3> DEFINE r == [call[t] EXCEPT !.job = "redactFar", !.dest = "ovf", !.at = "snap"]
    <3>1. r \in Calls
      BY <1>1, RouteType
    <3>2. r.at = "snap" /\ r.dest = "ovf" /\ r.buf = call[t].buf
      BY <1>1 DEF Calls
    <3> QED
      BY <2>4, <2>6, <3>1, <3>2
  <2> QED
    BY <1>3, <2>2, <2>3, <2>5, <2>6 DEF Locate
<1>4. CASE Pull(t)
  BY <1>4, SafeMerge DEF Pull
<1>5. CASE Read(t)
  <2>1. t \notin blind' /\ call'[t].at \notin {"idle", "locate", "pull", "read"} =>
          place # "offline"
    BY <1>5, StillSighted DEF Read
  <2>2. UNCHANGED files /\ index' = index /\ \A u \in Thread \ {t} : call'[u] = call[u]
    BY <1>5 DEF Read, store, files, TypeOK
  <2> DEFINE kind == IF place = "offline" THEN "none" ELSE adj.kind
  <2>3. /\ call'[t].at = CASE kind = "doc" -> "ingest"
                           [] kind = "corrupt" -> "aside"
                           [] OTHER -> "snap"
        /\ call'[t].dest = IF kind \in {"newer", "foreign"} THEN "ovf" ELSE "adj"
        /\ call'[t].buf = IF kind = "doc" THEN adj.body ELSE call[t].buf
    BY <1>1, <1>5 DEF Read, TypeOK, Calls
  <2>4. adj.kind # "doc" => Within(adj.body, index)
    BY WithinOrder DEF Guarded
  <2>5. Within(adj.body, Join(index, adj.body))
    BY WithinOrder
  <2>6. adj.kind \in {"none", "doc", "newer", "foreign", "corrupt"}
    BY DEF TypeOK, Files, Kinds
  <2>7. Within(call[t].buf, index)
    BY <1>1, <1>5 DEF Held, Read
  <2>8. t \notin blind' => kind = adj.kind
    BY <2>1, <2>3
  <2>9. kind \in {"none", "doc", "newer", "foreign", "corrupt"}
    BY <2>6
  <2> HIDE DEF kind
  <2>10. Held(t)'
    BY <2>2, <2>3, <2>4, <2>5, <2>6, <2>7, <2>8, <2>9 DEF Held, Adjacent, Ours, files
  <2> QED
    BY <1>2, <2>2, <2>10, OthersHold
<1>6. CASE Ingest(t)
  BY <1>1, <1>6, SafeMerge DEF Ingest, Held
<1>7. CASE Aside(t)
  <2>1. CASE adj' = NoFile /\ Goto(t, "snap")
    <3>1. index' = index /\ ovf' = ovf
      BY <1>7 DEF Aside, store
    <3>2. Ours' /\ (adj.kind # "doc" => adj.body = Blank)'
      BY <2>1, WithinOrder DEF Ours, NoFile, Bare
    <3>3. Held(t)' /\ \A u \in Thread \ {t} : call'[u] = call[u]
      BY <1>1, <1>7, <2>1, <3>1, <3>2, GotoHolds DEF Aside, Held
    <3> QED
      BY <3>1, <3>2, <3>3, ReplacedHold
  <2>2. CASE Fail(t) /\ UNCHANGED adj
    BY <1>2, <1>7, <2>2, RestingHolds, OthersHold DEF Aside, Fail, files, store
  <2> QED
    BY <1>7, <2>1, <2>2 DEF Aside
<1>8. CASE Snap(t)
  <2>1. UNCHANGED files /\ index' = index /\ \A u \in Thread \ {t} : call'[u] = call[u]
    BY <1>8 DEF Snap, store, files, TypeOK
  <2>2. call'[t].at = "temp" /\ call'[t].buf = index /\ call'[t].dest = call[t].dest
    BY <1>1, <1>8 DEF Snap, TypeOK, Calls
  <2>3. Held(t)'
    BY <1>0, <1>1, <1>2, <1>8, <2>1, <2>2 DEF Held, Adjacent, Ours, files, Snap
  <2> QED
    BY <1>2, <2>1, <2>3, OthersHold
<1>9. CASE Temp(t)
  <2>1. UNCHANGED files /\ index' = index
    BY <1>9 DEF Temp, store, files
  <2>2. Within(call[t].buf, index) /\ (t \notin blind /\ Adjacent(t) => Ours')
    BY <1>1, <1>9, <2>1 DEF Temp, Held, Ours, files
  <2>3. CASE Goto(t, "enqueue") \/ Goto(t, "seen") \/ Goto(t, "rename")
    BY <1>2, <2>1, <2>2, <2>3, GotoHolds, OthersHold
  <2>4. CASE Fail(t)
    BY <1>2, <2>1, <2>4, RestingHolds, OthersHold DEF Fail
  <2> QED
    BY <1>9, <2>3, <2>4 DEF Temp, Written
<1>10. CASE Rename(t)
  <2>1. index' = index /\ Within(call[t].buf, index)
    BY <1>1, <1>10 DEF Rename, store, Held
  <2>2. CASE Fail(t) /\ UNCHANGED files
    BY <1>2, <2>1, <2>2, RestingHolds, OthersHold DEF Fail
  <2>3. CASE Adjacent(t) /\ adj' = Doc(call[t].buf) /\ UNCHANGED ovf /\ Written(t)
    <3>1. Ours' /\ (adj.kind # "doc" => adj.body = Blank)'
      BY <2>1, <2>3 DEF Ours, Doc
    <3>2. Held(t)' /\ \A u \in Thread \ {t} : call'[u] = call[u]
      BY <2>1, <2>3, <3>1, GotoHolds DEF Written
    <3> QED
      BY <2>1, <2>3, <3>1, <3>2, ReplacedHold
  <2>4. CASE ~Adjacent(t) /\ ovf' = Doc(call[t].buf) /\ UNCHANGED adj /\ Written(t)
    <3>1. Held(t)' /\ \A u \in Thread \ {t} : call'[u] = call[u]
      BY <2>1, <2>4, GotoHolds DEF Written
    <3>2. ASSUME NEW u \in Thread \ {t}
          PROVE  Held(u)'
      <4>1. u \in blind' \/ u \notin blind \/ call'[u].at \in {"idle", "locate", "pull", "read"}
        BY StillSighted
      <4> QED
        BY <2>1, <2>4, <3>1, <4>1 DEF Guarded, Held, Adjacent, Ours
    <3> QED
      BY <2>1, <2>4, <3>1, <3>2 DEF Guarded, Doc
  <2> QED
    BY <1>10, <2>2, <2>3, <2>4 DEF Rename
<1>11. CASE Observe(t)
  <2>1. UNCHANGED files /\ index' = index /\ \A u \in Thread \ {t} : call'[u] = call[u]
    BY <1>11 DEF Observe, store, files, TypeOK
  <2>2. call'[t].at = "ack" /\ call'[t].buf = call[t].buf /\ call'[t].dest = call[t].dest
    BY <1>1, <1>11 DEF Observe, TypeOK, Calls
  <2>3. Held(t)'
    BY <1>0, <1>1, <1>11, <2>1, <2>2 DEF Held, Adjacent, Ours, files, Observe
  <2> QED
    BY <1>2, <2>1, <2>3, OthersHold
<1>12. CASE Ack(t)
  <2>1. UNCHANGED files /\ index' = index
    BY <1>12 DEF Ack, files
  <2>2. CASE Adjacent(t)
    <3>1. \A u \in Thread \ {t} : call'[u] = call[u]
      BY <1>12, <2>2 DEF Ack, TypeOK
    <3>2. call'[t].at = "again" /\ call'[t].buf = call[t].buf /\ call'[t].dest = call[t].dest
      BY <1>1, <1>12, <2>2 DEF Ack, TypeOK, Calls
    <3>3. Held(t)'
      BY <1>0, <1>1, <1>12, <2>1, <3>2 DEF Held, Adjacent, Ours, files, Ack
    <3> QED
      BY <1>2, <2>1, <3>1, <3>3, OthersHold
  <2>3. CASE ~Adjacent(t)
    BY <1>2, <1>12, <2>1, <2>3, RestingHolds, OthersHold DEF Ack, Wrap, Finish
  <2> QED
    BY <2>2, <2>3
<1>13. CASE Again(t)
  <2>1. UNCHANGED files /\ index' = index
    BY <1>13 DEF Again, store, files
  <2>2. Within(call[t].buf, index) /\ (t \notin blind /\ Adjacent(t) => Ours')
    BY <1>1, <1>13, <2>1 DEF Again, Held, Ours, files
  <2>3. CASE Goto(t, "snap") \/ Goto(t, "verify")
    BY <1>2, <2>1, <2>2, <2>3, GotoHolds, OthersHold
  <2>4. CASE Finish(t)
    BY <1>2, <2>1, <2>4, RestingHolds, OthersHold DEF Finish
  <2> QED
    BY <1>13, <2>3, <2>4 DEF Again, Wrap
<1>14. CASE Enqueue(t)
  BY <1>2, <1>14, RestingHolds, OthersHold DEF Enqueue, Finish, files
<1>15. CASE Verify(t)
  <2>1. UNCHANGED files /\ index' = index
    BY <1>15 DEF Verify, store, files
  <2>2. CASE call' = [call EXCEPT ![t] = Resting]
    BY <1>2, <2>1, <2>2, RestingHolds, OthersHold
  <2>3. CASE call' = [call EXCEPT ![t].at = "remove", ![t].about =
                         {e \in @ : ~Shows(adj.body, e)}]
    <3>1. \A u \in Thread \ {t} : call'[u] = call[u]
      BY <2>3 DEF TypeOK
    <3>2. call'[t].at = "remove" /\ call'[t].buf = call[t].buf
      BY <1>1, <2>3 DEF TypeOK, Calls
    <3>3. Held(t)'
      BY <1>1, <1>15, <2>1, <3>2 DEF Held, Verify
    <3> QED
      BY <1>2, <2>1, <3>1, <3>3, OthersHold
  <2> QED
    BY <1>15, <2>2, <2>3 DEF Verify
<1>16. CASE Remove(t)
  <2>1. index' = index /\ adj' = adj /\ (ovf' = ovf \/ ovf' = NoFile)
    BY <1>16 DEF Remove
  <2>2. Held(t)' /\ \A u \in Thread \ {t} : call'[u] = call[u]
    BY <1>16, RestingHolds DEF Remove
  <2>3. ASSUME NEW u \in Thread \ {t}
        PROVE  Held(u)'
    <3>1. u \in blind' \/ u \notin blind \/ call'[u].at \in {"idle", "locate", "pull", "read"}
      BY StillSighted
    <3> QED
      BY <2>1, <2>2, <3>1 DEF Guarded, Held, Adjacent, Ours
  <2>4. Within(NoFile.body, index)
    BY WithinOrder DEF NoFile, Bare
  <2> QED
    BY <2>1, <2>2, <2>3, <2>4 DEF Guarded
<1> QED
  BY <1>3, <1>4, <1>5, <1>6, <1>7, <1>8, <1>9, <1>10, <1>11, <1>12, <1>13,
     <1>14, <1>15, <1>16 DEF Step
LEMMA SafeWorld ==
  ASSUME SafeInv, Track,
         Move \/ Edit \/ Crash \/ (\E e \in Local : Append(e))
  PROVE  Guarded'
<1> USE DEF SafeInv, TypeInv
<1>0. ASSUME NEW t \in Thread
      PROVE  t \in blind' \/ t \notin blind \/ call'[t].at \in {"idle", "locate", "pull", "read"}
  BY StillSighted
<1>1. ASSUME NEW e \in Local, Append(e)
      PROVE  Guarded'
  <2>1. Within(index, index') /\ UNCHANGED <<files, call>>
    BY <1>1 DEF Append, Within, Insert, TypeOK, Contents
  <2>2. \A t \in Thread : Held(t)'
    <3>1. Ours => Ours'
      BY <2>1, WithinOrder DEF Ours, files
    <3>2. ASSUME NEW t \in Thread
          PROVE  Held(t)'
      <4>1. Within(adj.body, Join(index, call[t].buf)) => Within(adj.body, Join(index', call[t].buf))
        BY <2>1 DEF Within, Join
      <4>2. Within(call[t].buf, index) => Within(call[t].buf, index')
        BY <2>1, WithinOrder
      <4> QED
        BY <1>0, <2>1, <3>1, <4>1, <4>2 DEF Held, Adjacent, Guarded, files
    <3> QED
      BY <3>2
  <2> QED
    BY <2>1, <2>2, WithinOrder DEF Guarded, files
<1>2. CASE Move
  BY <1>0, <1>2 DEF Move, store, files, Guarded, Held, Ours, Adjacent
<1>3. CASE Edit
  <2>1. call' = call /\ index' = index /\ ovf' = ovf
    BY <1>3 DEF Edit, store
  <2>2. (adj.kind # "doc" => adj.body = Blank)'
    BY <1>3 DEF Edit, Bare, Doc
  <2>3. ASSUME NEW t \in Thread
        PROVE  t \in blind' \/ call'[t].at \in {"idle", "locate", "pull", "read"}
    <3>1. spent'.edits # spent.edits
      BY <1>3, BoundAssumption DEF Edit, TypeOK
    <3> QED
      BY <3>1, StillSighted
  <2>4. \A t \in Thread : Held(t)'
    BY <2>1, <2>3 DEF Guarded, Held, Ours, Adjacent
  <2> QED
    BY <2>1, <2>2, <2>4 DEF Guarded
<1>4. CASE Crash
  <2>1. index' = index /\ UNCHANGED files /\ call' = [t \in Thread |-> Resting]
    BY <1>4 DEF Crash, files
  <2>2. \A t \in Thread : Held(t)'
    BY <2>1, WithinOrder DEF Held, Resting, Blank
  <2> QED
    BY <2>1, <2>2 DEF Guarded, files
<1> QED
  BY <1>1, <1>2, <1>3, <1>4

LEMMA SafeInit == Init => SafeInv
<1> SUFFICES ASSUME Init PROVE Guarded
  BY TypeInit DEF SafeInv
<1>1. Within(ovf.body, index) /\ (adj.kind # "doc" => adj.body = Blank)
  BY WithinOrder DEF Init, NoFile, Bare, Doc
<1>2. \A t \in Thread : Held(t)
  BY WithinOrder DEF Init, Held, Resting
<1> QED
  BY <1>1, <1>2 DEF Guarded

LEMMA SafeNext == SafeInv /\ [Next]_vars => SafeInv'
<1> SUFFICES ASSUME SafeInv, [Next]_vars PROVE SafeInv'
  OBVIOUS
<1>1. CASE Next
  <2>1. Guarded'
    BY <1>1, SafeStart, SafeStep, SafeWorld DEF Next
  <2> QED
    BY <2>1, TypeNext DEF SafeInv
<1>2. CASE UNCHANGED vars
  BY <1>2, TypeNext DEF vars, SafeInv, Guarded, Held, Ours, Adjacent
<1> QED
  BY <1>1, <1>2

\* A step that replaces or removes a file loses nothing of it.
LEMMA KeepsAll ==
  ASSUME SafeInv, [Next]_vars
  PROVE  /\ \A t \in Thread \ blind :
              (call'[t] # call[t] /\ adj' # adj) =>
                Within(adj.body, index') /\ adj.kind \notin {"newer", "foreign"}
         /\ ovf' # ovf => Within(ovf.body, index')
<1> USE DEF SafeInv, TypeInv
<1>1. ASSUME ovf' # ovf
      PROVE  Within(ovf.body, index')
  <2>1. index' = index
    BY <1>1, ZenonT(30) DEF Next, Start, StartFlush, StartRedact, StartMigrate, StartDrain,
       StartRegen, Begin, Step, Locate, Pull, Read, Ingest, MergeThen, Aside,
       Snap, Temp, Rename, Observe, Ack, Again, Enqueue, Verify, Remove, Move,
       Edit, Crash, Append, store, files, vars
  <2> QED
    BY <2>1 DEF Guarded
<1>2. ASSUME NEW t \in Thread \ blind, call'[t] # call[t], adj' # adj
      PROVE  Within(adj.body, index') /\ adj.kind \notin {"newer", "foreign"}
  <2>1. PICK u \in Thread : Aside(u) \/ (Rename(u) /\ Adjacent(u))
    <3>1. ~Edit
      BY <1>2 DEF Edit
    <3> QED
      BY <1>2, <3>1, ZenonT(30) DEF Next, Start, StartFlush, StartRedact, StartMigrate, StartDrain,
         StartRegen, Begin, Step, Locate, Pull, Read, Ingest, MergeThen, Snap,
         Temp, Rename, Observe, Ack, Again, Enqueue, Verify, Remove, Move, Crash,
         Append, store, files, vars
  <2>2. index' = index /\ call[u].at \in {"aside", "rename"}
    BY <2>1 DEF Aside, Rename, store
  <2>3. u = t
    <3>1. \A v \in Thread \ {u} : call'[v] = call[v]
      BY <2>1 DEF Aside, Rename, Written, Goto, Fail, TypeOK
    <3> QED
      BY <1>2, <3>1
  <2> QED
    BY <2>1, <2>2, <2>3 DEF Guarded, Held, Ours, Adjacent, Rename, Aside
<1> QED
  BY <1>1, <1>2

\* Whatever the app overwrites, renames aside or deletes is in the index by
\* then, and it never touches a newer version's file or a user's file, unless
\* the very thread that does so looked at the slot while the volume was away, or
\* before someone outside changed it: for any number of threads and events, with
\* volumes that come and go, kills, and outside changes at any moment.
THEOREM NothingDestroyed == Spec => NeverDestroy
<1>1. SafeInv /\ [Next]_vars =>
        [/\ \A t \in Thread \ blind :
               (call'[t] # call[t] /\ adj' # adj) =>
                 Within(adj.body, index') /\ adj.kind \notin {"newer", "foreign"}
         /\ ovf' # ovf => Within(ovf.body, index')]_vars
  BY KeepsAll
<1> QED
  BY <1>1, SafeInit, SafeNext, PTL DEF Spec, NeverDestroy

-----------------------------------------------------------------------------
(* What a step does to the record of a thread's call. *)

Others(t) == \A u \in Thread \ {t} : call'[u] = call[u]

LEMMA GotoShape ==
  ASSUME TypeOK, NEW t \in Thread, NEW s, Goto(t, s)
  PROVE  /\ call'[t].at = s /\ call'[t].job = call[t].job
         /\ call'[t].about = call[t].about /\ call'[t].dest = call[t].dest
         /\ call'[t].buf = call[t].buf /\ call'[t].tries = call[t].tries
         /\ Others(t)
<1>1. call[t] \in Calls
  BY DEF TypeOK
<1>2. call'[t] = [call[t] EXCEPT !.at = s] /\ Others(t)
  BY DEF TypeOK, Goto, Others
<1> QED
  BY <1>1, <1>2 DEF Calls

LEMMA RestShape ==
  ASSUME TypeOK, NEW t \in Thread, call' = [call EXCEPT ![t] = Resting]
  PROVE  call'[t] = Resting /\ Others(t)
BY DEF TypeOK, Others

LEMMA LocateShape ==
  ASSUME TypeOK, NEW t \in Thread, Locate(t)
  PROVE  /\ Others(t) /\ UNCHANGED <<index, dirty, queue, files, done, slips>>
         /\ \/ call'[t] = Resting
            \/ /\ call'[t].at = "read" /\ call'[t].job = call[t].job
               /\ call'[t].dest = call[t].dest /\ call'[t].about = call[t].about
               /\ call'[t].buf = call[t].buf /\ call'[t].tries = call[t].tries
            \/ /\ call'[t].at = "snap" /\ call'[t].dest = "ovf"
               /\ \/ call[t].job = "flush" /\ call'[t].job = "flush"
                  \/ call[t].job = "redact" /\ call'[t].job = "redactFar"
               /\ call'[t].about = call[t].about /\ call'[t].buf = call[t].buf
               /\ call'[t].tries = call[t].tries
<1>1. call[t] \in Calls
  BY DEF TypeOK
<1>2. UNCHANGED <<index, queue, files, slips>>
  BY DEF Locate, files
<1>3. CASE Defer(t) /\ call[t].job = "flush"
  <2>1. call'[t] = Resting /\ Others(t)
    BY <1>3, RestShape DEF Defer, Finish
  <2>2. UNCHANGED <<dirty, done>>
    BY <1>3 DEF Defer, Finish
  <2> QED
    BY <1>2, <2>1, <2>2
<1>4. CASE Goto(t, "read") /\ UNCHANGED <<dirty, done>>
  <2>1. /\ call'[t].at = "read" /\ call'[t].job = call[t].job
        /\ call'[t].about = call[t].about /\ call'[t].dest = call[t].dest
        /\ call'[t].buf = call[t].buf /\ call'[t].tries = call[t].tries
        /\ Others(t)
    BY <1>4, GotoShape
  <2> QED
    BY <1>2, <1>4, <2>1
<1>5. CASE /\ call' = [call EXCEPT ![t].dest = "ovf", ![t].at = "snap"]
           /\ call[t].job = "flush" /\ UNCHANGED <<dirty, done>>
  <2>1. call'[t] = [call[t] EXCEPT !.dest = "ovf", !.at = "snap"] /\ Others(t)
    BY <1>5 DEF TypeOK, Others
  <2>2. /\ call'[t].at = "snap" /\ call'[t].dest = "ovf" /\ call'[t].job = call[t].job
        /\ call'[t].about = call[t].about /\ call'[t].buf = call[t].buf
        /\ call'[t].tries = call[t].tries
    BY <1>1, <2>1 DEF Calls
  <2> QED
    BY <1>2, <1>5, <2>1, <2>2
<1>6. CASE /\ call' = [call EXCEPT ![t].job = "redactFar", ![t].dest = "ovf",
                                  ![t].at = "snap"]
           /\ call[t].job = "redact" /\ UNCHANGED <<dirty, done>>
  <2>1. /\ call'[t] = [call[t] EXCEPT !.job = "redactFar", !.dest = "ovf", !.at = "snap"]
        /\ Others(t)
    BY <1>6 DEF TypeOK, Others
  <2>2. /\ call'[t].at = "snap" /\ call'[t].dest = "ovf" /\ call'[t].job = "redactFar"
        /\ call'[t].about = call[t].about /\ call'[t].buf = call[t].buf
        /\ call'[t].tries = call[t].tries
    BY <1>1, <2>1 DEF Calls
  <2> QED
    BY <1>2, <1>6, <2>1, <2>2
<1> QED
  BY <1>3, <1>4, <1>5, <1>6 DEF Locate

LEMMA ReadShape ==
  ASSUME TypeOK, NEW t \in Thread, Read(t)
  PROVE  /\ Others(t) /\ UNCHANGED <<index, dirty, queue, files, done, slips>>
         /\ call'[t].at \in {"ingest", "aside", "snap"}
         /\ call'[t].job = call[t].job /\ call'[t].about = call[t].about
         /\ call'[t].tries = call[t].tries
         /\ \/ call'[t].dest = "adj"
            \/ call'[t].dest = "ovf" /\ adj.kind \in {"newer", "foreign"}
         /\ call'[t].buf \in {adj.body, call[t].buf}
<1>1. call[t] \in Calls
  BY DEF TypeOK
<1> DEFINE kind == IF place = "offline" THEN "none" ELSE adj.kind
<1>2. /\ call'[t].at = CASE kind = "doc" -> "ingest"
                         [] kind = "corrupt" -> "aside"
                         [] OTHER -> "snap"
      /\ call'[t].dest = IF kind \in {"newer", "foreign"} THEN "ovf" ELSE "adj"
      /\ call'[t].buf = IF kind = "doc" THEN adj.body ELSE call[t].buf
      /\ call'[t].job = call[t].job /\ call'[t].about = call[t].about
      /\ call'[t].tries = call[t].tries
  BY <1>1 DEF Read, TypeOK, Calls
<1>3. Others(t) /\ UNCHANGED <<index, dirty, queue, files, done, slips>>
  BY DEF Read, store, files, TypeOK, Others
<1>4. kind \in {"newer", "foreign"} => adj.kind \in {"newer", "foreign"}
  OBVIOUS
<1> HIDE DEF kind
<1> QED
  BY <1>2, <1>3, <1>4

LEMMA StartShape ==
  ASSUME TypeOK, NEW t \in Thread, Start(t)
  PROVE  /\ Others(t) /\ UNCHANGED <<files, done, slips>> /\ queue' = queue
         /\ call[t] = Resting
         /\ call'[t].at \in {"idle", "locate", "pull", "read"}
         /\ call'[t].dest = "adj" /\ call'[t].tries = 0
         /\ call'[t].buf \in {Blank, ovf.body}
         /\ call'[t].job # "redactFar"
         /\ call'[t].job = "drain" => call'[t].about = queue
         /\ \/ /\ call'[t].job # "redact" /\ index' = index
               /\ UNCHANGED dirty
            \/ \E e \in index.ids :
                 /\ index' = Scrub(index, e)
                 /\ dirty' = TRUE
                 /\ call'[t].job = "redact" => call'[t].about = {e}
<1>1. call[t] = Resting /\ call[t] \in Calls /\ UNCHANGED <<files, done, slips>>
  BY DEF Start, StartFlush, StartRedact, StartMigrate, StartDrain, StartRegen, Begin, TypeOK
<1>2. Others(t)
  BY DEF Start, StartFlush, StartRedact, StartMigrate, StartDrain, StartRegen, Others, TypeOK
<1>3. /\ call[t].at = "idle" /\ call[t].dest = "adj" /\ call[t].tries = 0
      /\ call[t].buf = Blank /\ call[t].job = "none"
  BY <1>1 DEF Resting
<1>4. CASE StartFlush(t)
  <2>1. /\ call'[t].at = "locate" /\ call'[t].job = "flush" /\ call'[t].dest = call[t].dest
        /\ call'[t].buf = call[t].buf /\ call'[t].tries = call[t].tries
    BY <1>1, <1>4 DEF StartFlush, TypeOK, Calls
  <2>2. UNCHANGED <<index, dirty, queue>>
    BY <1>4 DEF StartFlush, store
  <2> QED
    BY <1>1, <1>2, <1>3, <2>1, <2>2
<1>5. CASE StartMigrate(t)
  <2>1. /\ call'[t].at = "pull" /\ call'[t].job = "migrate" /\ call'[t].dest = call[t].dest
        /\ call'[t].buf = ovf.body /\ call'[t].tries = call[t].tries
    BY <1>1, <1>5 DEF StartMigrate, TypeOK, Calls
  <2>2. UNCHANGED <<index, dirty, queue>>
    BY <1>5 DEF StartMigrate, store
  <2> QED
    BY <1>1, <1>2, <1>3, <2>1, <2>2
<1>6. CASE StartDrain(t)
  <2>1. /\ call'[t].at = "read" /\ call'[t].job = "drain" /\ call'[t].dest = call[t].dest
        /\ call'[t].buf = call[t].buf /\ call'[t].tries = call[t].tries
        /\ call'[t].about = queue
    BY <1>1, <1>6 DEF StartDrain, TypeOK, Calls
  <2>2. UNCHANGED <<index, dirty, queue>>
    BY <1>6 DEF StartDrain, store
  <2> QED
    BY <1>1, <1>2, <1>3, <2>1, <2>2
<1>7. CASE StartRegen(t)
  <2>1. /\ call'[t].at = "read" /\ call'[t].job = "regen" /\ call'[t].dest = call[t].dest
        /\ call'[t].buf = call[t].buf /\ call'[t].tries = call[t].tries
    BY <1>1, <1>7 DEF StartRegen, TypeOK, Calls
  <2>2. UNCHANGED <<index, dirty, queue>>
    BY <1>7 DEF StartRegen, store
  <2> QED
    BY <1>1, <1>2, <1>3, <2>1, <2>2
<1>8. ASSUME NEW e \in Event, StartRedact(t, e)
      PROVE  /\ Others(t) /\ UNCHANGED <<files, done, slips>> /\ queue' = queue
             /\ call[t] = Resting
             /\ call'[t].at \in {"idle", "locate"} /\ call'[t].dest = "adj"
             /\ call'[t].tries = 0 /\ call'[t].buf = Blank
             /\ call'[t].job \notin {"redactFar", "drain"}
             /\ e \in index.ids /\ index' = Scrub(index, e) /\ dirty' = TRUE
             /\ call'[t].job = "redact" => call'[t].about = {e}
  <2>1. e \in index.ids /\ index' = Scrub(index, e) /\ dirty' = TRUE /\ queue' = queue
    BY <1>8 DEF StartRedact, Shows, MarkDirty
  <2>2. CASE call' = call
    BY <1>1, <1>2, <1>3, <2>1, <2>2
  <2>3. CASE call' = [call EXCEPT ![t].job = "redact", ![t].at = "locate", ![t].about = {e}]
    <3>1. /\ call'[t].at = "locate" /\ call'[t].job = "redact" /\ call'[t].dest = call[t].dest
          /\ call'[t].buf = call[t].buf /\ call'[t].tries = call[t].tries
          /\ call'[t].about = {e}
      BY <1>1, <2>3 DEF TypeOK, Calls
    <3> QED
      BY <1>1, <1>2, <1>3, <2>1, <3>1
  <2> QED
    BY <1>8, <2>2, <2>3 DEF StartRedact
<1> QED
  BY <1>4, <1>5, <1>6, <1>7, <1>8 DEF Start

LEMMA SnapShape ==
  ASSUME TypeOK, NEW t \in Thread, Snap(t)
  PROVE  /\ Others(t) /\ UNCHANGED <<index, dirty, queue, files, done, slips>>
         /\ call'[t].at = "temp" /\ call'[t].buf = index /\ call'[t].job = call[t].job
         /\ call'[t].dest = call[t].dest /\ call'[t].about = call[t].about
         /\ call'[t].tries = call[t].tries
<1>1. call[t] \in Calls
  BY DEF TypeOK
<1>2. Others(t) /\ UNCHANGED <<index, dirty, queue, files, done, slips>>
  BY DEF Snap, store, files, TypeOK, Others
<1>3. /\ call'[t].at = "temp" /\ call'[t].buf = index /\ call'[t].job = call[t].job
      /\ call'[t].dest = call[t].dest /\ call'[t].about = call[t].about
      /\ call'[t].tries = call[t].tries
  BY <1>1 DEF Snap, TypeOK, Calls
<1> QED
  BY <1>2, <1>3

LEMMA ObserveShape ==
  ASSUME TypeOK, NEW t \in Thread, Observe(t)
  PROVE  /\ Others(t) /\ UNCHANGED <<index, dirty, queue, files, done, slips>>
         /\ call'[t].at = "ack" /\ call'[t].buf = call[t].buf /\ call'[t].job = call[t].job
         /\ call'[t].dest = call[t].dest /\ call'[t].about = call[t].about
         /\ call'[t].tries = call[t].tries
<1>1. call[t] \in Calls
  BY DEF TypeOK
<1>2. Others(t) /\ UNCHANGED <<index, dirty, queue, files, done, slips>>
  BY DEF Observe, store, files, TypeOK, Others
<1>3. /\ call'[t].at = "ack" /\ call'[t].buf = call[t].buf /\ call'[t].job = call[t].job
      /\ call'[t].dest = call[t].dest /\ call'[t].about = call[t].about
      /\ call'[t].tries = call[t].tries
  BY <1>1 DEF Observe, TypeOK, Calls
<1> QED
  BY <1>2, <1>3

LEMMA AckShape ==
  ASSUME TypeOK, NEW t \in Thread, Ack(t), Adjacent(t)
  PROVE  /\ Others(t) /\ UNCHANGED <<index, queue, files, done, slips>>
         /\ call'[t].at = "again" /\ call'[t].buf = call[t].buf /\ call'[t].job = call[t].job
         /\ call'[t].dest = call[t].dest /\ call'[t].about = call[t].about
         /\ call'[t].tries > 0
<1>1. call[t] \in Calls /\ call[t].tries \in Nat
  BY TriesAssumption DEF TypeOK, Calls
<1>2. Others(t) /\ UNCHANGED <<index, queue, files, done, slips>>
  BY DEF Ack, files, TypeOK, Others
<1>3. /\ call'[t].at = "again" /\ call'[t].buf = call[t].buf /\ call'[t].job = call[t].job
      /\ call'[t].dest = call[t].dest /\ call'[t].about = call[t].about
      /\ call'[t].tries = call[t].tries + 1
  BY <1>1 DEF Ack, TypeOK, Calls
<1> QED
  BY <1>1, <1>2, <1>3

LEMMA VerifyShape ==
  ASSUME TypeOK, NEW t \in Thread, Verify(t)
  PROVE  /\ Others(t) /\ UNCHANGED <<index, dirty, queue, files, done, slips>>
         /\ \/ call'[t] = Resting
            \/ /\ call'[t].at = "remove" /\ call'[t].buf = call[t].buf
               /\ call'[t].job = call[t].job /\ call'[t].dest = call[t].dest
               /\ call'[t].about \subseteq call[t].about
               /\ \A e \in call'[t].about : ~Shows(adj.body, e)
<1>1. call[t] \in Calls
  BY DEF TypeOK
<1>2. Others(t) /\ UNCHANGED <<index, dirty, queue, files, done, slips>>
  BY DEF Verify, store, files, TypeOK, Others
<1>3. CASE call' = [call EXCEPT ![t] = Resting]
  BY <1>2, <1>3, RestShape
<1>4. CASE call' = [call EXCEPT ![t].at = "remove", ![t].about =
                       {e \in @ : ~Shows(adj.body, e)}]
  <2>1. /\ call'[t].at = "remove" /\ call'[t].buf = call[t].buf
        /\ call'[t].job = call[t].job /\ call'[t].dest = call[t].dest
        /\ call'[t].about = {e \in call[t].about : ~Shows(adj.body, e)}
    BY <1>1, <1>4 DEF TypeOK, Calls
  <2> QED
    BY <1>2, <2>1
<1> QED
  BY <1>3, <1>4 DEF Verify

\* The record a call moves on with: only its place changes.
Moved(t, s) ==
  /\ call'[t].at = s /\ call'[t].job = call[t].job
  /\ call'[t].about = call[t].about /\ call'[t].dest = call[t].dest
  /\ call'[t].buf = call[t].buf /\ call'[t].tries = call[t].tries

LEMMA MergeShape ==
  ASSUME TypeOK, NEW t \in Thread, NEW s, MergeThen(t, s)
  PROVE  /\ Others(t) /\ UNCHANGED <<files, queue, done>>
         /\ index' = Join(index, call[t].buf)
         /\ call[t].buf.ids # {} => dirty' = TRUE
         /\ call[t].buf.ids = {} => UNCHANGED dirty
         /\ \/ Moved(t, s) /\ UNCHANGED slips
            \/ /\ call'[t] = Resting
               /\ slips' = IF call[t].tries > 0 THEN slips \union {"error"} ELSE slips
<1>1. /\ UNCHANGED <<files, queue, done>> /\ index' = Join(index, call[t].buf)
      /\ call[t].buf.ids # {} => dirty' = TRUE
      /\ call[t].buf.ids = {} => UNCHANGED dirty
  BY DEF MergeThen, Merge, MarkDirty, Fail, files
<1>2. CASE Goto(t, s) /\ UNCHANGED slips
  BY <1>1, <1>2, GotoShape DEF Moved
<1>3. CASE Fail(t)
  BY <1>1, <1>3, RestShape DEF Fail
<1> QED
  BY <1>2, <1>3 DEF MergeThen

LEMMA AsideShape ==
  ASSUME TypeOK, NEW t \in Thread, Aside(t)
  PROVE  /\ Others(t) /\ UNCHANGED <<index, dirty, queue, ovf, done>>
         /\ \/ /\ Moved(t, "snap") /\ adj' = NoFile
               /\ slips' = IF adj.kind # "corrupt" THEN slips \union {"aside"} ELSE slips
            \/ /\ call'[t] = Resting /\ adj' = adj
               /\ slips' = IF call[t].tries > 0 THEN slips \union {"error"} ELSE slips
<1>1. UNCHANGED <<index, dirty, queue, ovf, done>>
  BY DEF Aside, Fail, store
<1>2. CASE /\ Goto(t, "snap") /\ adj' = NoFile
           /\ slips' = IF adj.kind # "corrupt" THEN slips \union {"aside"} ELSE slips
  BY <1>1, <1>2, GotoShape DEF Moved
<1>3. CASE Fail(t) /\ UNCHANGED adj
  BY <1>1, <1>3, RestShape DEF Fail
<1> QED
  BY <1>2, <1>3 DEF Aside

\* After a write, or when none was needed, the target holds the buffer.
LEMMA WriteShape ==
  ASSUME TypeOK, NEW t \in Thread, Temp(t) \/ Rename(t)
  PROVE  /\ Others(t) /\ UNCHANGED <<index, dirty, queue, done>>
         /\ \/ /\ Moved(t, IF call[t].job = "redactFar" THEN "enqueue" ELSE "seen")
               /\ UNCHANGED slips
               /\ \/ Adjacent(t) /\ adj'.body = call[t].buf /\ ovf' = ovf /\ adj'.kind = "doc"
                  \/ ~Adjacent(t) /\ ovf'.body = call[t].buf /\ adj' = adj
            \/ Moved(t, "rename") /\ UNCHANGED <<files, slips>>
            \/ /\ call'[t] = Resting /\ UNCHANGED files
               /\ slips' = IF call[t].tries > 0 THEN slips \union {"error"} ELSE slips
<1>1. UNCHANGED <<index, dirty, queue, done>>
  BY DEF Temp, Rename, Written, Fail, store
<1>2. ASSUME NEW s, Goto(t, s)
      PROVE  Others(t) /\ Moved(t, s)
  BY <1>2, GotoShape DEF Moved
<1>3. CASE Fail(t) /\ UNCHANGED files
  BY <1>1, <1>3, RestShape DEF Fail
<1>4. CASE Goto(t, "rename") /\ UNCHANGED <<files, slips>>
  BY <1>1, <1>2, <1>4
<1>5. CASE Temp(t) /\ Written(t) /\ Same(t)
  <2>1. UNCHANGED files /\ UNCHANGED slips
    BY <1>5 DEF Temp, Written
  <2>2. Others(t) /\ Moved(t, IF call[t].job = "redactFar" THEN "enqueue" ELSE "seen")
    BY <1>2, <1>5 DEF Written
  <2> QED
    BY <1>1, <1>5, <2>1, <2>2 DEF Same, Doc, files
<1>6. CASE Rename(t) /\ Written(t)
  <2>1. Others(t) /\ Moved(t, IF call[t].job = "redactFar" THEN "enqueue" ELSE "seen")
    BY <1>2, <1>6 DEF Written
  <2>2. \/ Adjacent(t) /\ adj' = Doc(call[t].buf) /\ UNCHANGED ovf
        \/ ~Adjacent(t) /\ ovf' = Doc(call[t].buf) /\ UNCHANGED adj
        \/ Fail(t) /\ UNCHANGED files
    BY <1>6 DEF Rename
  <2> QED
    BY <1>1, <1>3, <1>6, <2>1, <2>2 DEF Written, Doc
<1> QED
  BY <1>3, <1>4, <1>5, <1>6 DEF Temp, Rename

\* Leaving the loop, or the overflow path.
LEMMA WrapShape ==
  ASSUME TypeOK, NEW t \in Thread, Wrap(t) \/ Finish(t)
  PROVE  /\ Others(t)
         /\ \/ Moved(t, "verify") /\ UNCHANGED done
            \/ /\ call'[t] = Resting
               /\ done' = IF call[t].job \in {"redact", "redactFar"}
                          THEN done \union call[t].about ELSE done
<1>1. CASE Goto(t, "verify") /\ UNCHANGED done
  BY <1>1, GotoShape DEF Moved
<1>2. CASE Finish(t)
  BY <1>2, RestShape DEF Finish
<1> QED
  BY <1>1, <1>2 DEF Wrap

LEMMA AgainShape ==
  ASSUME TypeOK, NEW t \in Thread, Again(t)
  PROVE  /\ Others(t) /\ UNCHANGED <<index, dirty, queue, files>>
         /\ \/ Moved(t, "snap") /\ call[t].buf # index /\ UNCHANGED <<done, slips>>
            \/ /\ slips' = IF call[t].buf # index THEN slips \union {"exhausted"} ELSE slips
               /\ \/ Moved(t, "verify") /\ UNCHANGED done
                  \/ /\ call'[t] = Resting
                     /\ done' = IF call[t].job \in {"redact", "redactFar"}
                                THEN done \union call[t].about ELSE done
<1>1. UNCHANGED <<index, dirty, queue, files>>
  BY DEF Again, store, files
<1>2. CASE Goto(t, "snap") /\ call[t].buf # index /\ UNCHANGED <<done, slips>>
  BY <1>1, <1>2, GotoShape DEF Moved
<1>3. CASE /\ Wrap(t)
           /\ slips' = IF call[t].buf # index THEN slips \union {"exhausted"} ELSE slips
  BY <1>1, <1>3, WrapShape
<1> QED
  BY <1>2, <1>3 DEF Again

\* The two ends of the overflow path.
LEMMA FarShape ==
  ASSUME TypeOK, NEW t \in Thread, (Ack(t) /\ ~Adjacent(t)) \/ Enqueue(t)
  PROVE  /\ Others(t) /\ UNCHANGED <<index, files>>
         /\ call'[t] = Resting
         /\ done' = IF call[t].job \in {"redact", "redactFar"}
                    THEN done \union call[t].about ELSE done
         /\ slips' = IF ovf.body # index THEN slips \union {"overflow"} ELSE slips
         /\ queue' = IF Enqueue(t) THEN queue \union call[t].about ELSE queue
<1>1. /\ UNCHANGED <<index, files>>
      /\ slips' = IF ovf.body # index THEN slips \union {"overflow"} ELSE slips
      /\ queue' = IF Enqueue(t) THEN queue \union call[t].about ELSE queue
  BY DEF Ack, Enqueue, Unverified, files
<1>2. Finish(t)
  BY DEF Ack, Enqueue, Wrap
<1>3. /\ Others(t) /\ call'[t] = Resting
      /\ done' = IF call[t].job \in {"redact", "redactFar"}
                 THEN done \union call[t].about ELSE done
  BY <1>2, RestShape DEF Finish
<1> QED
  BY <1>1, <1>3

LEMMA RemoveShape ==
  ASSUME TypeOK, NEW t \in Thread, Remove(t)
  PROVE  /\ Others(t) /\ UNCHANGED <<index, dirty, adj, done>>
         /\ call'[t] = Resting
         /\ \/ /\ call[t].job = "drain" /\ queue' = queue \ call[t].about
               /\ UNCHANGED <<ovf, slips>>
            \/ /\ call[t].job # "drain" /\ queue' = queue /\ ovf' = NoFile
               /\ slips' = IF Within(ovf.body, adj.body) THEN slips
                           ELSE slips \union {"migrate"}
BY RestShape DEF Remove

-----------------------------------------------------------------------------
(* What redactions and the stages of a call have in common.                  *)

\* A document lists a redaction beside its event.
Paired(c) == c.husks \subseteq c.ids

SoundCall(t) ==
  /\ Paired(call[t].buf)
  /\ call[t].job \in {"redact", "redactFar", "drain"} => call[t].about \subseteq index.husks
  /\ call[t].job = "redactFar" =>
       ~Adjacent(t) /\ call[t].at \in {"snap", "temp", "rename", "enqueue"}
  /\ call[t].at = "again" => Adjacent(t) /\ call[t].tries > 0
  /\ call[t].at = "enqueue" => call[t].job = "redactFar"

Sound ==
  /\ Paired(index) /\ Paired(adj.body) /\ Paired(ovf.body)
  /\ done \subseteq index.husks /\ queue \subseteq index.husks
  /\ \A t \in Thread : SoundCall(t)

\* A step of thread t keeps all of it if it keeps t's part, and what becomes
\* of the index and the files is sound.
LEMMA SoundRest ==
  ASSUME Sound, NEW t, Others(t), index.husks \subseteq index'.husks,
         Paired(index'), Paired(adj'.body), Paired(ovf'.body),
         done' \subseteq index'.husks, queue' \subseteq index'.husks,
         t \in Thread => SoundCall(t)'
  PROVE  Sound'
<1>1. ASSUME NEW u \in Thread \ {t}
      PROVE  SoundCall(u)'
  <2>1. call'[u] = call[u] /\ SoundCall(u)
    BY <1>1 DEF Others, Sound
  <2> QED
    BY <2>1 DEF SoundCall, Adjacent
<1> QED
  BY <1>1 DEF Sound

LEMMA RestingSound ==
  ASSUME NEW t \in Thread, call'[t] = Resting
  PROVE  SoundCall(t)'
BY DEF Resting, SoundCall, Paired, Blank, Adjacent

LEMMA SoundStart ==
  ASSUME TypeOK, Sound, NEW t \in Thread, Start(t)
  PROVE  Sound'
<1>1. Others(t) /\ UNCHANGED <<files, done, queue>>
  BY StartShape
<1>2. Paired(call'[t].buf)
  <2>1. call'[t].buf \in {Blank, ovf.body}
    BY StartShape
  <2> QED
    BY <2>1 DEF Sound, Paired, Blank
<1>3. /\ call'[t].at \notin {"again", "enqueue"} /\ call'[t].job # "redactFar"
      /\ call'[t].job = "drain" => call'[t].about \subseteq index.husks
  BY StartShape DEF Sound
<1>4. CASE call'[t].job # "redact" /\ index' = index
  <2>1. SoundCall(t)'
    BY <1>2, <1>3, <1>4 DEF SoundCall
  <2> QED
    BY <1>1, <1>4, <2>1, SoundRest DEF Sound, files
<1>5. ASSUME NEW e \in index.ids, index' = Scrub(index, e),
             call'[t].job = "redact" => call'[t].about = {e}
      PROVE  Sound'
  <2>1. index'.ids = index.ids /\ index'.husks = index.husks \union {e}
    BY <1>5 DEF Scrub, TypeOK, Contents
  <2>2. SoundCall(t)'
    BY <1>2, <1>3, <1>5, <2>1 DEF SoundCall
  <2> QED
    BY <1>1, <2>1, <2>2, SoundRest DEF Sound, Paired, files
<1> QED
  BY <1>4, <1>5, StartShape

LEMMA SoundMerge ==
  ASSUME TypeOK, Sound, NEW t \in Thread, NEW s \in {"read", "snap"}, MergeThen(t, s),
         call[t].job # "redactFar"
  PROVE  Sound'
<1>1. /\ index'.ids = index.ids \union call[t].buf.ids
      /\ index'.husks = index.husks \union call[t].buf.husks
  <2>1. index' = Join(index, call[t].buf)
    BY MergeShape
  <2> QED
    BY <2>1 DEF Join
<1>2. Paired(index') /\ Paired(call[t].buf)
  BY <1>1 DEF Sound, SoundCall, Paired
<1>3. CASE Moved(t, s)
  <2>1. SoundCall(t)'
    BY <1>1, <1>3 DEF Sound, SoundCall, Moved, Adjacent
  <2> QED
    BY <1>1, <1>2, <2>1, MergeShape, SoundRest DEF Sound, files
<1>4. CASE call'[t] = Resting
  BY <1>1, <1>2, <1>4, MergeShape, RestingSound, SoundRest DEF Sound, files
<1> QED
  BY <1>3, <1>4, MergeShape

LEMMA SoundStep ==
  ASSUME TypeOK, Sound, NEW t \in Thread, Step(t)
  PROVE  Sound'
<1>1. SoundCall(t)
  BY DEF Sound
<1>2. ASSUME call'[t] = Resting, Others(t), UNCHANGED <<index, adj, done>>,
             queue' \subseteq index.husks, Paired(ovf'.body)
      PROVE  Sound'
  BY <1>2, RestingSound, SoundRest DEF Sound
<1>3. CASE Locate(t)
  <2>1. Others(t) /\ UNCHANGED <<index, files, done, queue>>
    BY <1>3, LocateShape
  <2>2. SoundCall(t)'
    <3>1. CASE call'[t] = Resting
      BY <3>1, RestingSound
    <3>2. CASE call'[t] # Resting
      BY <1>1, <1>3, <2>1, <3>2, LocateShape DEF SoundCall, Adjacent, Locate
    <3> QED
      BY <3>1, <3>2
  <2> QED
    BY <2>1, <2>2, SoundRest DEF Sound, files
<1>4. CASE Pull(t)
  BY <1>1, <1>4, SoundMerge DEF Pull, SoundCall
<1>5. CASE Read(t)
  <2>1. Others(t) /\ UNCHANGED <<index, files, done, queue>>
    BY <1>5, ReadShape
  <2>2. Paired(call'[t].buf)
    BY <1>1, <1>5, ReadShape DEF Sound, SoundCall
  <2>3. call[t].job # "redactFar"
    BY <1>1, <1>5 DEF Read, SoundCall
  <2>4. SoundCall(t)'
    BY <1>1, <1>5, <2>1, <2>2, <2>3, ReadShape DEF SoundCall
  <2> QED
    BY <2>1, <2>4, SoundRest DEF Sound, files
<1>6. CASE Ingest(t)
  BY <1>1, <1>6, SoundMerge DEF Ingest, SoundCall
<1>7. CASE Aside(t)
  <2>1. CASE Moved(t, "snap") /\ adj' = NoFile
    <3>1. SoundCall(t)'
      BY <1>1, <1>7, <2>1, AsideShape DEF SoundCall, Moved, Adjacent, Aside
    <3>2. Paired(adj'.body)
      BY <2>1 DEF NoFile, Bare, Blank, Paired
    <3> QED
      BY <1>7, <3>1, <3>2, AsideShape, SoundRest DEF Sound
  <2>2. CASE call'[t] = Resting /\ adj' = adj
    BY <1>2, <1>7, <2>2, AsideShape DEF Sound
  <2> QED
    BY <1>7, <2>1, <2>2, AsideShape
<1>8. CASE Snap(t)
  <2>1. SoundCall(t)'
    BY <1>1, <1>8, SnapShape DEF Sound, SoundCall, Adjacent
  <2> QED
    BY <1>8, <2>1, SnapShape, SoundRest DEF Sound, files
<1>9. CASE Temp(t) \/ Rename(t)
  <2>1. call[t].at \in {"temp", "rename"} /\ Paired(call[t].buf)
    BY <1>1, <1>9 DEF Temp, Rename, SoundCall
  <2>2. Paired(adj'.body) /\ Paired(ovf'.body)
    BY <1>9, <2>1, WriteShape DEF Sound, files
  <2>3. CASE call'[t] = Resting
    BY <1>9, <2>2, <2>3, WriteShape, RestingSound, SoundRest DEF Sound
  <2>4. CASE Moved(t, IF call[t].job = "redactFar" THEN "enqueue" ELSE "seen")
             \/ Moved(t, "rename")
    <3>1. SoundCall(t)'
      BY <1>1, <1>9, <2>1, <2>4, WriteShape DEF SoundCall, Moved, Adjacent
    <3> QED
      BY <1>9, <2>2, <3>1, WriteShape, SoundRest DEF Sound
  <2> QED
    BY <1>9, <2>3, <2>4, WriteShape
<1>10. CASE Observe(t)
  <2>1. SoundCall(t)'
    BY <1>1, <1>10, ObserveShape DEF SoundCall, Adjacent, Observe
  <2> QED
    BY <1>10, <2>1, ObserveShape, SoundRest DEF Sound, files
<1>11. CASE Ack(t) /\ Adjacent(t)
  <2>1. SoundCall(t)'
    BY <1>1, <1>11, AckShape DEF SoundCall, Adjacent, Ack
  <2> QED
    BY <1>11, <2>1, AckShape, SoundRest DEF Sound, files
<1>12. CASE (Ack(t) /\ ~Adjacent(t)) \/ Enqueue(t)
  <2>1. done' \subseteq index.husks
    BY <1>1, <1>12, FarShape DEF Sound, SoundCall
  <2>0. queue' \subseteq index.husks
    BY <1>1, <1>12, FarShape DEF Sound, SoundCall, Enqueue
  <2> QED
    BY <1>12, <2>0, <2>1, FarShape, RestingSound, SoundRest DEF Sound, files
<1>13. CASE Again(t)
  <2>1. done' \subseteq index.husks
    BY <1>1, <1>13, AgainShape DEF Sound, SoundCall
  <2>2. SoundCall(t)'
    <3>1. CASE call'[t] = Resting
      BY <3>1, RestingSound
    <3>2. CASE Moved(t, "snap") \/ Moved(t, "verify")
      BY <1>1, <1>13, <3>2, AgainShape DEF SoundCall, Moved, Adjacent, Again
    <3> QED
      BY <1>13, <3>1, <3>2, AgainShape
  <2> QED
    BY <1>13, <2>1, <2>2, AgainShape, SoundRest DEF Sound, files
<1>14. CASE Verify(t)
  <2>1. SoundCall(t)'
    <3>1. CASE call'[t] = Resting
      BY <3>1, RestingSound
    <3>2. CASE call'[t] # Resting
      BY <1>1, <1>14, <3>2, VerifyShape DEF SoundCall, Adjacent, Verify
    <3> QED
      BY <3>1, <3>2
  <2> QED
    BY <1>14, <2>1, VerifyShape, SoundRest DEF Sound, files
<1>15. CASE Remove(t)
  <2>1. Paired(ovf'.body)
    BY <1>15, RemoveShape DEF Sound, NoFile, Bare, Blank, Paired
  <2>2. queue' \subseteq index.husks
    BY <1>15, RemoveShape DEF Sound
  <2> QED
    BY <1>2, <1>15, <2>1, <2>2, RemoveShape
<1> QED
  BY <1>3, <1>4, <1>5, <1>6, <1>7, <1>8, <1>9, <1>10, <1>11, <1>12, <1>13,
     <1>14, <1>15 DEF Step

LEMMA SoundWorld ==
  ASSUME TypeOK, Sound,
         Move \/ Edit \/ Crash \/ (\E e \in Local : Append(e)) \/ UNCHANGED vars
  PROVE  Sound'
<1>1. ASSUME NEW e \in Local, Append(e)
      PROVE  Sound'
  <2>1. index'.ids = index.ids \union {e} /\ index'.husks = index.husks
    BY <1>1 DEF Append, Insert, TypeOK, Contents
  <2>2. UNCHANGED <<files, call, done, queue>>
    BY <1>1 DEF Append
  <2> QED
    BY <2>1, <2>2 DEF Sound, SoundCall, Adjacent, Paired, files
<1>2. CASE Move
  BY <1>2 DEF Move, store, files, Sound, SoundCall, Adjacent, Paired
<1>3. CASE Edit
  <2>1. Paired(adj'.body)
    BY <1>3 DEF Edit, Bare, Blank, Doc, Paired
  <2>2. UNCHANGED <<index, ovf, call, done, queue>>
    BY <1>3 DEF Edit, store
  <2> QED
    BY <2>1, <2>2 DEF Sound, SoundCall, Adjacent
<1>4. CASE Crash
  <2>1. UNCHANGED <<index, files, done, queue>> /\ call' = [t \in Thread |-> Resting]
    BY <1>4 DEF Crash
  <2>2. \A t \in Thread : SoundCall(t)'
    BY <2>1, RestingSound
  <2> QED
    BY <2>1, <2>2 DEF Sound, files
<1>5. CASE UNCHANGED vars
  BY <1>5 DEF vars, Sound, SoundCall, Adjacent
<1> QED
  BY <1>1, <1>2, <1>3, <1>4, <1>5

-----------------------------------------------------------------------------
(* The mirror.  A stale writer can put an old document over a newer one at    *)
(* any time, and the row that would bring the newer one back may be gone.     *)
(* What saves the file is the chaser: a thread whose own rewrite is still     *)
(* ahead of it, or whose rewrite is in the file and will be looked at again.  *)

Chasing(t) ==
  /\ Adjacent(t)
  /\ \/ call[t].at \in {"snap", "temp", "rename"} /\ call[t].tries > 0
     \/ call[t].at \in {"seen", "ack", "again"} /\ adj.body = call[t].buf

Chased == \E t \in Thread : Chasing(t)

Hidden(s) == \A e \in s : ~Shows(adj.body, e)

\* With no chaser left, the file holds what each thread that has written it
\* knows, and hides what each redaction and each drained row is about.
Fresh ==
  /\ Hidden(done \ queue)
  /\ \A t \in Thread :
       /\ Adjacent(t) /\ call[t].at \in {"seen", "ack", "again"} =>
            Within(call[t].buf, adj.body)
       /\ call[t].job = "redact" /\ ~Adjacent(t) => Hidden(call[t].about)
       /\ call[t].job = "drain" /\ call[t].at = "remove" => Hidden(call[t].about)

\* A thread that will yet bring the files up to date, or slip.
Minding(t) ==
  \/ ~Adjacent(t) /\ call[t].at \in {"seen", "ack", "enqueue"}
  \/ Adjacent(t) /\ call[t].at \in {"snap", "temp", "rename"} /\ call[t].tries > 0
  \/ Adjacent(t) /\ call[t].at \in {"seen", "ack", "again"} /\ call[t].buf # index

Minded == ~dirty => Mirrored \/ \E t \in Thread : Minding(t)

MirrorInv ==
  /\ SafeInv /\ Sound
  /\ slips = {} => (Chased \/ Fresh) /\ Minded

\* A file that holds the whole index is fresh, and so is what it says of the row.
LEMMA FullIsFresh ==
  ASSUME SafeInv, Sound, adj.body = index
  PROVE  Fresh /\ Minded
<1>1. Minded
  BY WithinOrder DEF Minded, Mirrored
<1>2. \A e \in index.husks : ~Shows(adj.body, e)
  BY DEF Shows
<1>3. Hidden(done \ queue)
  BY <1>2 DEF Hidden, Sound
<1>4. ASSUME NEW t \in Thread
      PROVE  /\ Adjacent(t) /\ call[t].at \in {"seen", "ack", "again"} =>
                  Within(call[t].buf, adj.body)
             /\ call[t].job = "redact" /\ ~Adjacent(t) => Hidden(call[t].about)
             /\ call[t].job = "drain" /\ call[t].at = "remove" => Hidden(call[t].about)
  <2>1. Held(t) /\ SoundCall(t)
    BY DEF SafeInv, Guarded, Sound
  <2> QED
    BY <1>2, <2>1 DEF Held, SoundCall, Hidden
<1> QED
  BY <1>1, <1>3, <1>4 DEF Fresh

\* A chaser minds the row, unless the file is full already.
LEMMA ChasedIsMinded ==
  ASSUME Chased
  PROVE  Minded
<1>1. PICK t \in Thread : Chasing(t)
  BY DEF Chased
<1>2. CASE adj.body = index
  BY <1>2, WithinOrder DEF Minded, Mirrored
<1>3. CASE adj.body # index
  BY <1>1, <1>3 DEF Chasing, Minding, Minded
<1> QED
  BY <1>2, <1>3

LEMMA SlipsStay ==
  ASSUME [Next]_vars, slips' = {}
  PROVE  slips = {}
BY ZenonT(30) DEF Next, Start, StartFlush, StartRedact, StartMigrate, StartDrain, StartRegen,
   Begin, Step, Locate, Pull, Read, Ingest, MergeThen, Fail, Aside, Snap, Temp, Rename,
   Written, Observe, Ack, Unverified, Again, Enqueue, Verify, Remove, Move, Edit, Crash,
   Append, vars

\* A chaser's own steps end with the file full, or leave it chased.
LEMMA ChaserStep ==
  ASSUME TypeOK, Sound, NEW t \in Thread, Step(t), Chasing(t), slips' = {}
  PROVE  Chased' \/ adj'.body = index'
<1>1. SoundCall(t) /\ Adjacent(t) /\ call[t].job # "redactFar"
  BY DEF Sound, SoundCall, Chasing
<1>2. call[t].at \in {"snap", "temp", "rename", "seen", "ack", "again"}
  BY DEF Chasing
<1>3. Chasing(t)' => Chased'
  BY DEF Chased
<1>4. CASE Snap(t)
  BY <1>3, <1>4, SnapShape DEF Snap, Chasing, Adjacent
<1>5. CASE Temp(t) \/ Rename(t)
  <2>1. call[t].tries > 0
    BY <1>5 DEF Chasing, Temp, Rename
  <2>2. CASE Moved(t, IF call[t].job = "redactFar" THEN "enqueue" ELSE "seen")
             /\ adj'.body = call[t].buf
    BY <1>1, <1>3, <2>2 DEF Moved, Chasing, Adjacent
  <2>3. CASE Moved(t, "rename")
    BY <1>1, <1>3, <2>1, <2>3 DEF Moved, Chasing, Adjacent
  <2>4. ~(slips' = slips \union {"error"})
    OBVIOUS
  <2> QED
    BY <1>1, <1>5, <2>1, <2>2, <2>3, <2>4, WriteShape
<1>6. CASE Observe(t)
  BY <1>3, <1>6, ObserveShape DEF Observe, Chasing, Adjacent, files
<1>7. CASE Ack(t)
  BY <1>1, <1>3, <1>7, AckShape DEF Ack, Chasing, Adjacent, files
<1>8. CASE Again(t)
  <2>1. UNCHANGED <<index, files>> /\ adj.body = call[t].buf
    BY <1>8, AgainShape DEF Again, Chasing
  <2>2. CASE Moved(t, "snap")
    BY <1>1, <1>3, <1>8, <2>2 DEF Moved, Chasing, Adjacent, SoundCall, Again
  <2>3. CASE slips' = IF call[t].buf # index THEN slips \union {"exhausted"} ELSE slips
    BY <2>1, <2>3 DEF files
  <2> QED
    BY <1>8, <2>2, <2>3, AgainShape
<1> QED
  BY <1>2, <1>4, <1>5, <1>6, <1>7, <1>8 DEF Step, Locate, Pull, Read, Ingest, Aside,
     Enqueue, Verify, Remove

\* Only a rename changes what the file holds, and it makes its thread a chaser.
LEMMA AdjStep ==
  ASSUME SafeInv, Sound, NEW t \in Thread, Step(t), slips' = {}
  PROVE  Others(t) /\ (adj'.body = adj.body \/ Chasing(t)')
<1>0. TypeOK
  BY DEF SafeInv, TypeInv
<1>1. CASE Aside(t)
  <2>1. adj.kind = "corrupt" => adj.body = Blank
    BY DEF SafeInv, Guarded
  <2> QED
    BY <1>0, <1>1, <2>1, AsideShape DEF NoFile, Bare
<1>2. CASE Temp(t) \/ Rename(t)
  <2>1. Adjacent(t) => call[t].job # "redactFar"
    BY DEF Sound, SoundCall
  <2>2. CASE /\ Moved(t, IF call[t].job = "redactFar" THEN "enqueue" ELSE "seen")
             /\ Adjacent(t) /\ adj'.body = call[t].buf
    BY <1>0, <1>2, <2>1, <2>2, WriteShape DEF Moved, Chasing, Adjacent
  <2>3. CASE adj' = adj
    BY <1>0, <1>2, <2>3, WriteShape
  <2> QED
    BY <1>0, <1>2, <2>2, <2>3, WriteShape DEF files
<1>3. CASE (Ack(t) /\ ~Adjacent(t)) \/ Enqueue(t)
  BY <1>0, <1>3, FarShape DEF files
<1> QED
  BY <1>0, <1>1, <1>2, <1>3, LocateShape, MergeShape, ReadShape, SnapShape, ObserveShape,
     AckShape, AgainShape, VerifyShape, RemoveShape DEF Step, Pull, Ingest, files

LEMMA ChaseStep ==
  ASSUME SafeInv, Sound, NEW t \in Thread, Step(t), slips' = {}
  PROVE  \/ Chased' \/ adj'.body = index'
         \/ adj'.body = adj.body /\ ~Chased
<1>1. Others(t) /\ (adj'.body = adj.body \/ Chasing(t)')
  BY AdjStep
<1>2. Chasing(t)' => Chased'
  BY DEF Chased
<1>3. ASSUME NEW u \in Thread \ {t}, Chasing(u), adj'.body = adj.body
      PROVE  Chased'
  <2>1. call'[u] = call[u]
    BY <1>1 DEF Others
  <2> QED
    BY <1>3, <2>1 DEF Chasing, Chased, Adjacent
<1>4. Chasing(t) => Chased' \/ adj'.body = index'
  BY ChaserStep DEF SafeInv, TypeInv
<1> QED
  BY <1>1, <1>2, <1>3, <1>4 DEF Chased

\* While no chaser comes or goes and the file stands, freshness is kept.
LEMMA FreshStep ==
  ASSUME SafeInv, Sound, Fresh, ~Chased, ~Chased', NEW t \in Thread, Step(t), slips' = {},
         adj'.body = adj.body
  PROVE  Fresh'
<1>0. TypeOK /\ SoundCall(t)
  BY DEF SafeInv, TypeInv, Sound
<1>1. Others(t)
  BY AdjStep
<1>2. \A s : Hidden(s) => Hidden(s)'
  BY DEF Hidden
<1>3. ~Chasing(t) /\ ~Chasing(t)'
  BY DEF Chased
<1> DEFINE Told(u) ==
      /\ Adjacent(u) /\ call[u].at \in {"seen", "ack", "again"} =>
           Within(call[u].buf, adj.body)
      /\ call[u].job = "redact" /\ ~Adjacent(u) => Hidden(call[u].about)
      /\ call[u].job = "drain" /\ call[u].at = "remove" => Hidden(call[u].about)
<1>4. \A u \in Thread : Told(u)
  BY DEF Fresh
<1>5. ASSUME NEW u \in Thread \ {t}
      PROVE  Told(u)'
  <2>1. call'[u] = call[u]
    BY <1>1 DEF Others
  <2> QED
    BY <1>4, <2>1 DEF Hidden, Adjacent
<1>6. ASSUME Told(t)', Hidden(done' \ queue')
      PROVE  Fresh'
  <2>1. Hidden(done \ queue)'
    BY <1>6 DEF Hidden
  <2>2. \A u \in Thread : Told(u)'
    BY <1>5, <1>6
  <2> QED
    BY <2>1, <2>2 DEF Fresh
<1>7. Hidden(done \ queue)
  BY DEF Fresh
<1>8. call'[t] = Resting => Told(t)'
  BY DEF Resting, Adjacent
<1>9. CASE Locate(t)
  <2>1. done' = done /\ queue' = queue
    BY <1>0, <1>9, LocateShape
  <2>2. CASE call'[t] # Resting
    <3>1. Told(t)'
      BY <1>0, <1>2, <1>4, <1>9, <2>2, LocateShape DEF Adjacent, SoundCall, Locate
    <3> QED
      BY <1>6, <1>7, <2>1, <3>1
  <2> QED
    BY <1>6, <1>7, <1>8, <2>1, <2>2
<1>10. CASE Pull(t) \/ Ingest(t)
  <2>1. PICK s \in {"read", "snap"} : MergeThen(t, s)
    BY <1>10 DEF Pull, Ingest
  <2>2. done' = done /\ queue' = queue
    BY <1>0, <2>1, MergeShape
  <2>3. CASE Moved(t, s)
    <3>1. Told(t)'
      BY <1>2, <1>4, <2>3 DEF Adjacent, Moved
    <3> QED
      BY <1>6, <1>7, <2>2, <3>1
  <2> QED
    BY <1>0, <1>6, <1>7, <1>8, <2>1, <2>2, <2>3, MergeShape
<1>11. CASE Read(t)
  <2>1. done' = done /\ queue' = queue
    BY <1>0, <1>11, ReadShape
  <2>2. ASSUME call'[t].dest = "ovf", adj.kind \in {"newer", "foreign"}
        PROVE  Hidden(call[t].about)'
    <3>1. adj.body = Blank
      BY <2>2 DEF SafeInv, Guarded
    <3> QED
      BY <3>1 DEF Hidden, Shows, Blank
  <2>3. Told(t)'
    BY <1>0, <1>11, <2>2, ReadShape DEF Adjacent
  <2> QED
    BY <1>6, <1>7, <2>1, <2>3
<1>12. CASE Aside(t)
  <2>1. done' = done /\ queue' = queue
    BY <1>0, <1>12, AsideShape
  <2>2. CASE Moved(t, "snap")
    <3>1. Told(t)'
      BY <1>2, <1>4, <2>2 DEF Adjacent, Moved
    <3> QED
      BY <1>6, <1>7, <2>1, <3>1
  <2> QED
    BY <1>0, <1>6, <1>7, <1>8, <1>12, <2>1, <2>2, AsideShape
<1>13. CASE Snap(t)
  <2>1. done' = done /\ queue' = queue
    BY <1>0, <1>13, SnapShape
  <2>2. Told(t)'
    BY <1>0, <1>2, <1>4, <1>13, SnapShape DEF Adjacent
  <2> QED
    BY <1>6, <1>7, <2>1, <2>2
<1>14. CASE Temp(t) \/ Rename(t)
  <2>1. done' = done /\ queue' = queue
    BY <1>0, <1>14, WriteShape
  <2>2. CASE /\ Moved(t, IF call[t].job = "redactFar" THEN "enqueue" ELSE "seen")
             /\ Adjacent(t) => adj'.body = call[t].buf
    <3>1. Told(t)'
      BY <1>2, <1>3, <1>4, <2>2 DEF Adjacent, Moved, Chasing
    <3> QED
      BY <1>6, <1>7, <2>1, <3>1
  <2>3. CASE Moved(t, "rename")
    <3>1. Told(t)'
      BY <1>2, <1>4, <2>3 DEF Adjacent, Moved
    <3> QED
      BY <1>6, <1>7, <2>1, <3>1
  <2>4. CASE call'[t] = Resting
    BY <1>6, <1>7, <1>8, <2>1, <2>4
  <2> QED
    BY <1>0, <1>14, <2>2, <2>3, <2>4, WriteShape
<1>15. CASE Observe(t)
  <2>1. done' = done /\ queue' = queue
    BY <1>0, <1>15, ObserveShape
  <2>2. Told(t)'
    BY <1>0, <1>2, <1>4, <1>15, ObserveShape, ZenonT(30) DEF Adjacent, Observe
  <2> QED
    BY <1>6, <1>7, <2>1, <2>2
<1>16. CASE Ack(t) /\ Adjacent(t)
  <2>1. done' = done /\ queue' = queue
    BY <1>0, <1>16, AckShape
  <2>2. Told(t)'
    BY <1>0, <1>2, <1>4, <1>16, AckShape DEF Adjacent, Ack
  <2> QED
    BY <1>6, <1>7, <2>1, <2>2
<1>17. CASE (Ack(t) /\ ~Adjacent(t)) \/ Enqueue(t)
  <2>1. Hidden(done' \ queue')
    <3>1. CASE Enqueue(t)
      BY <1>0, <1>7, <3>1, FarShape DEF Hidden
    <3>2. CASE Ack(t) /\ ~Adjacent(t)
      <4>1. call[t].job # "redactFar"
        BY <1>0, <3>2 DEF SoundCall, Ack
      <4>2. call[t].job = "redact" => Hidden(call[t].about)
        BY <1>4, <3>2
      <4>3. queue' = queue
        BY <3>2 DEF Ack
      <4> QED
        BY <1>0, <1>7, <3>2, <4>1, <4>2, <4>3, FarShape DEF Hidden
    <3> QED
      BY <1>17, <3>1, <3>2
  <2> QED
    BY <1>0, <1>6, <1>8, <1>17, <2>1, FarShape
<1>18. CASE Again(t)
  <2>1. queue' = queue /\ Adjacent(t) /\ call[t].at = "again" /\ index' = index
    BY <1>0, <1>18, AgainShape DEF SoundCall, Again
  <2>2. CASE Moved(t, "snap") /\ done' = done
    <3>1. Told(t)'
      BY <1>2, <1>4, <2>2 DEF Adjacent, Moved
    <3> QED
      BY <1>6, <1>7, <2>1, <2>2, <3>1
  <2>3. CASE Moved(t, "verify") /\ done' = done
    <3>1. Told(t)'
      BY <1>2, <1>4, <2>3 DEF Adjacent, Moved
    <3> QED
      BY <1>6, <1>7, <2>1, <2>3, <3>1
  <2>4. CASE /\ call'[t] = Resting
             /\ slips' = IF call[t].buf # index THEN slips \union {"exhausted"} ELSE slips
             /\ done' = IF call[t].job \in {"redact", "redactFar"}
                        THEN done \union call[t].about ELSE done
    <3>1. call[t].buf = index
      BY <2>4
    <3>2. Within(index, adj.body)
      BY <1>4, <2>1, <3>1
    <3>3. call[t].job \in {"redact", "redactFar"} => Hidden(call[t].about)
      BY <1>0, <3>2 DEF SoundCall, Within, Hidden, Shows
    <3>4. Hidden(done' \ queue')
      BY <1>7, <2>1, <2>4, <3>3 DEF Hidden
    <3> QED
      BY <1>6, <1>8, <2>4, <3>4
  <2> QED
    BY <1>0, <1>18, <2>2, <2>3, <2>4, AgainShape
<1>19. CASE Verify(t)
  <2>1. done' = done /\ queue' = queue
    BY <1>0, <1>19, VerifyShape
  <2>2. CASE call'[t] # Resting
    <3>1. (\A e \in call'[t].about : ~Shows(adj.body, e)) /\ adj' = adj
      BY <1>0, <1>19, <2>2, VerifyShape DEF files, Resting
    <3>2. Hidden(call[t].about)'
      BY <3>1 DEF Hidden, Shows
    <3>3. Told(t)'
      BY <1>0, <1>19, <2>2, <3>2, VerifyShape DEF Adjacent
    <3> QED
      BY <1>6, <1>7, <2>1, <3>3
  <2> QED
    BY <1>6, <1>7, <1>8, <2>1, <2>2
<1>20. CASE Remove(t)
  <2>1. call[t].job = "drain" => Hidden(call[t].about)
    BY <1>4, <1>20 DEF Remove
  <2>2. Hidden(done' \ queue')
    BY <1>0, <1>7, <1>20, <2>1, RemoveShape DEF Hidden
  <2> QED
    BY <1>0, <1>6, <1>8, <1>20, <2>2, RemoveShape
<1> QED
  BY <1>9, <1>10, <1>11, <1>12, <1>13, <1>14, <1>15, <1>16, <1>17, <1>18, <1>19,
     <1>20 DEF Step

\* The files lose nothing and the threads keep minding: so does the row.
LEMMA MindRest ==
  ASSUME Minded, NEW t \in Thread, Others(t), index' = index, dirty' = dirty,
         Within(Join(adj.body, ovf.body), Join(adj'.body, ovf'.body)),
         Minding(t) => Minding(t)'
  PROVE  Minded'
<1>1. Mirrored => Mirrored'
  BY WithinOrder DEF Mirrored
<1>2. ASSUME NEW u \in Thread \ {t}, Minding(u)
      PROVE  Minding(u)'
  BY <1>2 DEF Others, Minding, Adjacent
<1> QED
  BY <1>1, <1>2 DEF Minded

LEMMA MindStep ==
  ASSUME SafeInv, Sound, Fresh, Minded, ~Chased, ~Chased', NEW t \in Thread, Step(t),
         slips' = {}, adj'.body = adj.body
  PROVE  Minded'
<1>0. TypeOK /\ SoundCall(t)
  BY DEF SafeInv, TypeInv, Sound
<1>1. Others(t)
  BY AdjStep
<1>2. ~Chasing(t) /\ ~Chasing(t)'
  BY DEF Chased
<1>3. Minding(t) => \/ ~Adjacent(t) /\ call[t].at \in {"seen", "ack", "enqueue"}
                    \/ Adjacent(t) /\ call[t].at \in {"seen", "ack", "again"}
                                 /\ call[t].buf # index
  BY <1>2 DEF Minding, Chasing
<1>4. ASSUME index' = index, dirty' = dirty, ovf' = ovf, Minding(t) => Minding(t)'
      PROVE  Minded'
  BY <1>1, <1>4, MindRest, WithinOrder
<1>5. dirty' = TRUE => Minded'
  BY DEF Minded
<1>6. CASE Locate(t)
  <2>1. ~Minding(t)
    BY <1>3, <1>6 DEF Locate
  <2> QED
    BY <1>0, <1>4, <1>6, <2>1, LocateShape DEF files
<1>7. CASE Pull(t) \/ Ingest(t)
  <2>1. PICK s \in {"read", "snap"} : MergeThen(t, s)
    BY <1>7 DEF Pull, Ingest
  <2>2. ~Minding(t)
    BY <1>3, <1>7 DEF Pull, Ingest
  <2>3. CASE call[t].buf.ids = {}
    <3>1. call[t].buf.husks = {}
      BY <1>0, <2>3 DEF SoundCall, Paired
    <3>2. index' = Join(index, call[t].buf)
      BY <1>0, <2>1, MergeShape
    <3>3. index' = index
      BY <1>0, <2>3, <3>1, <3>2 DEF Join, TypeOK, Contents
    <3> QED
      BY <1>0, <1>4, <2>1, <2>2, <2>3, <3>3, MergeShape DEF files
  <2>4. CASE call[t].buf.ids # {}
    BY <1>0, <1>5, <2>1, <2>4, MergeShape
  <2> QED
    BY <2>3, <2>4
<1>8. CASE Read(t)
  <2>1. ~Minding(t)
    BY <1>3, <1>8 DEF Read
  <2> QED
    BY <1>0, <1>4, <1>8, <2>1, ReadShape DEF files
<1>9. CASE Aside(t)
  <2>1. ~Minding(t)
    BY <1>3, <1>9 DEF Aside
  <2> QED
    BY <1>0, <1>4, <1>9, <2>1, AsideShape
<1>10. CASE Snap(t)
  <2>1. ~Minding(t)
    BY <1>3, <1>10 DEF Snap
  <2> QED
    BY <1>0, <1>4, <1>10, <2>1, SnapShape DEF files
<1>11. CASE Temp(t) \/ Rename(t)
  <2>1. ~Minding(t)
    BY <1>3, <1>11 DEF Temp, Rename
  <2>2. CASE ovf' = ovf
    BY <1>0, <1>4, <1>11, <2>1, <2>2, WriteShape
  <2>3. CASE /\ Moved(t, IF call[t].job = "redactFar" THEN "enqueue" ELSE "seen")
             /\ ~Adjacent(t)
    <3>1. Minding(t)'
      BY <2>3 DEF Moved, Minding, Adjacent
    <3> QED
      BY <3>1 DEF Minded
  <2> QED
    BY <1>0, <1>11, <2>2, <2>3, WriteShape DEF files
<1>12. CASE Observe(t)
  <2>1. Minding(t) => Minding(t)'
    BY <1>0, <1>3, <1>12, ObserveShape DEF Minding, Adjacent, Observe
  <2> QED
    BY <1>0, <1>4, <1>12, <2>1, ObserveShape DEF files
<1>13. CASE Ack(t) /\ Adjacent(t)
  <2>1. CASE call[t].buf = index
    <3>1. Within(index, adj.body)
      BY <1>13, <2>1 DEF Fresh, Ack
    <3>2. index' = index /\ adj' = adj
      BY <1>0, <1>13, AckShape DEF files
    <3>3. Within(adj'.body, Join(adj'.body, ovf'.body))
      BY WithinOrder
    <3> QED
      BY <3>1, <3>2, <3>3, WithinOrder DEF Minded, Mirrored
  <2>2. CASE call[t].buf # index
    <3>1. Minding(t)'
      BY <1>0, <1>13, <2>2, AckShape DEF Minding, Adjacent
    <3> QED
      BY <3>1 DEF Minded
  <2> QED
    BY <2>1, <2>2
<1>14. CASE (Ack(t) /\ ~Adjacent(t)) \/ Enqueue(t)
  <2>1. /\ UNCHANGED <<index, files>>
        /\ slips' = IF ovf.body # index THEN slips \union {"overflow"} ELSE slips
    BY <1>0, <1>14, FarShape
  <2>2. ovf'.body = index'
    BY <2>1 DEF files
  <2>3. Within(ovf'.body, Join(adj'.body, ovf'.body))
    BY WithinOrder
  <2> QED
    BY <2>2, <2>3 DEF Minded, Mirrored
<1>15. CASE Again(t)
  <2>1. /\ UNCHANGED <<index, dirty, files>>
        /\ Adjacent(t) /\ call[t].at = "again" /\ call[t].tries > 0
    BY <1>0, <1>15, AgainShape DEF SoundCall, Again
  <2>2. ~Moved(t, "snap")
    BY <1>2, <2>1 DEF Moved, Chasing, Adjacent
  <2>3. slips' = IF call[t].buf # index THEN slips \union {"exhausted"} ELSE slips
    BY <1>0, <1>15, <2>2, AgainShape
  <2>4. Within(index, adj.body)
    BY <2>1, <2>3 DEF Fresh
  <2>5. Within(adj'.body, Join(adj'.body, ovf'.body))
    BY WithinOrder
  <2> QED
    BY <2>1, <2>4, <2>5, WithinOrder DEF Minded, Mirrored, files
<1>16. CASE Verify(t)
  <2>1. ~Minding(t)
    BY <1>3, <1>16 DEF Verify
  <2> QED
    BY <1>0, <1>4, <1>16, <2>1, VerifyShape DEF files
<1>17. CASE Remove(t)
  <2>1. ~Minding(t)
    BY <1>3, <1>17 DEF Remove
  <2>2. UNCHANGED <<index, dirty>>
    BY <1>0, <1>17, RemoveShape
  <2>3. CASE ovf' = ovf
    BY <1>4, <2>1, <2>2, <2>3
  <2>4. CASE /\ ovf' = NoFile
             /\ slips' = IF Within(ovf.body, adj.body) THEN slips
                         ELSE slips \union {"migrate"}
    <3>1. Within(ovf.body, adj.body)
      BY <2>4
    <3>2. Within(Join(adj.body, ovf.body), Join(adj'.body, ovf'.body))
      BY <3>1 DEF Within, Join
    <3> QED
      BY <1>1, <2>1, <2>2, <3>2, MindRest
  <2> QED
    BY <1>0, <1>17, <2>3, <2>4, RemoveShape
<1> QED
  BY <1>6, <1>7, <1>8, <1>9, <1>10, <1>11, <1>12, <1>13, <1>14, <1>15, <1>16,
     <1>17 DEF Step

\* The two halves of the invariant's last conjunct, in the next state.
LEMMA MirrorStep ==
  ASSUME MirrorInv, NEW t \in Thread, Step(t), slips' = {} => slips = {},
         SafeInv', Sound'
  PROVE  MirrorInv'
<1> USE DEF MirrorInv
<1> SUFFICES ASSUME slips' = {} PROVE (Chased' \/ Fresh') /\ Minded'
  OBVIOUS
<1>1. slips = {}
  OBVIOUS
<1>2. CASE Chased'
  <2>1. Minded'
    BY <1>2, ChasedIsMinded, PTL
  <2> QED
    BY <1>2, <2>1
<1>3. CASE adj'.body = index'
  <2>1. (SafeInv /\ Sound /\ adj.body = index => Fresh /\ Minded)'
    BY FullIsFresh, PTL
  <2> QED
    BY <1>3, <2>1
<1>4. CASE adj'.body = adj.body /\ ~Chased /\ ~Chased'
  BY <1>1, <1>4, FreshStep, MindStep
<1> QED
  BY <1>1, <1>2, <1>3, <1>4, ChaseStep

LEMMA MirrorStart ==
  ASSUME MirrorInv, NEW t \in Thread, Start(t), SafeInv', Sound'
  PROVE  MirrorInv'
<1> USE DEF MirrorInv
<1>0. TypeOK /\ SoundCall(t)
  BY DEF SafeInv, TypeInv, Sound
<1>1. /\ Others(t) /\ UNCHANGED <<files, done, slips, queue>>
      /\ call[t].at = "idle" /\ call[t].dest = "adj"
      /\ call'[t].at \in {"idle", "locate", "pull", "read"} /\ call'[t].dest = "adj"
  <2>1. call[t] = Resting
    BY <1>0, StartShape
  <2>2. call[t].at = "idle" /\ call[t].dest = "adj"
    BY <2>1 DEF Resting
  <2>3. Others(t) /\ UNCHANGED <<files, done, slips, queue>>
    BY <1>0, StartShape
  <2>4. call'[t].at \in {"idle", "locate", "pull", "read"} /\ call'[t].dest = "adj"
    BY <1>0, StartShape
  <2> QED
    BY <2>2, <2>3, <2>4
<1> SUFFICES ASSUME slips = {} PROVE (Chased' \/ Fresh') /\ Minded'
  BY <1>1
<1>2. Chased => Chased'
  <2> SUFFICES ASSUME NEW u \in Thread, Chasing(u) PROVE Chased'
    BY DEF Chased
  <2>1. u # t /\ call'[u] = call[u]
    BY <1>1 DEF Chasing, Others
  <2> QED
    BY <1>1, <2>1 DEF Chasing, Chased, Adjacent, files
<1>3. Fresh => Fresh'
  <2> SUFFICES ASSUME Fresh, NEW u \in Thread
      PROVE /\ (Adjacent(u) /\ call[u].at \in {"seen", "ack", "again"} =>
                  Within(call[u].buf, adj.body))'
            /\ (call[u].job = "redact" /\ ~Adjacent(u) => Hidden(call[u].about))'
            /\ (call[u].job = "drain" /\ call[u].at = "remove" => Hidden(call[u].about))'
    BY <1>1 DEF Fresh, Hidden, files
  <2>1. CASE u = t
    BY <1>1, <2>1 DEF Adjacent
  <2>2. CASE u # t
    BY <1>1, <2>2 DEF Fresh, Others, Hidden, Adjacent, files
  <2> QED
    BY <2>1, <2>2
<1>4. Minded'
  <2>1. CASE dirty' = TRUE
    BY <2>1 DEF Minded
  <2>2. CASE UNCHANGED <<index, dirty>>
    <3>1. ~Minding(t)
      BY <1>1 DEF Minding, Adjacent
    <3> QED
      BY <1>1, <2>2, <3>1, MindRest, WithinOrder DEF files
  <2> QED
    BY <1>0, <2>1, <2>2, StartShape
<1> QED
  BY <1>2, <1>3, <1>4

LEMMA MirrorWorld ==
  ASSUME MirrorInv, SafeInv', Sound',
         Move \/ Edit \/ Crash \/ (\E e \in Local : Append(e)) \/ UNCHANGED vars
  PROVE  MirrorInv'
<1> USE DEF MirrorInv
<1>1. ASSUME NEW e \in Local, Append(e)
      PROVE  MirrorInv'
  <2>1. UNCHANGED <<queue, files, call, done, slips>> /\ dirty' = TRUE
    BY <1>1 DEF Append, MarkDirty
  <2>2. (Chased => Chased') /\ (Fresh => Fresh')
    BY <2>1 DEF Chased, Chasing, Fresh, Hidden, Adjacent, files
  <2> QED
    BY <2>1, <2>2 DEF Minded
<1>2. ASSUME UNCHANGED <<index, dirty, queue, files, call, done, slips>>
      PROVE  MirrorInv'
  <2>1. (Chased => Chased') /\ (Fresh => Fresh')
    BY <1>2 DEF Chased, Chasing, Fresh, Hidden, Adjacent, files
  <2>2. Minded => Minded'
    BY <1>2 DEF Minded, Minding, Mirrored, Adjacent, files
  <2> QED
    BY <1>2, <2>1, <2>2
<1>3. CASE Move
  BY <1>2, <1>3 DEF Move, store
<1>4. CASE Edit
  BY <1>4 DEF Edit
<1>5. CASE Crash
  <2> SUFFICES ASSUME slips' = {} PROVE Fresh' /\ Minded'
    OBVIOUS
  <2>1. /\ UNCHANGED <<index, dirty, queue, files, done>> /\ slips = {}
        /\ call' = [t \in Thread |-> Resting] /\ \A t \in Thread : ~Owes(t)
    BY <1>5 DEF Crash
  <2>2. CASE adj.body = index
    <3>1. (SafeInv /\ Sound /\ adj.body = index => Fresh /\ Minded)'
      BY FullIsFresh, PTL
    <3> QED
      BY <2>1, <2>2, <3>1 DEF files
  <2>3. CASE adj.body # index
    <3>1. ASSUME NEW t \in Thread
          PROVE  ~Chasing(t) /\ ~Minding(t)
      BY <2>1, <2>3 DEF Owes, Chasing, Minding
    <3>2. Fresh /\ Minded
      BY <2>1, <3>1 DEF Chased
    <3>3. Fresh'
      BY <2>1, <3>2 DEF Fresh, Hidden, Resting, Adjacent, files
    <3>4. Minded'
      BY <2>1, <3>1, <3>2 DEF Minded, Mirrored, files
    <3> QED
      BY <3>3, <3>4
  <2> QED
    BY <2>2, <2>3
<1>6. CASE UNCHANGED vars
  BY <1>2, <1>6 DEF vars, files
<1> QED
  BY <1>1, <1>3, <1>4, <1>5, <1>6

LEMMA MirrorInit == Init => MirrorInv
<1> SUFFICES ASSUME Init PROVE MirrorInv
  OBVIOUS
<1>1. SafeInv
  BY SafeInit
<1>2. \A t \in Thread : call[t] = Resting
  BY DEF Init
<1>3. Sound
  <2>1. Paired(index) /\ Paired(adj.body) /\ Paired(ovf.body)
    BY DEF Init, NoFile, Bare, Doc, Blank, Paired
  <2>2. \A t \in Thread : SoundCall(t)
    BY <1>2 DEF SoundCall, Resting, Blank, Paired, Adjacent
  <2> QED
    BY <2>1, <2>2 DEF Sound, Init
<1>4. Fresh
  BY <1>2 DEF Fresh, Hidden, Resting, Init, Adjacent
<1>5. Minded
  BY WithinOrder DEF Minded, Mirrored, Init
<1> QED
  BY <1>1, <1>3, <1>4, <1>5 DEF MirrorInv

LEMMA MirrorNext == MirrorInv /\ [Next]_vars => MirrorInv'
<1> SUFFICES ASSUME MirrorInv, [Next]_vars PROVE MirrorInv'
  OBVIOUS
<1>1. SafeInv' /\ TypeOK
  BY SafeNext DEF MirrorInv, SafeInv, TypeInv
<1>2. Sound'
  BY <1>1, SoundStart, SoundStep, SoundWorld DEF MirrorInv, Next
<1> QED
  BY <1>1, <1>2, SlipsStay, MirrorStart, MirrorStep, MirrorWorld DEF Next

\* When no dirty row is left, no thread still owes the image a rewrite and none
\* of the known slips has happened, the files hold all the index holds: for any
\* number of threads, events and rounds, and on volumes that come and go.
THEOREM CleanIsMirrored == Spec => []CleanMeansMirrored
<1>1. MirrorInv => CleanMeansMirrored
  <2>1. ASSUME NEW t \in Thread, ~Owes(t)
        PROVE  ~Minding(t)
    BY <2>1 DEF Owes, Minding
  <2> QED
    BY <2>1 DEF MirrorInv, Minded, CleanMeansMirrored
<1> QED
  BY <1>1, MirrorInit, MirrorNext, PTL DEF Spec

\* A redaction that was reported done, and is no longer queued, stays done in
\* the adjacent sidecar whenever the threads have come to rest without a slip.
THEOREM ScrubbedStaysScrubbed == Spec => []AdjacentScrubbed
<1>1. MirrorInv => AdjacentScrubbed
  <2>1. AllResting => ~Chased
    BY DEF AllResting, Chased, Chasing, Resting
  <2> QED
    BY <2>1 DEF MirrorInv, Fresh, Hidden, AdjacentScrubbed
<1> QED
  BY <1>1, MirrorInit, MirrorNext, PTL DEF Spec
================================================================================
