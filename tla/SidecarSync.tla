----------------------------- MODULE SidecarSync -----------------------------
(***************************************************************************)
(* The sidecar engine for one image: how the events committed to the       *)
(* index are mirrored to the adjacent sidecar file and to the overflow     *)
(* file, by several threads that take no common lock.                      *)
(*                                                                         *)
(* The index, the `sidecar_dirty` row and the `redaction_queue` rows are   *)
(* durable (SQLite, one transaction per store call); the two files are     *)
(* durable and replaced atomically; the debouncer entry and everything a   *)
(* thread knows are lost in a crash.  A thread that flushes reads the file,*)
(* merges it, serializes the index, writes, reads the dirty row,           *)
(* acknowledges it and re-serializes: each of these is a step here,        *)
(* because the code holds a lock only within each of them.                 *)
(***************************************************************************)
EXTENDS JournalContent, Naturals

CONSTANTS
  Local,        \* events this installation appends, each a whole revision chain
  Remote,       \* events only another machine's sidecar can bring
  Thread,       \* the threads that call the engine
  Duty,         \* Duty[t]: the jobs thread t runs
  Places,       \* the locations the image's volume may have in this run
  MaxTries,     \* bound of flush_adjacent's re-verify loop (3 in the code)
  MaxMoves,     \* bound: mounts, unmounts and read-only remounts
  MaxEdits,     \* bound: changes to the adjacent file from outside the app
  MaxCrashes,   \* bound: kills of the process
  Ticker        \* the thread the shell runs the pump on

ASSUME TriesAssumption == MaxTries \in Nat \ {0}
ASSUME BoundAssumption ==
  /\ MaxMoves \in Nat /\ MaxEdits \in Nat /\ MaxCrashes \in Nat
ASSUME TickerAssumption == Ticker \in Thread
ASSUME EventAssumption == Local \intersect Remote = {}

Event == Local \union Remote

Jobs == {"flush", "redact", "migrate", "drain", "regen"}
ASSUME DutyAssumption == Duty \in [Thread -> SUBSET Jobs]
ASSUME PlacesAssumption ==
  Places # {} /\ Places \subseteq {"writable", "unwritable", "offline"}

VARIABLES
  index,     \* content of the event store for this image
  dirty,     \* the image has a sidecar_dirty row
  upto,      \* threads whose last observation of a row covers its present mark
  queue,     \* redaction_queue: events with a row for this image
  adj,       \* the file at the adjacent sidecar's path
  ovf,       \* the image's file in the overflow store
  place,     \* what ImageLocator::locate answers
  armed,     \* the debouncer has an entry for the image
  call,      \* call[t]: the engine call thread t is in, and its local state
  temps,     \* threads whose temporary file exists
  done,      \* history: events whose redact() has returned success
  slips,     \* history: the known ways to lose a mark that have happened
  blind,     \* history: threads whose look at the slot is out of date
  spent      \* moves, edits and crashes so far

store == <<index, dirty, upto, queue>>
files == <<adj, ovf>>
vars  == <<index, dirty, upto, queue, adj, ovf, place, armed, call, temps,
           done, slips, blind, spent>>

-----------------------------------------------------------------------------
(* Values. *)

\* The file kinds flush_adjacent distinguishes: no file, a document for this
\* image, a newer schema version, a user's file or a manifest, and a corrupt
\* document.  Only a document has content this version can read.
Kinds == {"none", "doc", "newer", "foreign", "corrupt"}
Files == [kind : Kinds, body : Contents(Event)]
Bare(k) == [kind |-> k, body |-> Blank]
Doc(c)  == [kind |-> "doc", body |-> c]
NoFile  == Bare("none")

\* A thread's call: where it stands, what it runs, the events a redact or a
\* drain is about, the file it writes, the content it last read or serialized,
\* whether it observed a dirty row, and the rounds of the re-verify loop done.
Calls == [at    : {"idle", "locate", "pull", "read", "ingest", "aside", "snap",
                   "temp", "rename", "seen", "ack", "again", "enqueue",
                   "verify", "remove"},
          job   : Jobs \union {"redactFar", "none"},
          about : SUBSET Event,
          dest  : {"adj", "ovf"},
          buf   : Contents(Event),
          saw   : BOOLEAN,
          tries : 0 .. MaxTries]
Resting == [at |-> "idle", job |-> "none", about |-> {}, dest |-> "adj",
            buf |-> Blank, saw |-> FALSE, tries |-> 0]

TypeOK ==
  /\ index \in Contents(Event)
  /\ dirty \in BOOLEAN
  /\ upto \subseteq Thread
  /\ queue \subseteq Event
  /\ adj \in Files
  /\ ovf \in Files
  /\ place \in Places
  /\ armed \in BOOLEAN
  /\ call \in [Thread -> Calls]
  /\ temps \subseteq Thread
  /\ done \subseteq Event
  /\ slips \subseteq {"exhausted", "overflow", "error", "aside", "migrate",
                      "crash", "edit"}
  /\ blind \subseteq Thread
  /\ spent \in [moves : 0 .. MaxMoves, edits : 0 .. MaxEdits,
                crashes : 0 .. MaxCrashes]

Init ==
  /\ index = Blank /\ dirty = FALSE /\ upto = {} /\ queue = {}
  /\ adj \in {Bare(k) : k \in Kinds \ {"doc"}}
              \union {Doc([ids |-> Remote, husks |-> h]) : h \in SUBSET Remote}
  /\ ovf = NoFile
  /\ place \in Places
  /\ armed = FALSE
  /\ call = [t \in Thread |-> Resting]
  /\ temps = {}
  /\ done = {} /\ slips = {} /\ blind = {}
  /\ spent = [moves |-> 0, edits |-> 0, crashes |-> 0]

-----------------------------------------------------------------------------
(* The store. *)

\* A mark moves the row's since_ts past every observation of it.  A new row
\* starts at the wall clock, which an observation of an earlier row, deleted
\* since, may or may not have reached.
MarkDirty ==
  /\ dirty' = TRUE
  /\ IF dirty THEN upto' = {}
     ELSE upto' \in SUBSET {t \in Thread : call[t].at = "ack" /\ call[t].saw}

\* DELETE ... WHERE since_ts <= the observed one
AckDirty(t) ==
  IF t \in upto THEN dirty' = FALSE /\ upto' = {} ELSE UNCHANGED <<dirty, upto>>

\* EventStore::merge: the union and the mark are one transaction.  Duplicates
\* are recomputed, so every document that holds an event marks the image.
Merge(c) ==
  /\ index' = Join(index, c)
  /\ IF c.ids # {} THEN MarkDirty ELSE UNCHANGED <<dirty, upto>>

\* A capture appends one event: the insert and the mark are one transaction.
Append(e) ==
  /\ e \in Local \ index.ids
  /\ index' = Insert(index, e)
  /\ MarkDirty
  /\ UNCHANGED <<queue, files, place, armed, call, temps, done, slips, spent>>

-----------------------------------------------------------------------------
(* The calls threads make into the engine. *)

Goto(t, s) == call' = [call EXCEPT ![t].at = s]

Begin(t, j) ==
  /\ j \in Duty[t]
  /\ call[t] = Resting
  /\ UNCHANGED <<files, place, temps, done, slips, spent>>

\* flush_all and pump: an image with a row, or with a debouncer entry left by
\* a failure, is flushed.  When an entry is due is the debouncer's choice.
StartFlush(t) ==
  /\ dirty \/ armed
  /\ armed' = TRUE
  /\ Begin(t, "flush")
  /\ call' = [call EXCEPT ![t].job = "flush", ![t].at = "locate"]
  /\ UNCHANGED store

\* redact: EventStore::redact scrubs and marks in one transaction and then
\* truncates the WAL.  When a reader blocks the truncation it returns an
\* error, and the engine's redact returns at once.
StartRedact(t, e) ==
  /\ Shows(index, e)
  /\ index' = Scrub(index, e)
  /\ MarkDirty
  /\ Begin(t, "redact")
  /\ \/ call' = [call EXCEPT ![t].job = "redact", ![t].at = "locate",
                             ![t].about = {e}]
     \/ UNCHANGED call
  /\ UNCHANGED <<queue, armed>>

\* migrate_overflow reads an overflow document whose image is writable.
StartMigrate(t) ==
  /\ ovf.kind = "doc" /\ place = "writable"
  /\ Begin(t, "migrate")
  /\ call' = [call EXCEPT ![t].job = "migrate", ![t].at = "pull",
                          ![t].buf = ovf.body]
  /\ UNCHANGED <<store, armed>>

\* drain_redaction_queue: the image's queued events, once it is writable.
StartDrain(t) ==
  /\ queue # {} /\ place = "writable"
  /\ Begin(t, "drain")
  /\ call' = [call EXCEPT ![t].job = "drain", ![t].at = "read",
                          ![t].about = queue]
  /\ UNCHANGED <<store, armed>>

\* scan: every annotated image that is writable is flushed, dirty or not.
StartRegen(t) ==
  /\ index.ids # {} /\ place = "writable"
  /\ Begin(t, "regen")
  /\ call' = [call EXCEPT ![t].job = "regen", ![t].at = "read"]
  /\ UNCHANGED <<store, armed>>

-----------------------------------------------------------------------------
(* How a call ends. *)

\* Success: flush_set and redact's adjacent rewrite clear the debouncer.
Finish(t) ==
  /\ call' = [call EXCEPT ![t] = Resting]
  /\ armed' = (armed /\ call[t].job \notin {"flush", "redact"})
  /\ done' = IF call[t].job \in {"redact", "redactFar"}
             THEN done \union call[t].about ELSE done

\* An error: a flush keeps the debouncer entry it may have (note_failure), any
\* other caller just returns.  After a completed round the row can be gone.
Fail(t) ==
  /\ call' = [call EXCEPT ![t] = Resting]
  /\ temps' = temps \ {t}
  /\ slips' = IF call[t].tries > 0 THEN slips \union {"error"} ELSE slips
  /\ UNCHANGED <<armed, done>>

\* Mutant: the deferral acknowledges the row.
DeferDone(t) ==
  /\ Finish(t)
  /\ dirty' = FALSE /\ upto' = {}

\* An offline volume defers the flush, which counts as success: the debouncer
\* entry is cleared, and the row brings the flush back.
Defer(t) == Finish(t) /\ UNCHANGED <<dirty, upto>>

\* The branch flush_image and redact take on the image's location.
Locate(t) ==
  /\ call[t].at = "locate"
  /\ \/ place = "offline" /\ call[t].job = "flush" /\ Defer(t)
     \/ /\ \/ /\ place = "writable"
              /\ Goto(t, "read")
           \/ /\ place = "unwritable" /\ call[t].job = "flush"
              /\ call' = [call EXCEPT ![t].dest = "ovf", ![t].at = "snap"]
           \/ /\ place # "writable" /\ call[t].job = "redact"
              /\ call' = [call EXCEPT ![t].job = "redactFar", ![t].dest = "ovf",
                                      ![t].at = "snap"]
        /\ UNCHANGED <<dirty, upto, armed, done>>
  /\ UNCHANGED <<index, queue, files, place, temps, slips, spent>>

\* Merge what the call read, then go on; or stop, when the merge scrubbed
\* something and the WAL truncation that must follow is blocked.
MergeThen(t, s) ==
  /\ Merge(call[t].buf)
  /\ \/ Goto(t, s) /\ UNCHANGED <<armed, temps, done, slips>>
     \/ ~(call[t].buf.husks \subseteq index.husks) /\ Fail(t)
  /\ UNCHANGED <<queue, files, place, spent>>

\* migrate_overflow merges the overflow document before it flushes.
Pull(t) == call[t].at = "pull" /\ MergeThen(t, "read")

\* flush_adjacent reads the file in the slot.  An offline volume has none; a
\* newer version's file and a user's file are left alone, and the write goes
\* to the overflow store.
Read(t) ==
  /\ call[t].at = "read"
  /\ LET kind == IF place = "offline" THEN "none" ELSE adj.kind IN
       call' = [call EXCEPT
         ![t].dest = IF kind \in {"newer", "foreign"} THEN "ovf" ELSE "adj",
         ![t].buf  = IF kind = "doc" THEN adj.body ELSE @,
         ![t].at   = CASE kind = "doc" -> "ingest"
                       [] kind = "corrupt" -> "aside"
                       [] OTHER -> "snap"]
  /\ UNCHANGED <<store, files, place, armed, temps, done, slips, spent>>

\* Mutant: replace without the union.
IngestNothing(t) ==
  /\ call[t].at = "ingest"
  /\ Goto(t, "snap")
  /\ UNCHANGED <<store, files, place, armed, temps, done, slips, spent>>

\* Union before replace.
Ingest(t) == call[t].at = "ingest" /\ MergeThen(t, "snap")

\* A corrupt file is renamed aside, whatever is in the slot by now.
Aside(t) ==
  /\ call[t].at = "aside"
  /\ \/ /\ place = "writable" /\ adj.kind # "none"
        /\ adj' = NoFile
        /\ slips' = IF adj.kind # "corrupt" THEN slips \union {"aside"} ELSE slips
        /\ Goto(t, "snap")
        /\ UNCHANGED <<armed, temps, done>>
     \/ /\ place # "writable" \/ adj.kind = "none"
        /\ Fail(t)
        /\ UNCHANGED adj
  /\ UNCHANGED <<store, ovf, place, spent>>

\* image_doc: serialize the index.
Snap(t) ==
  /\ call[t].at = "snap"
  /\ call' = [call EXCEPT ![t].buf = index, ![t].at = "temp"]
  /\ UNCHANGED <<store, files, place, armed, temps, done, slips, spent>>

-----------------------------------------------------------------------------
(* write_atomic. *)

Adjacent(t) == call[t].dest = "adj"
Same(t) == IF Adjacent(t) THEN place # "offline" /\ adj = Doc(call[t].buf)
                          ELSE ovf = Doc(call[t].buf)
CanWrite(t) == Adjacent(t) => place = "writable"

\* A completed write deletes every temporary file of its target.
Written(t) ==
  /\ temps' = IF CanWrite(t) THEN {u \in temps : call[u].dest # call[t].dest}
              ELSE temps
  /\ Goto(t, IF call[t].job = "redactFar" THEN "enqueue" ELSE "seen")
  /\ UNCHANGED <<armed, done, slips>>

\* Skip the write when the target already holds these bytes; otherwise create
\* and fsync a temporary file beside it.
Temp(t) ==
  /\ call[t].at = "temp"
  /\ \/ Same(t) /\ Written(t)
     \/ /\ ~Same(t) /\ CanWrite(t)
        /\ temps' = temps \union {t}
        /\ Goto(t, "rename")
        /\ UNCHANGED <<armed, done, slips>>
     \/ ~Same(t) /\ ~CanWrite(t) /\ Fail(t)
  /\ UNCHANGED <<store, files, place, spent>>

\* Rename the temporary file over the target.  It fails when another writer of
\* the same target has cleaned the file up, or the volume is gone.
Rename(t) ==
  /\ call[t].at = "rename"
  /\ \/ /\ t \in temps /\ CanWrite(t)
        /\ IF Adjacent(t) THEN adj' = Doc(call[t].buf) /\ UNCHANGED ovf
                          ELSE ovf' = Doc(call[t].buf) /\ UNCHANGED adj
        /\ Written(t)
     \/ /\ ~(t \in temps /\ CanWrite(t))
        /\ Fail(t)
        /\ UNCHANGED files
  /\ UNCHANGED <<store, place, spent>>

-----------------------------------------------------------------------------
(* ack_dirty_row, and the re-verify loop around it. *)

\* dirty_images, after the write.
Observe(t) ==
  /\ call[t].at = "seen"
  /\ call' = [call EXCEPT ![t].saw = dirty, ![t].at = "ack"]
  /\ upto' = IF dirty THEN upto \union {t} ELSE upto
  /\ UNCHANGED <<index, dirty, queue, files, place, armed, temps, done, slips, spent>>

\* The writes are over.  migrate and drain go on to check the adjacent file.
Wrap(t) ==
  IF call[t].job \in {"migrate", "drain"} /\ Adjacent(t)
  THEN Goto(t, "verify") /\ UNCHANGED <<armed, done>>
  ELSE Finish(t)

\* The overflow path does not look again before it ends.
Unverified ==
  slips' = IF ovf.body # index THEN slips \union {"overflow"} ELSE slips

\* The overflow path ends with its acknowledgement; the adjacent path goes on
\* to re-serialize.
Ack(t) ==
  /\ call[t].at = "ack"
  /\ AckDirty(t)
  /\ IF Adjacent(t)
     THEN /\ call' = [call EXCEPT ![t].at = "again", ![t].tries = @ + 1]
          /\ UNCHANGED <<armed, done, slips>>
     ELSE Wrap(t) /\ Unverified
  /\ UNCHANGED <<index, queue, files, place, temps, spent>>

\* Mutant: the loop is left without a second look.
AgainTrusting(t) ==
  /\ call[t].at = "again"
  /\ Wrap(t)
  /\ UNCHANGED <<store, files, place, temps, slips, spent>>

\* Out of tries, or nothing new: the image is taken to be clean.
Again(t) ==
  /\ call[t].at = "again"
  /\ IF call[t].buf # index /\ call[t].tries < MaxTries
     THEN Goto(t, "snap") /\ UNCHANGED <<armed, done, slips>>
     ELSE /\ Wrap(t)
          /\ slips' = IF call[t].buf # index THEN slips \union {"exhausted"}
                      ELSE slips
  /\ UNCHANGED <<store, files, place, temps, spent>>

\* Mutant: the unreachable copy is forgotten.
EnqueueNothing(t) ==
  /\ call[t].at = "enqueue"
  /\ Finish(t) /\ Unverified
  /\ UNCHANGED <<store, files, place, temps, spent>>

\* redact, for an image it could not reach: the redaction_queue row.
Enqueue(t) ==
  /\ call[t].at = "enqueue"
  /\ queue' = queue \union call[t].about
  /\ Finish(t) /\ Unverified
  /\ UNCHANGED <<index, dirty, upto, files, place, temps, spent>>

\* The read-back: migrate_overflow asks that the file parses and is this
\* image's; drain_redaction_queue goes on with the events the file does not
\* show: those it has as husks, and those it does not have at all.
Verify(t) ==
  /\ call[t].at = "verify"
  /\ \/ /\ place # "offline" /\ adj.kind = "doc"
        /\ call' = [call EXCEPT ![t].at = "remove", ![t].about =
                                  {e \in @ : ~Shows(adj.body, e)}]
     \/ /\ place = "offline" \/ adj.kind # "doc"
        /\ call' = [call EXCEPT ![t] = Resting]
  /\ UNCHANGED <<store, files, place, armed, temps, done, slips, spent>>

\* Only then is the overflow file deleted, or the queue row.
Remove(t) ==
  /\ call[t].at = "remove"
  /\ IF call[t].job = "drain"
     THEN queue' = queue \ call[t].about /\ UNCHANGED <<ovf, slips>>
     ELSE /\ ovf' = NoFile
          /\ slips' = IF Within(ovf.body, adj.body) THEN slips
                      ELSE slips \union {"migrate"}
          /\ UNCHANGED queue
  /\ call' = [call EXCEPT ![t] = Resting]
  /\ UNCHANGED <<index, dirty, upto, adj, place, armed, temps, done, spent>>

Step(t) ==
  \/ Locate(t) \/ Pull(t) \/ Read(t) \/ Ingest(t) \/ Aside(t) \/ Snap(t)
  \/ Temp(t) \/ Rename(t) \/ Observe(t) \/ Ack(t) \/ Again(t)
  \/ Enqueue(t) \/ Verify(t) \/ Remove(t)

Start(t) ==
  \/ StartFlush(t) \/ StartMigrate(t) \/ StartDrain(t) \/ StartRegen(t)
  \/ \E e \in Event : StartRedact(t, e)

-----------------------------------------------------------------------------
(* The world. *)

\* The volume is unmounted, mounted, or remounted read-only or read-write.
Move ==
  /\ spent.moves < MaxMoves /\ spent' = [spent EXCEPT !.moves = @ + 1]
  /\ place' \in Places \ {place}
  /\ UNCHANGED <<store, files, armed, call, temps, done, slips>>

\* Someone deletes, damages or replaces the sidecar: with an older copy of it,
\* with another machine's, with a newer version's or with a file of their own.
Edit ==
  /\ spent.edits < MaxEdits /\ spent' = [spent EXCEPT !.edits = @ + 1]
  /\ \/ \E k \in Kinds \ {"doc"} : adj' = Bare(k)
     \/ \E s \in SUBSET (index.ids \union Remote) :
        \E h \in SUBSET (s \intersect (index.husks \union Remote)) :
          adj' = Doc([ids |-> s, husks |-> h])
  /\ slips' = slips \union {"edit"}
  /\ UNCHANGED <<store, ovf, place, armed, call, temps, done>>

\* A thread that still owes the files what the row may no longer record.
Owes(t) ==
  \/ ~Adjacent(t) /\ call[t].at \in {"temp", "rename", "seen", "ack", "enqueue"}
  \/ Adjacent(t) /\ call[t].at \in {"snap", "temp", "rename"} /\ call[t].tries > 0
  \/ Adjacent(t) /\ call[t].at \in {"seen", "ack", "again"} /\ call[t].buf # index

\* The process dies: only the database and the files survive.
Crash ==
  /\ spent.crashes < MaxCrashes /\ spent' = [spent EXCEPT !.crashes = @ + 1]
  /\ slips' = IF \E t \in Thread : Owes(t) THEN slips \union {"crash"} ELSE slips
  /\ armed' = FALSE
  /\ call' = [t \in Thread |-> Resting]
  /\ temps' = {} /\ upto' = {}
  /\ UNCHANGED <<index, dirty, queue, files, place, done>>

\* A thread past its look at the adjacent file is blind when the volume was away
\* as it looked (no file, it saw), or when the file was changed from outside since.
Track ==
  blind' = {t \in Thread :
             /\ call'[t].at \notin {"idle", "locate", "pull", "read"}
             /\ \/ t \in blind
                \/ call[t].at = "read" /\ place = "offline"
                \/ spent'.edits # spent.edits}

Next ==
  /\ \/ \E e \in Local : Append(e)
     \/ \E t \in Thread : Start(t) \/ Step(t)
     \/ Move \/ Edit \/ Crash
  /\ Track

Spec == Init /\ [][Next]_vars

\* Every call runs on; the pump ticks every two seconds and flushes what is due.
\* A command flushes when a session closes, which need not come, and nothing in
\* the shell calls the engine's scan.
PumpFairness ==
  /\ \A t \in Thread : WF_vars(Step(t) /\ Track)
  /\ WF_vars(StartFlush(Ticker) /\ Track)

ShellSpec == Spec /\ PumpFairness

-----------------------------------------------------------------------------
(* Properties. *)

\* What rebuild_from_sidecars would recover from this image's files is all
\* the index knows.
Mirrored == Within(index, Join(adj.body, ovf.body))

\* When no dirty row is left and no thread still owes the image a rewrite, the
\* files on disk together hold every event and every redaction of the index.
\* flush_adjacent's loop is there for it ("never assume clean after ack"); the
\* slips are the ways in which the code does lose a mark, and the property says
\* that there are no others.
CleanMeansMirrored ==
  (slips = {} /\ ~dirty /\ \A t \in Thread : ~Owes(t)) => Mirrored

\* What the app overwrites, renames aside or deletes is in the index by then
\* (flush_adjacent's "union before replace"), and it never touches a newer
\* version's file or a file of the user's: the slot is lost only by a thread
\* that looked at it while the volume was away, or before it changed outside.
NeverDestroy ==
  [][/\ \A t \in Thread \ blind :
          (call'[t] # call[t] /\ adj' # adj) =>
            Within(adj.body, index') /\ adj.kind \notin {"newer", "foreign"}
     /\ ovf' # ovf => Within(ovf.body, index')]_vars

\* The same of every thread: "union before replace" without exception.
UnionBeforeReplace ==
  [][\A t \in Thread : (call'[t] # call[t] /\ adj' # adj) =>
       Within(adj.body, index') /\ adj.kind \notin {"newer", "foreign"}]_vars

AllResting == \A t \in Thread : call[t] = Resting

\* Once redact() has reported success and the event is not (or no longer) on the
\* redaction queue, the adjacent sidecar does not show its content, even when
\* more rewrites are due: no later or slower writer brings it back for good.
AdjacentScrubbed ==
  (slips = {} /\ AllResting) =>
    \A e \in done \ queue : ~Shows(adj.body, e)

StaysWritable == <>[](place = "writable")

\* Once the volume stays writable the pump gets all of the index to the files and
\* no reported redaction stays visible beside the original, across deferrals,
\* failed flushes and kills: only a slip keeps the files behind for good, which
\* is what the scan that the shell never runs would be for (SIDECARS 9.5, 11).
EventuallyMirrored ==
  StaysWritable =>
    <>[](slips # {} \/ (Mirrored /\ \A e \in done \ queue : ~Shows(adj.body, e)))

-----------------------------------------------------------------------------
(* What the code's comments and the specifications claim beyond that.       *)

\* "An ack can never lose dirtiness recorded after the writer's snapshot"
\* (ack_dirty): with nothing queued and nothing running, the files have it all.
MarksReachFiles == (~dirty /\ ~armed /\ AllResting) => Mirrored

\* "Defensive re-verify around ack_dirty ... never assume clean after ack"
\* (flush_adjacent): the loop alone makes the adjacent path safe.
VerifiedAfterAck ==
  (slips \subseteq {"exhausted"} /\ ~dirty /\ ~armed /\ AllResting) => Mirrored

\* "Durable scrubbed overflow record for every unreachable target before this
\* returns" (redact): the overflow file does not show a redacted event.
DurableRecord == \A e \in done : ~Shows(ovf.body, e)

\* A redaction removes the content "from every sidecar file the app can reach"
\* (SIDECARS 11), so from the overflow file too, once it has come to rest.
OverflowScrubbed ==
  (slips = {} /\ ~dirty /\ AllResting) => \A e \in done \ queue : ~Shows(ovf.body, e)

\* A redaction the index committed is carried out or queued for every copy it
\* has not reached, even when a step after the commit failed.
ScrubbedIsTracked ==
  (slips = {} /\ ~dirty /\ AllResting) =>
    \A e \in index.husks \ queue : ~Shows(adj.body, e)

\* "Transient: stays in the durable queue" (flush_set): a flush that fails
\* leaves the dirty row behind, or nothing to do.
FailedStaysQueued ==
  [][\A t \in Thread :
       (call[t].job = "flush" /\ call'[t] = Resting /\ armed')
         => dirty' \/ Mirrored']_vars

\* "On volume mount and at each reconciliation scan, drain" (SIDECARS 11): a
\* redaction does not stay queued once the volume stays writable.
RedactionDrains ==
  StaysWritable => \A e \in Event : e \in queue ~> e \notin queue
=============================================================================
