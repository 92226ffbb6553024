----------------------------- MODULE PathIndex -----------------------------
(* The path index of one watched root (the paths table): the reconciliation
   scan (library/scan.rs), the live watcher (library/watcher.rs), the one
   algorithm both apply to a file (library/mod.rs, observe_file, supersede_tx,
   relink_tx, new_image_tx, observe_removed) and the life of the root
   (commands/library.rs), over a file system other programs change.

   A file is its content and the stamp of the write that made it: the mtime,
   different for every write and kept by a rename.  What the index compares is
   the stat, [size, mtime].  A row is stale for good, and left out here, unless
   it is stale because its root was removed.  The time of debouncing, stability
   and polling is left out: what is due may be looked at now or later.  Left
   out too: case aliases, placeholders of cloud files, the clock shift. *)
EXTENDS Naturals, Sequences, FiniteSetsExt

CONSTANTS
  Path,       \* paths of the root, in the order of the walk
  Content,    \* contents (their hashes)
  Nothing,
  World,      \* kinds of system: [size of each content, paired: are renames told as pairs?]
  Id,         \* ids of rows, taken again when nothing refers to them
  MaxChanges, \* bound: writes, renames and removals of files
  MaxUpsets   \* bound: changes of the root, kills, events lost, files that cannot be read

VARIABLES
  world,
  disk,     \* [Path -> [c: content, t: stamp], or Nothing]
  stamp,    \* of the last write
  rows,     \* {[id, p, c, t, on]}: active, or stale for a removed root
  root,     \* "active", "archived", "removed"
  watch,    \* does the watcher run?
  events,   \* what the system has told it, in order
  due,      \* [Path -> the debounce entry: none, changed, removed, stat (and of which write)]
  seeing,   \* the file observe_file is hashing, or Nothing
  polled,   \* has the watcher fallen back to scanning every ten minutes?
  walkDue,  \* does the launch, or the return of the root, owe a scan?
  scan,     \* the scan under way
  muddled,  \* was something missed that no scan of the launch or of the return will see?
  departed, \* history: where a file was renamed away, and its stamp
  misled,   \* history: rows bound by a size to a file of another content
  moved, upsets

indexVars == <<world, disk, stamp, rows, root, watch, events, due, seeing, polled, walkDue,
               scan, muddled, departed, misled, moved, upsets>>
fs      == <<disk, stamp, moved, departed, misled>>
watcher == <<events, due, seeing, polled>>

Resting == [st |-> "none", t |-> 0]
NoScan  == [at |-> "idle", by |-> "user", stop |-> FALSE, known |-> {}, todo |-> {},
            jobs |-> {}, seen |-> {}, bad |-> FALSE, kept |-> {}, calm |-> FALSE]

Init ==
  /\ world \in World
  /\ disk = [p \in Path |-> Nothing] /\ stamp = 0 /\ rows = {} /\ root = "active"
  /\ watch = TRUE /\ events = <<>> /\ due = [p \in Path |-> Resting]
  /\ seeing = Nothing /\ polled = FALSE /\ walkDue = FALSE /\ scan = NoScan
  /\ muddled = FALSE /\ departed = {} /\ misled = {} /\ moved = 0 /\ upsets = 0

Size(c) == world.size[c]
\* Same size and mtime: the fast path.
Matches(r, f) == Size(r.c) = Size(f.c) /\ r.t = f.t
ActiveAt(R, p) == {r \in R : r.on /\ r.p = p}
\* reactivatable_row: stale because the root was removed, its stat unchanged.
Revivable(p) == {r \in rows : ~r.on /\ r.p = p /\ Matches(r, disk[p])}

Scanning == scan.at # "idle"
Pending  == events # <<>> \/ seeing # Nothing \/ \E p \in Path : due[p] # Resting
Upset == upsets < MaxUpsets /\ upsets' = upsets + 1
\* A scan still owed sees what is missed now.
Missed(x) == muddled' = (muddled \/ (x /\ ~walkDue))

-----------------------------------------------------------------------------
(* The file system and the events it tells. *)

Changes(new, told) ==
  /\ disk' = new
  /\ events' = IF watch THEN events \o told ELSE events
  /\ Missed(Scanning \/ ~watch)
  /\ scan' = IF ~Scanning THEN scan
             ELSE [scan EXCEPT !.kept = {p \in @ : new[p] # Nothing}, !.calm = FALSE]
  /\ UNCHANGED <<world, misled, rows, root, watch, due, seeing, polled, walkDue, upsets>>

Event(k, p, q) == [k |-> k, p |-> p, q |-> q]
Written(c) == [c |-> c, t |-> stamp + 1]
Wrote == stamp + moved < MaxChanges /\ stamp' = stamp + 1 /\ UNCHANGED moved
Shifted == stamp + moved < MaxChanges /\ moved' = moved + 1 /\ UNCHANGED stamp

Write(p, c) ==
  /\ Wrote /\ UNCHANGED departed
  /\ Changes([disk EXCEPT ![p] = Written(c)], <<Event("changed", p, p)>>)

\* A file of an excluded name is renamed over the path: the safe save.
Replace(p, c) ==
  /\ disk[p] # Nothing /\ world.paired /\ Wrote /\ UNCHANGED departed
  /\ Changes([disk EXCEPT ![p] = Written(c)],
             <<Event("changed", p, p), Event("renamed", Nothing, p)>>)

Delete(p) ==
  /\ disk[p] # Nothing /\ Shifted /\ UNCHANGED departed
  /\ Changes([disk EXCEPT ![p] = Nothing], <<Event("removed", p, p)>>)

Rename(p, q) ==
  /\ p # q /\ disk[p] # Nothing /\ Shifted
  /\ departed' = departed \union {<<p, disk[p].t>>}
  /\ Changes([disk EXCEPT ![p] = Nothing, ![q] = disk[p]],
             <<Event("removed", p, p), Event("changed", q, q)>>
               \o IF world.paired THEN <<Event("renamed", p, q)>> ELSE <<>>)

\* The queue overflows, or the machine sleeps and nothing is told.
LoseEvents ==
  /\ events # <<>> /\ Upset /\ Missed(TRUE)
  /\ \E told \in {<<>>, <<Event("overflow", Nothing, Nothing)>>} : events' = told
  /\ UNCHANGED <<world, fs, rows, root, watch, due, seeing, polled, walkDue, scan>>

-----------------------------------------------------------------------------
(* What both apply to a file that was hashed: [p, t, id and rc of its row, c]. *)

Job(p, r) == [p |-> p, t |-> disk[p].t, size |-> Size(disk[p].c), id |-> r.id, rc |-> r.c,
              c |-> Nothing, st |-> "job"]
NewJob(p) == Job(p, [id |-> 0, c |-> Nothing])

InUse == {r.id : r \in rows \union scan.known \union scan.jobs}
           \union (IF seeing = Nothing THEN {} ELSE {seeing.id})
FreshId == CHOOSE i \in Id : i \notin InUse
NewRow(p, c, t) == [id |-> FreshId, p |-> p, c |-> c, t |-> t, on |-> TRUE]

\* update_size_mtime; or, in one transaction, the old row goes stale and the new
\* one binds the path (supersede_tx, relink_tx, new_image_tx).
SameBytes(j) == j.id # 0 /\ j.c = j.rc
Rest(j) == {r \in rows : ~(r.on /\ r.id = j.id)}
\* paths_active_loc: one active row at a path, or the transaction fails.
Clashes(j) == ~SameBytes(j) /\ ActiveAt(Rest(j), j.p) # {}
Applied(j) ==
  IF SameBytes(j) THEN {IF r.id = j.id THEN [r EXCEPT !.t = j.t] ELSE r : r \in rows}
  ELSE IF Clashes(j) THEN rows
  ELSE Rest(j) \union {NewRow(j.p, j.c, j.t)}

Revive(r) == rows' = (rows \ {r}) \union {[r EXCEPT !.on = TRUE]}

-----------------------------------------------------------------------------
(* The watcher thread. *)

WatcherTurn == watch /\ seeing = Nothing /\ ~(Scanning /\ scan.by = "watcher")
Entry(p, st) == [due EXCEPT ![p] = [st |-> st, t |-> 0]]

PushPlain(e) ==
  /\ e.k \in {"changed", "removed"}
  /\ due' = Entry(e.p, e.k)
  /\ UNCHANGED <<rows, polled>>

\* Events were missed: a scan, and from now on one every ten minutes.
PushOverflow(e) == e.k = "overflow" /\ polled' = TRUE /\ UNCHANGED <<rows, due>>

\* handle_rename: the row of the old name, or of the new one if that has none.
RowOfPair(e) == IF ActiveAt(rows, e.p) # {} THEN ActiveAt(rows, e.p) ELSE ActiveAt(rows, e.q)

\* No row, another size or no file: a removal and a change.
PairFallsBack(e) ==
  /\ disk[e.q] # Nothing => \A r \in RowOfPair(e) : Size(r.c) # Size(disk[e.q].c)
  /\ due' = [p \in Path |-> IF p = e.q THEN Entry(p, "changed")[p]
                            ELSE IF p = e.p THEN Entry(p, "removed")[p] ELSE due[p]]
  /\ UNCHANGED <<rows, polled>>

\* A row of the size of the file: it moves there with its hash, nothing is read.
\* If the new name has a row of its own the transaction fails.
PairRelinks(e) ==
  /\ disk[e.q] # Nothing
  /\ \E r \in RowOfPair(e) :
       /\ Size(r.c) = Size(disk[e.q].c)
       /\ rows' = IF ActiveAt(rows \ {r}, e.q) # {} THEN rows
                  ELSE (rows \ {r}) \union {NewRow(e.q, r.c, disk[e.q].t)}
  /\ UNCHANGED <<due, polled>>

Bound(r) == <<r.p, r.t, r.c>>

Push ==
  /\ WatcherTurn /\ events # <<>>
  /\ events' = Tail(events)
  /\ LET e == Head(events) IN
       \/ PushPlain(e)
       \/ PushOverflow(e)
       \/ e.k = "renamed" /\ PairFallsBack(e)
       \/ e.k = "renamed" /\ PairRelinks(e)
  /\ misled' = misled \union
       {Bound(r) : r \in {n \in rows' \ rows : n.c # disk[n.p].c}}
  /\ UNCHANGED <<world, disk, stamp, moved, departed, root, watch, seeing, walkDue, scan,
                 muddled, upsets>>

\* tick: a removal is believed, a change is stat first.
Gone(p) == due[p].st = "removed" \/ (due[p].st # "none" /\ disk[p] = Nothing)
TickRemoved(p) ==
  /\ WatcherTurn /\ Gone(p)
  /\ due' = [due EXCEPT ![p] = Resting]
  /\ rows' = rows \ ActiveAt(rows, p)
  /\ UNCHANGED <<world, fs, root, watch, events, seeing, polled, walkDue, scan, muddled, upsets>>

Stable(p) == due[p].st = "stat" /\ due[p].t = disk[p].t

\* The first look, or the file still changes: it is looked at again.
TickAgain(p) ==
  /\ WatcherTurn /\ due[p].st \in {"changed", "stat"} /\ disk[p] # Nothing /\ ~Stable(p)
  /\ due' = [due EXCEPT ![p] = [st |-> "stat", t |-> disk[p].t]]
  /\ UNCHANGED <<world, fs, rows, root, watch, events, seeing, polled, walkDue, scan, muddled, upsets>>

\* observe_file: nothing changed, a row of the removed root comes back, or the
\* file is hashed.
TickObserve(p) ==
  /\ WatcherTurn /\ disk[p] # Nothing /\ Stable(p)
  /\ due' = [due EXCEPT ![p] = Resting]
  /\ \/ \E r \in ActiveAt(rows, p) :
          /\ seeing' = IF Matches(r, disk[p]) THEN Nothing ELSE Job(p, r)
          /\ UNCHANGED rows
     \/ /\ ActiveAt(rows, p) = {}
        /\ \E r \in Revivable(p) : Revive(r)
        /\ UNCHANGED seeing
     \/ /\ ActiveAt(rows, p) = {} /\ Revivable(p) = {}
        /\ seeing' = NewJob(p) /\ UNCHANGED rows
  /\ UNCHANGED <<world, fs, root, watch, events, polled, walkDue, scan, muddled, upsets>>

\* The file is read off the lock; if it is gone the observation is dropped.
WatcherHashes ==
  /\ seeing # Nothing /\ seeing.st = "job"
  /\ seeing' = IF disk[seeing.p] = Nothing THEN Nothing
               ELSE [seeing EXCEPT !.c = disk[seeing.p].c, !.st = "hashed"]
  /\ UNCHANGED <<world, fs, rows, root, watch, events, due, polled, walkDue, scan, muddled, upsets>>

WatcherFails ==
  /\ seeing # Nothing /\ seeing.st = "job" /\ Upset
  /\ seeing' = Nothing /\ Missed(TRUE)
  /\ UNCHANGED <<world, fs, rows, root, watch, events, due, polled, walkDue, scan>>

\* Mutant: the stat of the row is taken after the hash.
WatcherAppliesLate ==
  /\ seeing # Nothing /\ seeing.st = "hashed"
  /\ rows' = Applied(IF disk[seeing.p] = Nothing THEN seeing
                     ELSE [seeing EXCEPT !.t = disk[seeing.p].t])
  /\ seeing' = Nothing
  /\ UNCHANGED <<world, fs, root, watch, events, due, polled, walkDue, scan, muddled, upsets>>

WatcherApplies ==
  /\ seeing # Nothing /\ seeing.st = "hashed"
  /\ rows' = Applied(seeing) /\ seeing' = Nothing
  /\ UNCHANGED <<world, fs, root, watch, events, due, polled, walkDue, scan, muddled, upsets>>

-----------------------------------------------------------------------------
(* The scan. *)

scanOnly == <<world, fs, root, watch, events, due, seeing>>

\* By the watcher that lost events, at the launch or the return of the root, or by
\* a command, the maintenance or a resume.
StartScan(by) ==
  /\ ~Scanning /\ root = "active"
  /\ by = "watcher" => WatcherTurn /\ polled
  /\ by = "start" => walkDue
  /\ walkDue' = (walkDue /\ by # "start")
  /\ scan' = [NoScan EXCEPT !.at = "walk", !.by = by, !.todo = Path,
                            !.known = {r \in rows : r.on}, !.kept = {p \in Path : disk[p] # Nothing},
                            !.calm = ~Pending]
  /\ muddled' = (muddled \/ Pending)
  /\ UNCHANGED <<scanOnly, rows, polled, upsets>>

\* One entry of the walk: known by its stat, to be hashed, or unknown.
Found(p) ==
  LET known == {r \in scan.known : r.p = p} IN
  IF known = {} THEN {[NewJob(p) EXCEPT !.st = "unknown"]}
  ELSE {Job(p, r) : r \in {k \in known : ~Matches(k, disk[p])}}

Walk(p) ==
  /\ scan.todo # {} /\ p = Min(scan.todo)
  /\ scan' = IF disk[p] = Nothing THEN [scan EXCEPT !.todo = @ \ {p}]
             ELSE [scan EXCEPT !.todo = @ \ {p}, !.seen = @ \union {p},
                               !.jobs = @ \union Found(p)]
  /\ UNCHANGED <<scanOnly, rows, polled, walkDue, muddled, upsets>>

\* Mutant: an entry that cannot be read is just not seen.
WalkSkips(p) ==
  /\ scan.todo # {} /\ p = Min(scan.todo) /\ Upset
  /\ scan' = [scan EXCEPT !.todo = @ \ {p}]
  /\ UNCHANGED <<scanOnly, rows, polled, walkDue, muddled>>

\* An entry that cannot be read: absence will prove nothing.
WalkFails(p) ==
  /\ scan.todo # {} /\ p = Min(scan.todo) /\ Upset
  /\ scan' = [scan EXCEPT !.todo = @ \ {p}, !.bad = TRUE]
  /\ Missed(TRUE)
  /\ UNCHANGED <<scanOnly, rows, polled, walkDue>>

Unknown == {j \in scan.jobs : j.st = "unknown"}
Unread  == {j \in scan.jobs : j.st # "hashed"}
\* Jobs are taken in the order of the walk (those of one size; files are hashed in
\* parallel, here one by one).
Upcoming(S, j) == scan.at = "walk" /\ scan.todo = {} /\ j \in S /\ \A k \in S : j.p <= k.p
Becomes(j, S) == scan' = [scan EXCEPT !.jobs = (@ \ {j}) \union S]
\* The job of an unknown file the index has a row for by now.
KnownJob(j, r) == [j EXCEPT !.id = r.id, !.rc = r.c, !.st = "job"]
Fits(r, j) == Size(r.c) = j.size /\ r.t = j.t
Returning(j) == {r \in rows : ~r.on /\ r.p = j.p /\ Fits(r, j)}

\* A file the snapshot did not know: the watcher may have inserted it since, or
\* it was there before the root was removed.
Resolve(j) ==
  /\ Upcoming(Unknown, j)
  /\ \/ \E r \in ActiveAt(rows, j.p) :
          /\ Becomes(j, IF Fits(r, j) THEN {} ELSE {KnownJob(j, r)})
          /\ UNCHANGED rows
     \/ /\ ActiveAt(rows, j.p) = {}
        /\ \E r \in Returning(j) : Revive(r) /\ Becomes(j, {})
     \/ /\ ActiveAt(rows, j.p) = {} /\ Returning(j) = {}
        /\ Becomes(j, {[j EXCEPT !.st = "job"]}) /\ UNCHANGED rows
  /\ UNCHANGED <<scanOnly, polled, walkDue, muddled, upsets>>

\* The batch is hashed off the lock; a file that is gone or cannot be read is
\* left to the next scan.
HashJob(j) ==
  /\ Unknown = {} /\ Upcoming(Unread, j)
  /\ Becomes(j, IF disk[j.p] = Nothing THEN {}
                ELSE {[j EXCEPT !.c = disk[j.p].c, !.st = "hashed"]})
  /\ UNCHANGED <<scanOnly, rows, polled, walkDue, muddled, upsets>>

HashFails(j) ==
  /\ Unknown = {} /\ Upcoming(Unread, j) /\ Upset
  /\ scan' = [scan EXCEPT !.jobs = @ \ {j}, !.calm = FALSE]
  /\ Missed(TRUE)
  /\ UNCHANGED <<scanOnly, rows, polled, walkDue>>

\* A transaction that fails ends the scan.
ApplyJob(j) ==
  /\ Unread = {} /\ Upcoming(scan.jobs, j)
  /\ rows' = Applied(j)
  /\ Missed(Clashes(j))
  /\ IF Clashes(j) THEN scan' = NoScan ELSE Becomes(j, {})
  /\ UNCHANGED <<scanOnly, polled, walkDue, upsets>>

\* Mutant: what was not seen is left alone.
FinishKeeps ==
  /\ scan.at = "walk" /\ scan.todo = {} /\ scan.jobs = {}
  /\ scan' = NoScan /\ muddled' = (muddled /\ (scan.bad \/ ~scan.calm))
  /\ UNCHANGED <<scanOnly, rows, polled, walkDue, upsets>>

\* What was loaded and not seen goes stale, by its id, if absence proves it.
Finish ==
  /\ scan.at = "walk" /\ scan.todo = {} /\ scan.jobs = {}
  /\ LET lost == {k.id : k \in {r \in scan.known : r.p \notin scan.seen}} IN
       rows' = IF scan.bad THEN rows ELSE {r \in rows : ~(r.on /\ r.id \in lost)}
  /\ scan' = NoScan
  /\ muddled' = (muddled /\ (scan.bad \/ ~scan.calm))
  /\ UNCHANGED <<scanOnly, polled, walkDue, upsets>>

\* The cancel flag, seen between two files, two batches and while hashing.
StopScan ==
  /\ Scanning /\ scan.stop
  /\ scan.todo = {} /\ scan.jobs # {} => Unread # {}
  /\ scan' = NoScan
  /\ UNCHANGED <<scanOnly, rows, polled, walkDue, muddled, upsets>>

-----------------------------------------------------------------------------
(* The root and the program. *)

Unwatch ==
  /\ watch' = FALSE /\ events' = <<>> /\ due' = [p \in Path |-> Resting]
  /\ seeing' = Nothing /\ polled' = FALSE

\* remove_root, archive_root: a scan is told to stop, unless it is rescan_root's or
\* the maintenance's, the watcher is joined, then the rows; those of an archived
\* root stay.
LeaveRoot(to) ==
  /\ root = "active" /\ seeing = Nothing /\ ~(Scanning /\ scan.by = "watcher") /\ Upset
  /\ \E told \in BOOLEAN : scan' = [scan EXCEPT !.stop = Scanning /\ told, !.calm = FALSE]
  /\ Unwatch /\ root' = to /\ walkDue' = FALSE /\ muddled' = TRUE
  /\ rows' = IF to = "removed" THEN {[r EXCEPT !.on = FALSE] : r \in rows} ELSE rows
  /\ UNCHANGED <<world, fs>>

\* register_root over a removed one, unarchive_root: watched, and then scanned,
\* unless the policy of a new root says no or a scan of before still runs.
ReturnRoot ==
  /\ root # "active"
  /\ root' = "active" /\ watch' = TRUE
  /\ walkDue' \in IF root = "archived" /\ ~Scanning THEN {TRUE} ELSE BOOLEAN
  /\ muddled' = ~walkDue'
  /\ UNCHANGED <<world, fs, rows, watcher, scan, upsets>>

\* A kill and the next launch: the watchers start, then the doctor scans every
\* active root.
Crash ==
  /\ Upset /\ muddled' = FALSE /\ scan' = NoScan
  /\ watch' = (root = "active") /\ walkDue' = (root = "active")
  /\ events' = <<>> /\ due' = [p \in Path |-> Resting] /\ seeing' = Nothing /\ polled' = FALSE
  /\ UNCHANGED <<world, fs, rows, root>>

-----------------------------------------------------------------------------

Outside ==
  \/ \E p \in Path, c \in Content : Write(p, c) \/ Replace(p, c)
  \/ \E p \in Path : Delete(p)
  \/ \E p, q \in Path : Rename(p, q)
  \/ LoseEvents
  \/ \E to \in {"removed", "archived"} : LeaveRoot(to)
  \/ ReturnRoot
  \/ Crash

Watching ==
  \/ Push
  \/ \E p \in Path : TickRemoved(p) \/ TickAgain(p) \/ TickObserve(p)
  \/ WatcherHashes
  \/ WatcherFails
  \/ WatcherApplies

Scans ==
  \/ \E p \in Path : Walk(p) \/ WalkFails(p)
  \/ \E j \in scan.jobs : Resolve(j) \/ HashJob(j) \/ HashFails(j) \/ ApplyJob(j)
  \/ Finish
  \/ StopScan

Next ==
  \/ Outside
  \/ Watching
  \/ Scans
  \/ \E by \in {"user", "watcher", "start"} : StartScan(by)

\* The watcher thread runs, scans again and again once it is polled, a scan goes
\* on, and the one the launch or the return owes begins.  Nobody owes another:
\* the six-hour maintenance waits for an idle program, the user for nothing.
IndexFairness ==
  /\ WF_indexVars(Watching)
  /\ WF_indexVars(Scans)
  /\ WF_indexVars(StartScan("watcher"))
  /\ WF_indexVars(StartScan("start"))

Spec == Init /\ [][Next]_indexVars /\ IndexFairness

-----------------------------------------------------------------------------
(* Properties. *)

\* What the fast path relies on: a row with the stat of the file at its path has
\* its content too, so that a changed file is always read again (LIBRARY 7.3).
\* Two ways to be wrong are excused, each by name: a file was renamed away from
\* that path and came back; this very row was bound to another content when a
\* pair was taken at its size.  Nothing else may make a row wrong: no hash raced by
\* a write, no scan beside the watcher, no root that returns.
FastPathIsSound ==
  \A r \in rows :
    /\ disk[r.p] # Nothing /\ Matches(r, disk[r.p])
    /\ <<r.p, r.t>> \notin departed /\ Bound(r) \notin misled
    => r.c = disk[r.p].c

\* LIBRARY 7.1, "pairing is an optimization, not correctness": the same with no
\* excuse for pairs.
FastPathWithPairs ==
  \A r \in rows :
    disk[r.p] # Nothing /\ Matches(r, disk[r.p]) /\ <<r.p, r.t>> \notin departed
      => r.c = disk[r.p].c

\* The same without the exception: another file took its place while it was hashed.
FastPathIsAlwaysSound ==
  \A r \in rows : disk[r.p] # Nothing /\ Matches(r, disk[r.p]) => r.c = disk[r.p].c

\* A scan takes a file for deleted only if it was gone for a moment since the
\* scan began: a partial traversal, whatever cut it short, proves nothing
\* (scan.rs, stale_inference_suppressed).
AbsenceIsProven ==
  [][(Scanning /\ scan'.at = "idle") =>
       \A r \in rows : r.on /\ r \notin rows' => r.p \notin scan.kept]_indexVars

Mirrors ==
  \A p \in Path :
    IF disk[p] = Nothing THEN ActiveAt(rows, p) = {}
    ELSE \E r \in ActiveAt(rows, p) : r.c = disk[p].c

\* The index of a root that stays gets to be the disk, whatever was lost before a
\* launch, before the root returned, or by a watcher that knows it lost something
\* (watcher.rs: "the scan is the recovery"), in whatever order the watcher and the
\* scans ran.  Only what was missed in silence, raced by a scan or unreadable waits
\* for a scan nobody promises.
IndexConverges == <>[](root = "active" /\ (polled \/ ~muddled) => Mirrors)

\* The same of whatever was missed.
IndexAlwaysConverges == <>[](root = "active" => Mirrors)

\* LIBRARY 5, of removal: "marks its path rows stale".
RemovedRootIsEmpty == root = "removed" => \A r \in rows : ~r.on
=============================================================================
