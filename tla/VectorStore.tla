---------------------------- MODULE VectorStore ----------------------------
(* PPVEC v2 (retrieval/ppvec.rs): one space of vectors, kept as metadata rows
   in SQLite and as fixed-size rows of a flat file that the metadata points
   into. Three threads use it: the embedding drain, the library's doctor,
   which opens a store of its own, and the journal (store/mod.rs), which marks
   rows dead in its transactions and zeroes the bytes of a redaction.

   A step is one file operation or one SQLite statement or transaction: the
   critical sections of the process-wide file lock are split where a crash or
   a transaction of the journal, which takes no file lock, can fall between
   two of them. A cell of the file stands for one quantised vector. *)
EXTENDS Naturals, Sequences, FiniteSets

CONSTANTS
  Unit,      \* annotation chunks, one per remark
  MaxCalls,  \* bound: revisions, retractions and redactions
  MaxCrash   \* bound: kills of the program

ASSUME VectorStoreAssumption ==
  /\ IsFiniteSet(Unit)
  /\ MaxCalls \in Nat /\ MaxCrash \in Nat

None   == [none |-> TRUE]
Zero   == [zero |-> TRUE]
NoFile == <<None>>
Free   == "free"
Thread == {"drain", "doctor", "journal"}
Cell   == {Zero} \union [unit : Unit, text : 0..MaxCalls]

VARIABLES
  event,    \* [Unit -> what the journal says of the remark]
  text,     \* [Unit -> version of its folded text]
  meta,     \* [Unit -> its metadata row: file_row, inputs_hash, not deleted]
  file,     \* the cells of the .ppvec file
  tmp,      \* the cells of its .compact-tmp file, or NoFile
  marker,   \* is there a ppvec_compactions row for the space?
  io,       \* who holds file_io_lock
  pc,       \* [Thread -> where its call is]
  reg,      \* [Thread -> the rows or the text its call has read]
  told,     \* [Unit -> has its redaction returned?]
  quiet,    \* [Unit -> was the store at rest when its redaction committed?]
  calls, crashes,
  torn      \* history: a recovery has taken the files of a compaction under way

svars == <<meta, file, tmp, marker>>
jvars == <<event, text, told, quiet, calls>>
vars  == <<event, text, meta, file, tmp, marker, io, pc, reg, told, quiet, calls, crashes>>

Nothing == [unit |-> None, text |-> 0, rows |-> <<>>]

Row(u)  == meta[u] # None
Live(u) == Row(u) /\ meta[u].live
LiveUnits == {u \in Unit : Live(u)}
DeadUnits == {u \in Unit : Row(u) /\ ~meta[u].live}

\* A file with cell c at row r; seeking past the end leaves zeros between.
Put(f, r, c) ==
  [i \in 1..(IF r > Len(f) THEN r ELSE Len(f)) |->
     IF i = r THEN c ELSE IF i <= Len(f) THEN f[i] ELSE Zero]

Dead(m, u) == IF m[u] = None THEN m ELSE [m EXCEPT ![u].live = FALSE]

\* The units of S in the order their rows have in the file.
ByRow(S) == {s \in [1..Cardinality(S) -> S] :
               /\ \A u \in S : \E i \in DOMAIN s : s[i] = u
               /\ \A i, j \in DOMAIN s : i < j => meta[s[i]].row < meta[s[j]].row}

CellsOf(f, u) == {i \in DOMAIN f : f[i] # Zero /\ f[i].unit = u}

Init ==
  /\ event = [u \in Unit |-> "live"] /\ text = [u \in Unit |-> 0]
  /\ meta = [u \in Unit |-> None] /\ file = <<>> /\ tmp = NoFile
  /\ marker = FALSE /\ io = Free
  /\ pc = [t \in Thread |-> IF t = "doctor" THEN "off" ELSE "idle"]
  /\ reg = [t \in Thread |-> Nothing]
  /\ told = [u \in Unit |-> FALSE] /\ quiet = [u \in Unit |-> FALSE]
  /\ calls = 0 /\ crashes = 0 /\ torn = FALSE

At(t, l)   == pc[t] = l
Goto(t, l) == pc' = [pc EXCEPT ![t] = l]
Keep(t, r) == reg' = [reg EXCEPT ![t] = r]
\* The critical section of file_io_lock.
Lock(t)    == io = Free /\ io' = t
Unlock(t)  == io = t /\ io' = Free
Recovers(t) == pc[t] \in {"closed", "finish", "clear", "tidy"}
Opening    == Recovers("drain")

-----------------------------------------------------------------------------
(* The embedding drain. *)

\* Mutant: a live row is taken to be fresh.
StaleIfDead(u) == ~Live(u)

\* row_inputs_hash: the row is missing, dead or of another text.
Stale(u) == Live(u) => meta[u].text # text[u]

\* The folded text is read from event_fts, which holds live remarks only, and
\* embedded with no lock held.
Fetch(u) ==
  /\ At("drain", "idle") /\ event[u] = "live" /\ Stale(u)
  /\ Goto("drain", "embed")
  /\ Keep("drain", [unit |-> u, text |-> text[u], rows |-> <<>>])
  /\ UNCHANGED <<jvars, svars, io, crashes>>

EmbedFails ==
  /\ At("drain", "embed") /\ Goto("drain", "idle") /\ Keep("drain", Nothing)
  /\ UNCHANGED <<jvars, svars, io, crashes>>

\* Mutant: no redaction guard.
RefusedNever(u) == FALSE

\* upsert_with_meta: the redaction guard, then the bytes.
Refused(u) == event[u] = "redacted"
UpsertWrite ==
  LET u == reg["drain"].unit
      r == IF Row(u) THEN meta[u].row ELSE Len(file) + 1
  IN /\ At("drain", "embed")
     /\ \/ /\ io = Free /\ Refused(u)
           /\ Goto("drain", "idle") /\ Keep("drain", Nothing)
           /\ UNCHANGED <<io, file>>
        \/ /\ Lock("drain") /\ ~Refused(u)
           /\ file' = Put(file, r, [unit |-> u, text |-> reg["drain"].text])
           /\ Keep("drain", [reg["drain"] EXCEPT !.rows = <<r>>])
           /\ Goto("drain", "written")
     /\ UNCHANGED <<jvars, meta, tmp, marker, crashes>>

Taken(u, r) == \E v \in Unit \ {u} : Row(v) /\ meta[v].row = r

\* ... then the metadata row, live again: UPDATE of the row, or INSERT, which
\* the unique index on file_row refuses when a dead row still names that cell.
UpsertCommit ==
  /\ At("drain", "written") /\ Unlock("drain")
  /\ LET d == reg["drain"]
     IN meta' = IF Taken(d.unit, d.rows[1]) THEN meta
                ELSE [meta EXCEPT ![d.unit] = [row |-> d.rows[1], text |-> d.text, live |-> TRUE]]
  /\ Goto("drain", "idle") /\ Keep("drain", Nothing)
  /\ UNCHANGED <<jvars, file, tmp, marker, crashes>>

-----------------------------------------------------------------------------
(* The sweep of dead rows and the compaction, by the drain or the doctor. *)

\* Between its calls the drain is idle; the doctor goes through a sweep, a
\* compaction and a reconciliation of the files, in this order.
Rest(t) == IF t = "doctor" THEN "clean" ELSE "idle"

SweepStart(t) ==
  /\ At(t, "idle")
  /\ \/ /\ DeadUnits # {} /\ Lock(t) /\ Goto(t, "sweep")
        /\ \E dead \in ByRow(DeadUnits) : Keep(t, [Nothing EXCEPT !.rows = dead])
     \/ /\ DeadUnits = {} /\ io = Free /\ t = "doctor" /\ Goto(t, "clean")
        /\ UNCHANGED <<io, reg>>
  /\ UNCHANGED <<jvars, svars, crashes>>

SweepZero(t) ==
  /\ At(t, "sweep") /\ Goto(t, "swept")
  /\ file' = IF file = <<>> THEN file ELSE Put(file, meta[reg[t].rows[1]].row, Zero)
  /\ UNCHANGED <<jvars, meta, tmp, marker, io, reg, crashes>>

\* DELETE after the bytes are gone.
SweepDrop(t) ==
  LET rest == Tail(reg[t].rows)
  IN /\ At(t, "swept")
     /\ meta' = [meta EXCEPT ![reg[t].rows[1]] = None]
     /\ IF rest = <<>> THEN Unlock(t) /\ Goto(t, Rest(t)) /\ Keep(t, Nothing)
        ELSE UNCHANGED io /\ Goto(t, "sweep") /\ Keep(t, [reg[t] EXCEPT !.rows = rest])
     /\ UNCHANGED <<jvars, file, tmp, marker, crashes>>

\* The rewritten file, of the rows that are live now; a row beyond the end of
\* the file is an error and nothing is written.
CompactWrite(t) ==
  /\ At(t, Rest(t)) /\ Len(file) > Cardinality(LiveUnits) /\ Lock(t)
  /\ \A u \in LiveUnits : meta[u].row <= Len(file)
  /\ \E live \in ByRow(LiveUnits) :
       /\ tmp' = [i \in DOMAIN live |-> file[meta[live[i]].row]]
       /\ Keep(t, [Nothing EXCEPT !.rows = live])
  /\ Goto(t, "rewritten")
  /\ UNCHANGED <<jvars, meta, file, marker, crashes>>

\* One transaction: the dead rows go, the rewritten ones move, the marker is set.
Moved(u, live) == [meta[u] EXCEPT !.row = CHOOSE i \in DOMAIN live : live[i] = u]

CompactCommit(t) ==
  /\ At(t, "rewritten")
  /\ meta' = [u \in Unit |-> IF ~Live(u) THEN None ELSE Moved(u, reg[t].rows)]
  /\ marker' = TRUE /\ Goto(t, "remapped")
  /\ UNCHANGED <<jvars, file, tmp, io, reg, crashes>>

\* The rename fails when the rewritten file is no longer there.
CompactRename(t) ==
  /\ At(t, "remapped")
  /\ \/ /\ tmp # NoFile /\ file' = tmp /\ tmp' = NoFile
        /\ Goto(t, "renamed") /\ UNCHANGED <<io, reg>>
     \/ /\ tmp = NoFile /\ Unlock(t) /\ Goto(t, Rest(t)) /\ Keep(t, Nothing)
        /\ UNCHANGED <<file, tmp>>
  /\ UNCHANGED <<jvars, meta, marker, crashes>>

CompactClear(t) ==
  /\ At(t, "renamed") /\ Unlock(t) /\ marker' = FALSE
  /\ Goto(t, Rest(t)) /\ Keep(t, Nothing)
  /\ UNCHANGED <<jvars, meta, file, tmp, crashes>>

\* reconcile_spaces: a file no live row points into is removed. The doctor ends.
Reconcile ==
  /\ At("doctor", "clean") /\ io = Free /\ Goto("doctor", "done")
  /\ file' = IF LiveUnits = {} THEN <<>> ELSE file
  /\ UNCHANGED <<jvars, meta, tmp, marker, io, reg, crashes>>

-----------------------------------------------------------------------------
(* Opening a store: recover_pending_compactions, under no lock. The program
   opens one before any other call; the doctor opens another beside the drain,
   and may find the files of a compaction that is still running. *)

DoctorOpens ==
  /\ ~Opening /\ At("doctor", "off") /\ Goto("doctor", "closed")
  /\ UNCHANGED <<jvars, svars, io, reg, crashes>>

ReadMarker(t) ==
  /\ At(t, "closed") /\ Goto(t, IF marker THEN "finish" ELSE "tidy")
  /\ UNCHANGED <<jvars, svars, io, reg, crashes>>

\* Mutant: the marker is cleared and the rewritten file thrown away.
FinishNothing(t) ==
  /\ At(t, "finish") /\ Goto(t, "clear")
  /\ UNCHANGED <<jvars, svars, io, reg, crashes>>

FinishRename(t) ==
  /\ At(t, "finish") /\ Goto(t, "clear")
  /\ file' = (IF tmp # NoFile THEN tmp ELSE file) /\ tmp' = NoFile
  /\ UNCHANGED <<jvars, meta, marker, io, reg, crashes>>

ClearMarker(t) ==
  /\ At(t, "clear") /\ Goto(t, "tidy") /\ marker' = FALSE
  /\ UNCHANGED <<jvars, meta, file, tmp, io, reg, crashes>>

RemoveTmp(t) ==
  /\ At(t, "tidy") /\ Goto(t, "idle") /\ tmp' = NoFile
  /\ UNCHANGED <<jvars, meta, file, marker, io, reg, crashes>>

-----------------------------------------------------------------------------
(* The journal: one writer, and no call before the store is open. *)

Calls == At("journal", "idle") /\ ~Opening /\ calls < MaxCalls /\ calls' = calls + 1

Revise(u) ==
  /\ Calls /\ event[u] = "live"
  /\ text' = [text EXCEPT ![u] = @ + 1] /\ meta' = Dead(meta, u)
  /\ UNCHANGED <<event, file, tmp, marker, io, pc, reg, told, quiet, crashes>>

Retract(u) ==
  /\ Calls /\ event[u] = "live"
  /\ event' = [event EXCEPT ![u] = "retracted"] /\ meta' = Dead(meta, u)
  /\ UNCHANGED <<text, file, tmp, marker, io, pc, reg, told, quiet, crashes>>

\* The store is at rest: nobody is inside the file lock, and no row of the file
\* but the one its metadata names holds a vector of u.
AtRest(u) == io = Free /\ tmp = NoFile
             /\ \A i \in CellsOf(file, u) : Row(u) /\ meta[u].row = i

Redact(u) ==
  /\ Calls /\ event[u] # "redacted" /\ Goto("journal", "zero")
  /\ event' = [event EXCEPT ![u] = "redacted"] /\ meta' = Dead(meta, u)
  /\ Keep("journal", [Nothing EXCEPT !.unit = u])
  /\ quiet' = [quiet EXCEPT ![u] = AtRest(u)]
  /\ UNCHANGED <<text, file, tmp, marker, io, told, crashes>>

\* zero_deleted_rows under the file lock, and the redaction returns.
ZeroBytes ==
  LET u == reg["journal"].unit
  IN /\ At("journal", "zero") /\ io = Free
     /\ file' = IF u \in DeadUnits /\ file # <<>> THEN Put(file, meta[u].row, Zero) ELSE file
     /\ told' = [told EXCEPT ![u] = TRUE]
     /\ Goto("journal", "idle") /\ Keep("journal", Nothing)
     /\ UNCHANGED <<event, text, meta, tmp, marker, io, quiet, calls, crashes>>

\* Bound: the doctor runs once.
Reopened == IF pc["doctor"] = "done" THEN "done" ELSE "off"

Crash ==
  /\ crashes < MaxCrash /\ crashes' = crashes + 1
  /\ io' = Free /\ reg' = [t \in Thread |-> Nothing]
  /\ pc' = [t \in Thread |-> CASE t = "drain" -> "closed" [] t = "doctor" -> Reopened [] OTHER -> "idle"]
  /\ UNCHANGED <<jvars, svars>>

Maintain(t) == \/ SweepStart(t) \/ SweepZero(t) \/ SweepDrop(t)
               \/ CompactWrite(t) \/ CompactCommit(t) \/ CompactRename(t) \/ CompactClear(t)
Open(t)     == ReadMarker(t) \/ FinishRename(t) \/ ClearMarker(t) \/ RemoveTmp(t)
Drain       == EmbedFails \/ UpsertWrite \/ UpsertCommit \/ (\E u \in Unit : Fetch(u))
Journal     == ZeroBytes \/ \E u \in Unit : Revise(u) \/ Retract(u) \/ Redact(u)

(* The history: torn once the doctor's recovery has renamed or removed the
   rewritten file of a compaction the drain is in, or cleared its marker. *)
Compacts(t) == pc[t] \in {"rewritten", "remapped", "renamed"}
Steals == Compacts("drain") /\ pc'["drain"] = pc["drain"] /\ <<tmp, marker>>' # <<tmp, marker>>
Track  == torn' = IF Steals THEN TRUE ELSE torn

Next == /\ \/ Drain \/ Journal \/ Crash \/ DoctorOpens \/ Reconcile
           \/ \E t \in {"drain", "doctor"} : Maintain(t) \/ Open(t)
        /\ Track

(* Fairness: the drain runs whenever it can and a call inside the file lock
   ends; a text that is embedded again and again is embedded in the end (the
   embedder's failures are transient), and the drain's visits reach each
   remark. Nothing is asked of the user, the doctor or a crash. *)
Fairness ==
  /\ WF_vars(UpsertCommit) /\ SF_vars(UpsertWrite) /\ SF_vars(SweepStart("drain"))
  /\ \A u \in Unit : SF_vars(Fetch(u))
  /\ \A t \in {"drain", "doctor"} :
       /\ WF_vars(Open(t)) /\ WF_vars(SweepZero(t)) /\ WF_vars(SweepDrop(t))
       /\ WF_vars(CompactCommit(t)) /\ WF_vars(CompactRename(t)) /\ WF_vars(CompactClear(t))

Spec == Init /\ [][Next]_<<vars, torn>> /\ Fairness

-----------------------------------------------------------------------------
(* Properties. *)

Meta == {None} \union [row : Nat \ {0}, text : 0..MaxCalls, live : BOOLEAN]

TypeOK ==
  /\ event \in [Unit -> {"live", "retracted", "redacted"}]
  /\ text \in [Unit -> 0..MaxCalls] /\ meta \in [Unit -> Meta]
  /\ file \in Seq(Cell) /\ (tmp # NoFile => tmp \in Seq(Cell))
  /\ marker \in BOOLEAN /\ io \in Thread \union {Free}
  /\ told \in [Unit -> BOOLEAN] /\ quiet \in [Unit -> BOOLEAN]
  /\ calls \in 0..MaxCalls /\ crashes \in 0..MaxCrash /\ torn \in BOOLEAN

\* Whenever a reader can hold the file lock, a live metadata row points at a
\* vector of its own remark: no crash in a compaction, no zeroing and no upsert
\* leaves it at another remark's bytes, at zeros or past the end of the file.
\* Excused for good once a recovery has torn a compaction that was running.
LiveRowIsOwn ==
  io = Free /\ ~Opening /\ ~torn =>
    \A u \in LiveUnits : meta[u].row \in CellsOf(file, u)

\* The same, torn or not.
LiveRowIsAlwaysOwn ==
  io = Free /\ ~Opening => \A u \in LiveUnits : meta[u].row \in CellsOf(file, u)

\* A redaction that committed while the store was at rest leaves no byte of the
\* remark in the file or its rewrite once it has returned, and no embedding
\* under way at the time brings one back; but for a torn compaction, which may
\* drop the dead row and leave its bytes.
RedactionHolds ==
  \A u \in Unit : told[u] /\ quiet[u] /\ ~torn =>
    /\ CellsOf(file, u) = {} /\ ~Live(u)
    /\ tmp # NoFile => CellsOf(tmp, u) = {}

\* What the journal documents of every redaction: the bytes are gone when the
\* call returns.
RedactionZeroes == \A u \in Unit : told[u] => CellsOf(file, u) = {}

\* The text a remark ends up with is embedded in the end, whatever revisions,
\* crashes, sweeps and compactions fall between.
EventuallyEmbedded ==
  \A u \in Unit : event[u] = "live" ~> (event[u] = "live" => Live(u) /\ meta[u].text = text[u])
=============================================================================
