---------------------------- MODULE Collections ----------------------------
(***************************************************************************)
(* Collections (collections/mod.rs, collections/merge.rs): rows in the     *)
(* shared database and one file that mirrors them, written by a debounced  *)
(* writer that the sidecar pump and the exit flush both drive, and merged  *)
(* back at every open.                                                     *)
(*                                                                         *)
(* One collection and one image.  A document is the collection's name with *)
(* the time it was given, and the image's membership intervals: added ->   *)
(* No (no such interval), Still (open) or the time it was closed.          *)
(***************************************************************************)
EXTENDS Integers, FiniteSets

CONSTANTS
    Name,           \* names, as numbers: the lesser wins a tie
    No, Still,      \* no interval, an open interval
    Torn, Newer,    \* a file that does not parse, one of a later version
    Foreign,        \* documents another installation may have left at the path
    MaxTime,        \* bound: the clock
    MaxEdits,       \* bound: commands of one run of the program
    MaxSlips        \* bound: crashes, failed writes, files changed from outside

Time == 0..MaxTime
Flusher == {"pump", "exit"}

VARIABLES
    clock,
    base,           \* the document the database holds
    mirror,         \* the file: a document, No, Torn or Newer
    opened,         \* the engine is open
    unmarked,       \* commands that have committed and not yet marked the writer
    dirty,          \* FileDebounce::first is set
    gen,            \* FileDebounce::generation
    enabled,        \* FileDebounce::enabled
    flush,          \* flusher -> what its flush_file is doing
    edits, slips

collectionVars ==
    <<clock, base, mirror, opened, unmarked, dirty, gen, enabled, flush, edits, slips>>

Nobody == [f \in Flusher |-> [at |-> "idle"]]
Empty == [name |-> 0, updated |-> 0, member |-> [t \in Time |-> No]]

Init ==
    /\ clock = 0 /\ base = Empty /\ mirror = No
    /\ opened = FALSE /\ unmarked = 0 /\ dirty = FALSE /\ gen = 0 /\ enabled = TRUE
    /\ flush = Nobody /\ edits = 0 /\ slips = 0

Slip == slips < MaxSlips /\ slips' = slips + 1

----------------------------------------------------------------------------
(* merge_docs *)

Later(a, b) == IF a.updated > b.updated \/ (a.updated = b.updated /\ a.name < b.name) THEN a ELSE b

\* Intervals are joined; a closed one beats an open one, the earlier of two
\* closings stays.
Joined(x, y) ==
    CASE x = No -> y
      [] y = No -> x
      [] x = Still -> y
      [] y = Still -> x
      [] OTHER -> IF x < y THEN x ELSE y

Merge(a, b) ==
    [name |-> Later(a, b).name, updated |-> Later(a, b).updated,
     member |-> [t \in Time |-> Joined(a.member[t], b.member[t])]]

----------------------------------------------------------------------------
(* Commands: a transaction, then mark_dirty *)

Command(doc) ==
    /\ opened /\ edits < MaxEdits /\ edits' = edits + 1
    /\ base' = doc /\ unmarked' = unmarked + 1
    /\ UNCHANGED <<clock, mirror, opened, dirty, gen, enabled, flush, slips>>

Rename(n) == Command([base EXCEPT !.name = n, !.updated = clock])

Opens == {t \in Time : base.member[t] = Still}
Used == {t \in Time : base.member[t] # No}

\* An interval that opens in or before the millisecond of the last opens after it.
AddImage ==
    /\ Opens = {}
    /\ \E t \in Time :
         /\ t >= clock /\ \A u \in Used : t > u
         /\ \A s \in Time : s >= clock /\ (\A u \in Used : s > u) => s >= t
         /\ Command([base EXCEPT !.member[t] = Still])

RemoveImage ==
    /\ Opens # {}
    /\ Command([base EXCEPT !.member =
           [t \in Time |-> IF base.member[t] # Still THEN base.member[t]
                           ELSE IF clock > t THEN clock ELSE t]])

\* import_doc: another document is merged in by a rebuild.
Import ==
    \E doc \in Foreign : Merge(base, doc) # base /\ Command(Merge(base, doc))

Mark ==
    /\ unmarked > 0 /\ unmarked' = unmarked - 1
    /\ dirty' = TRUE /\ gen' = gen + 1
    /\ UNCHANGED <<clock, base, mirror, opened, enabled, flush, edits, slips>>

----------------------------------------------------------------------------
(* flush_file, in the pump when it is due, or at exit when anything is pending *)

Step(f, s) == flush' = [flush EXCEPT ![f] = s]
flushOnly == <<clock, base, opened, unmarked, gen, enabled, edits>>

FlushBegins(f) ==
    /\ opened /\ dirty /\ enabled /\ \A g \in Flusher : flush[g].at = "idle"
    /\ Step(f, [at |-> "read", gen |-> gen])
    /\ UNCHANGED <<flushOnly, mirror, dirty, slips>>

FlushReads(f) ==
    /\ flush[f].at = "read"
    /\ Step(f, [at |-> "write", gen |-> flush[f].gen, doc |-> base])
    /\ UNCHANGED <<flushOnly, mirror, dirty, slips>>

FlushWrites(f) ==
    /\ flush[f].at = "write"
    /\ \/ mirror' = flush[f].doc /\ UNCHANGED slips
          /\ Step(f, [at |-> "clear", gen |-> flush[f].gen])
       \/ Slip /\ UNCHANGED mirror /\ Step(f, [at |-> "idle"])
    /\ UNCHANGED <<flushOnly, dirty>>

\* Mutant: a write clears the writer, whatever came meanwhile.
FlushClearsAll(f) ==
    /\ flush[f].at = "clear"
    /\ dirty' = FALSE
    /\ Step(f, [at |-> "idle"])
    /\ UNCHANGED <<flushOnly, mirror, slips>>

FlushClears(f) ==
    /\ flush[f].at = "clear"
    /\ dirty' = IF gen = flush[f].gen THEN FALSE ELSE dirty
    /\ Step(f, [at |-> "idle"])
    /\ UNCHANGED <<flushOnly, mirror, slips>>

----------------------------------------------------------------------------
(* Open, and what happens while it is closed *)

\* What salvage makes of a torn file: anything it held, here the intervals or
\* nothing.
Salvaged == {Empty} \cup Foreign

\* reconcile_file_at_open: the union goes into the database, then to the file if
\* that can be written.  A later version disables the writer.
Open ==
    /\ ~opened /\ opened' = TRUE /\ unmarked' = 0 /\ edits' = 0
    /\ \/ /\ mirror = Newer
          /\ enabled' = FALSE /\ dirty' = FALSE /\ gen' = 0
          /\ UNCHANGED <<base, mirror, slips>>
       \/ /\ mirror # Newer
          /\ enabled' = TRUE
          /\ \E doc \in IF mirror = Torn THEN Salvaged ELSE {IF mirror = No THEN Empty ELSE mirror} :
               LET all == Merge(base, doc)
               IN /\ base' = all
                  /\ gen' = IF all = base THEN 1 ELSE 2
                  /\ \/ mirror' = all /\ dirty' = FALSE /\ UNCHANGED slips
                     \/ /\ Slip /\ dirty' = TRUE
                        /\ mirror' = IF mirror = Torn THEN No ELSE mirror
    /\ UNCHANGED <<clock, flush>>

\* The program ends, in the middle of a flush if need be; a write is atomic.
Close ==
    /\ opened /\ Slip /\ opened' = FALSE /\ flush' = Nobody
    /\ unmarked' = 0 /\ dirty' = FALSE /\ gen' = 0
    /\ UNCHANGED <<clock, base, mirror, enabled, edits>>

Outside ==
    /\ ~opened /\ Slip
    /\ mirror' \in {Torn, Newer} \cup Foreign
    /\ UNCHANGED <<clock, base, opened, unmarked, dirty, gen, enabled, flush, edits>>

Elapse ==
    /\ clock < MaxTime /\ clock' = clock + 1
    /\ UNCHANGED <<base, mirror, opened, unmarked, dirty, gen, enabled, flush, edits, slips>>

Next ==
    \/ AddImage \/ RemoveImage \/ Import \/ Mark \/ Open \/ Close \/ Outside \/ Elapse
    \/ \E n \in Name : Rename(n)
    \/ \E f \in Flusher : FlushBegins(f) \/ FlushReads(f) \/ FlushWrites(f) \/ FlushClears(f)

Spec == Init /\ [][Next]_collectionVars

----------------------------------------------------------------------------
(* Properties *)

\* "A mutation racing the file write is never silently dropped": while the
\* writer is clean the file is the database, unless a command is about to mark it.
CleanIsWritten == (opened /\ enabled /\ ~dirty /\ unmarked = 0) => mirror = base

\* A closed membership is not opened again, by a stale file or by any other
\* document that is merged in (the merge of collections/merge.rs), and no
\* interval is forgotten.
ClosedStaysClosed ==
    [][\A t \in Time :
          /\ base.member[t] # No => base'.member[t] # No
          /\ base.member[t] \notin {No, Still} => base'.member[t] \notin {No, Still}]_collectionVars
=============================================================================
