-------------------------- MODULE VectorStoreProofs --------------------------
(***************************************************************************)
(* Proofs about VectorStore, for any number of remarks, calls and crashes. *)
(* Frame keeps the shapes in every behaviour. VecInv keeps the data until  *)
(* the doctor's recovery has torn a compaction that was running: until     *)
(* then every live row names a vector of its own remark, and a redaction   *)
(* of a store at rest holds.                                               *)
(***************************************************************************)
EXTENDS VectorStore, FiniteSetTheorems, TLAPS

Worker == {"drain", "doctor"}

-----------------------------------------------------------------------------
(* The inductive invariant. *)

Rows == Nat \ {0}
Held == [unit : Unit \union {None}, text : 0..MaxCalls, rows : Seq(Unit \union Rows)]

\* The types, and what the counters bound.
Shape ==
  /\ event \in [Unit -> {"live", "retracted", "redacted"}]
  /\ meta \in [Unit -> Meta]
  /\ file \in Seq(Cell) /\ (tmp # NoFile => tmp \in Seq(Cell))
  /\ marker \in BOOLEAN /\ io \in Worker \union {Free}
  /\ told \in [Unit -> BOOLEAN] /\ quiet \in [Unit -> BOOLEAN]
  /\ calls \in 0..MaxCalls /\ crashes \in 0..MaxCrash
  /\ DOMAIN pc = Thread /\ reg \in [Thread -> Held]
  /\ text \in [Unit -> 0..calls] /\ \A t \in Thread : reg[t].text \in 0..calls

Sweeping(t)   == pc[t] \in {"sweep", "swept"}
Compacting(t) == pc[t] \in {"rewritten", "remapped", "renamed"}
InSection(t)  == Sweeping(t) \/ Compacting(t) \/ pc[t] = "written"

\* Where the threads can be, and who holds the file lock.
Places ==
  /\ pc["drain"] \in {"idle", "embed", "written", "sweep", "swept", "rewritten", "remapped",
                      "renamed", "closed", "finish", "clear", "tidy"}
  /\ pc["doctor"] \in {"off", "closed", "finish", "clear", "tidy", "idle", "sweep", "swept", "clean", "rewritten",
                       "remapped", "renamed", "done"}
  /\ pc["journal"] \in {"idle", "zero"}
  /\ \A t \in Worker : io = t <=> InSection(t)
  /\ Opening => pc["doctor"] \in {"off", "done"} /\ pc["journal"] = "idle"

\* The marker is set from the remapping of the rows to the end of the rename or
\* of the recovery, and the rewritten file is there until it is renamed.
Marked ==
  /\ marker => \/ \E t \in Worker : pc[t] \in {"remapped", "renamed"}
               \/ pc["drain"] \in {"closed", "finish", "clear"}
  /\ \A t \in Worker : pc[t] \in {"remapped", "renamed"} => marker
  /\ pc["drain"] \in {"finish", "clear"} => marker
  /\ tmp # NoFile => \/ \E t \in Worker : pc[t] \in {"rewritten", "remapped"}
                     \/ pc["drain"] \in {"closed", "finish", "tidy"}
  /\ \A t \in Worker : pc[t] \in {"rewritten", "remapped"} => tmp # NoFile

\* No two rows name one cell.
Distinct == \A u, v \in Unit : Row(u) /\ Row(v) /\ meta[u].row = meta[v].row => u = v

\* The file the rows point into: from the marker on, the rewritten one.
Current == IF marker /\ tmp # NoFile THEN tmp ELSE file
Own(u)  == meta[u].row \in CellsOf(Current, u)

(* What a worker holds in its hands. *)

Embeds == pc["drain"] \in {"embed", "written"} => reg["drain"].unit \in Unit

Writes ==
  pc["drain"] = "written" =>
    LET u == reg["drain"].unit
        r == reg["drain"].rows[1]
    IN r \in CellsOf(file, u) /\ (Row(u) => meta[u].row = r)

Sweeps(t) ==
  Sweeping(t) =>
    LET rows == reg[t].rows
    IN /\ rows \in Seq(Unit) /\ rows # <<>>
       /\ \A i \in DOMAIN rows : rows[i] \in DeadUnits
       /\ \A i, j \in DOMAIN rows : rows[i] = rows[j] => i = j
       /\ pc[t] = "swept" => meta[rows[1]].row \notin CellsOf(file, rows[1])

Rewrites(t) ==
  pc[t] = "rewritten" =>
    LET rows == reg[t].rows
    IN /\ \A u \in LiveUnits : \E i \in DOMAIN rows : rows[i] = u
       /\ \A i \in DOMAIN rows : rows[i] \in Unit /\ i \in CellsOf(tmp, rows[i])

Zeroes ==
  pc["journal"] = "zero" =>
    reg["journal"].unit \in Unit /\ event[reg["journal"].unit] = "redacted"

InHand == Embeds /\ Writes /\ Zeroes /\ \A t \in Worker : Sweeps(t) /\ Rewrites(t)

\* A remark redacted while the store was at rest: nothing but its own dead row
\* names a vector of it, and nothing does once the redaction has returned.
Redacted(u) ==
  /\ event[u] = "redacted" /\ ~Live(u)
  /\ ~(pc["drain"] = "written" /\ reg["drain"].unit = u)
  /\ \A i \in CellsOf(Current, u) : Row(u) /\ meta[u].row = i
  /\ tmp # NoFile => CellsOf(tmp, u) = {}
  /\ told[u] => CellsOf(file, u) = {}

Sound ==
  /\ Distinct
  /\ \A u \in LiveUnits : Own(u)
  /\ \A u \in Unit : told[u] => event[u] = "redacted"
  /\ \A u \in Unit : quiet[u] => Redacted(u)

VecInv == Shape /\ Places /\ Marked /\ InHand /\ Sound

(* What holds whatever a recovery does to a compaction under way: the shapes,
   the places and what a thread must hold for its next step to be defined. *)

Holding(t) ==
  LET rows == reg[t].rows
  IN /\ pc[t] \in {"embed", "written", "zero"} => reg[t].unit \in Unit
     /\ pc[t] = "written" => rows[1] \in Rows
     /\ Sweeping(t) => /\ rows \in Seq(Unit) /\ rows # <<>>
                       /\ \A i \in DOMAIN rows : rows[i] \in DeadUnits
                       /\ \A i, j \in DOMAIN rows : rows[i] = rows[j] => i = j
     /\ pc[t] = "rewritten" => \A u \in LiveUnits : \E i \in DOMAIN rows : rows[i] = u

Frame == torn \in BOOLEAN /\ Shape /\ Places /\ \A t \in Thread : Holding(t)

-----------------------------------------------------------------------------
(* Cells. *)

LEMMA Zeros ==
  /\ Zero \in Cell /\ None \notin Cell
  /\ \A u \in Unit, x \in 0..MaxCalls :
       [unit |-> u, text |-> x] \in Cell /\ [unit |-> u, text |-> x] # Zero
<1>1. \A u \in Unit, x \in 0..MaxCalls : [unit |-> u, text |-> x] # Zero
  <2> SUFFICES ASSUME NEW u \in Unit, NEW x \in 0..MaxCalls, [unit |-> u, text |-> x] = Zero
               PROVE  FALSE
    OBVIOUS
  <2>1. DOMAIN [unit |-> u, text |-> x] = DOMAIN Zero
    OBVIOUS
  <2>2. "unit" \in DOMAIN [unit |-> u, text |-> x] /\ "unit" \notin DOMAIN Zero
    BY DEF Zero
  <2> QED
    BY <2>1, <2>2
<1>2. None \notin Cell
  <2>1. None # Zero
    <3>1. "none" \in DOMAIN None /\ "none" \notin DOMAIN Zero
      BY DEF None, Zero
    <3> QED
      BY <3>1
  <2>2. None \notin [unit : Unit, text : 0..MaxCalls]
    <3>1. "none" \in DOMAIN None
      BY DEF None
    <3>2. \A c \in [unit : Unit, text : 0..MaxCalls] : "none" \notin DOMAIN c
      OBVIOUS
    <3> QED
      BY <3>1, <3>2
  <2> QED
    BY <2>1, <2>2 DEF Cell
<1> QED
  BY <1>1, <1>2 DEF Cell

LEMMA NoFileIsNoFile == NoFile \notin Seq(Cell)
<1>1. NoFile[1] = None /\ DOMAIN NoFile = {1}
  BY DEF NoFile
<1>2. ASSUME NoFile \in Seq(Cell) PROVE NoFile[1] \in Cell
  BY <1>1, <1>2
<1> QED
  BY <1>1, <1>2, Zeros

LEMMA MetaShape ==
  ASSUME NEW x \in Meta
  PROVE  /\ x # None => x.row \in Rows /\ x.text \in 0..MaxCalls /\ x.live \in BOOLEAN
         /\ x # None => x = [row |-> x.row, text |-> x.text, live |-> x.live]
         /\ \A r \in Rows, y \in 0..MaxCalls, b \in BOOLEAN :
              LET n == [row |-> r, text |-> y, live |-> b]
              IN n \in Meta /\ n # None
<1>1. \A r \in Rows, y \in 0..MaxCalls, b \in BOOLEAN : [row |-> r, text |-> y, live |-> b] # None
  <2> SUFFICES ASSUME NEW r \in Rows, NEW y \in 0..MaxCalls, NEW b \in BOOLEAN,
                      [row |-> r, text |-> y, live |-> b] = None
               PROVE  FALSE
    OBVIOUS
  <2>1. "row" \in DOMAIN [row |-> r, text |-> y, live |-> b] /\ "row" \notin DOMAIN None
    BY DEF None
  <2> QED
    BY <2>1
<1> QED
  BY <1>1 DEF Meta, Rows

LEMMA Cells ==
  ASSUME NEW f \in Seq(Cell), NEW u, NEW i \in CellsOf(f, u)
  PROVE  /\ i \in DOMAIN f /\ i \in Rows /\ i <= Len(f) /\ f[i] # Zero /\ f[i].unit = u
         /\ \A v : i \in CellsOf(f, v) => v = u
BY DEF CellsOf, Rows

LEMMA NoCells == \A u : CellsOf(<<>>, u) = {}
BY DEF CellsOf

\* What a write changes: the cell written, and zeros before it.
LEMMA PutCells ==
  ASSUME NEW f \in Seq(Cell), NEW r \in Rows, NEW c \in Cell
  PROVE  /\ Put(f, r, c) \in Seq(Cell)
         /\ \A u, i : i # r => (i \in CellsOf(Put(f, r, c), u) <=> i \in CellsOf(f, u))
         /\ \A u : r \in CellsOf(Put(f, r, c), u) <=> c # Zero /\ c.unit = u
<1> DEFINE n == IF r > Len(f) THEN r ELSE Len(f)
           g == [i \in 1..n |-> IF i = r THEN c ELSE IF i <= Len(f) THEN f[i] ELSE Zero]
<1>1. Put(f, r, c) = g
  BY DEF Put
<1>2. n \in Nat /\ r \in 1..n /\ Len(f) <= n /\ DOMAIN f = 1..Len(f) /\ Len(f) \in Nat
  BY DEF Rows
<1>3. DOMAIN g = 1..n
  OBVIOUS
<1> HIDE DEF n
<1>4. g[r] = c
  BY <1>2
<1>5. \A i \in 1..n : i # r => g[i] = IF i <= Len(f) THEN f[i] ELSE Zero
  OBVIOUS
<1>6. \A i \in 1..n : g[i] \in Cell
  BY <1>2, <1>4, <1>5, Zeros
<1>7. g \in Seq(Cell)
  BY <1>2, <1>6
<1> HIDE DEF g
<1>8. ASSUME NEW u, NEW i, i # r
      PROVE  i \in CellsOf(g, u) <=> i \in CellsOf(f, u)
  BY <1>2, <1>3, <1>5, <1>8 DEF CellsOf
<1>9. ASSUME NEW u
      PROVE  r \in CellsOf(g, u) <=> c # Zero /\ c.unit = u
  BY <1>2, <1>3, <1>4 DEF CellsOf
<1> QED
  BY <1>1, <1>7, <1>8, <1>9

-----------------------------------------------------------------------------
(* Threads and rows. *)

LEMMA Kept ==
  ASSUME Shape, NEW t \in Thread, NEW n \in Held, n.text \in 0..calls,
         reg' = [reg EXCEPT ![t] = n], calls' = calls
  PROVE  /\ reg' \in [Thread -> Held] /\ reg'[t] = n
         /\ \A s \in Thread : s # t => reg'[s] = reg[s]
         /\ \A s \in Thread : reg'[s].text \in 0..calls'
BY DEF Shape

LEMMA NothingHeld ==
  ASSUME Shape
  PROVE  /\ Nothing \in Held /\ Nothing.text \in 0..calls
         /\ \A s \in Seq(Unit) : [Nothing EXCEPT !.rows = s] \in Held
                                 /\ [Nothing EXCEPT !.rows = s].rows = s
                                 /\ [Nothing EXCEPT !.rows = s].text \in 0..calls
         /\ \A u \in Unit : [Nothing EXCEPT !.unit = u] \in Held
                            /\ [Nothing EXCEPT !.unit = u].unit = u
                            /\ [Nothing EXCEPT !.unit = u].text \in 0..calls
<1>1. 0 \in 0..calls /\ 0 \in 0..MaxCalls
  BY VectorStoreAssumption DEF Shape
<1>2. <<>> \in Seq(Unit \union Rows)
  OBVIOUS
<1>3. ASSUME NEW s \in Seq(Unit)
      PROVE  [Nothing EXCEPT !.rows = s] = [unit |-> None, text |-> 0, rows |-> s] /\ s \in Seq(Unit \union Rows)
  BY DEF Nothing
<1>4. ASSUME NEW u \in Unit
      PROVE  [Nothing EXCEPT !.unit = u] = [unit |-> u, text |-> 0, rows |-> <<>>]
  BY DEF Nothing
<1>5. Nothing = [unit |-> None, text |-> 0, rows |-> <<>>]
  BY DEF Nothing
<1> QED
  BY <1>1, <1>2, <1>3, <1>4, <1>5 DEF Held

\* What a call of the journal does to the rows.
LEMMA Deadens ==
  ASSUME Shape, NEW u \in Unit, meta' = Dead(meta, u)
  PROVE  /\ meta' \in [Unit -> Meta] /\ ~Live(u)'
         /\ \A v \in Unit : /\ Row(v)' <=> Row(v)
                            /\ Row(v) => meta'[v].row = meta[v].row
                            /\ Live(v)' => Live(v)
                            /\ v \in DeadUnits => v \in DeadUnits'
<1>1. CASE meta[u] = None
  BY <1>1 DEF Dead, Shape, Row, Live, DeadUnits
<1>2. CASE meta[u] # None
  <2>1. PICK n : n = [meta[u] EXCEPT !.live = FALSE]
    OBVIOUS
  <2>2. meta[u] = [row |-> meta[u].row, text |-> meta[u].text, live |-> meta[u].live]
        /\ meta[u].row \in Rows /\ meta[u].text \in 0..MaxCalls
    BY <1>2, MetaShape DEF Shape
  <2>3. n = [row |-> meta[u].row, text |-> meta[u].text, live |-> FALSE]
    BY <2>1, <2>2
  <2>4. n \in Meta /\ n # None /\ n.row = meta[u].row /\ n.live = FALSE
    BY <2>2, <2>3, MetaShape DEF Shape
  <2>5. meta' = [meta EXCEPT ![u] = n]
    BY <1>2, <2>1 DEF Dead
  <2>6. \A v \in Unit : meta'[v] = IF v = u THEN n ELSE meta[v]
    BY <2>5 DEF Shape
  <2>7. meta' \in [Unit -> Meta]
    BY <2>4, <2>5 DEF Shape
  <2> QED
    BY <1>2, <2>4, <2>6, <2>7 DEF Row, Live, DeadUnits
<1> QED
  BY <1>1, <1>2

\* Outside the lock and the opening, and inside it before a rewrite, there is no
\* marker and no rewritten file.
LEMMA Unmarked ==
  ASSUME VecInv,
         \/ io = Free /\ ~Opening
         \/ \E t \in Worker : io = t /\ ~Compacting(t)
  PROVE  ~marker /\ tmp = NoFile /\ Current = file /\ ~Opening
<1>1. Free # "drain" /\ Free # "doctor"
  BY DEF Free
<1> QED
  BY <1>1 DEF VecInv, Places, Marked, Worker, InSection, Compacting, Sweeping, Opening, Recovers, Current

\* The rows and the file they point into rest.
LEMMA DataRests ==
  ASSUME VecInv, UNCHANGED <<event, meta, told, quiet>>, Current' = Current,
         file' = file \/ (tmp # NoFile /\ file' = tmp),
         tmp' = tmp \/ tmp' = NoFile,
         pc'["drain"] = "written" => pc["drain"] = "written" /\ reg'["drain"] = reg["drain"]
  PROVE  Sound'
<1>1. Distinct'
  BY DEF VecInv, Sound, Distinct, Row
<1>2. \A u \in LiveUnits' : Own(u)'
  BY DEF VecInv, Sound, LiveUnits, Live, Row, Own, CellsOf
<1>3. \A u \in Unit : told'[u] => event'[u] = "redacted"
  BY DEF VecInv, Sound
<1>4. ASSUME NEW u \in Unit, quiet'[u]
      PROVE  Redacted(u)'
  <2>1. Redacted(u)
    BY <1>4 DEF VecInv, Sound
  <2>2. CellsOf(Current, u)' = CellsOf(Current, u)
    BY DEF CellsOf
  <2>3. told'[u] => CellsOf(file, u)' = {}
    BY <2>1 DEF Redacted, CellsOf
  <2>4. (tmp # NoFile => CellsOf(tmp, u) = {})'
    BY <2>1 DEF Redacted, CellsOf
  <2> QED
    BY <2>1, <2>2, <2>3, <2>4 DEF Redacted, Live, Row
<1> QED
  BY <1>1, <1>2, <1>3, <1>4 DEF Sound

\* A step of one worker, and what the others hold.
LEMMA Hands ==
  ASSUME VecInv, NEW t \in Worker, event' = event,
         \A s \in Thread : s # t => pc'[s] = pc[s] /\ reg'[s] = reg[s],
         UNCHANGED <<meta, file, tmp>> \/ \A s \in Worker : s # t => ~InSection(s),
         t = "drain" => Embeds' /\ Writes',
         Sweeps(t)' /\ Rewrites(t)'
  PROVE  InHand'
<1>1. InHand
  BY DEF VecInv
<1>2. Zeroes'
  BY <1>1 DEF InHand, Zeroes, Thread, Worker
<1>3. ASSUME t # "drain"
      PROVE  Embeds' /\ Writes'
  <2>1. pc'["drain"] = pc["drain"] /\ reg'["drain"] = reg["drain"]
    BY <1>3 DEF Thread
  <2>2. Embeds'
    BY <1>1, <2>1 DEF InHand, Embeds
  <2>3. CASE UNCHANGED <<meta, file, tmp>>
    BY <1>1, <2>1, <2>2, <2>3 DEF InHand, Writes, CellsOf, Row
  <2>4. CASE \A s \in Worker : s # t => ~InSection(s)
    BY <1>3, <2>1, <2>2, <2>4 DEF Writes, Worker, InSection
  <2> QED
    BY <2>3, <2>4
<1>4. ASSUME NEW s \in Worker
      PROVE  Sweeps(s)' /\ Rewrites(s)'
  <2>1. CASE s = t
    BY <2>1
  <2>2. CASE s # t
    <3>1. pc'[s] = pc[s] /\ reg'[s] = reg[s] /\ Sweeps(s) /\ Rewrites(s)
      BY <1>1, <2>2 DEF InHand, Thread, Worker
    <3>2. CASE UNCHANGED <<meta, file, tmp>>
      BY <3>1, <3>2, SMTT(30) DEF Sweeps, Rewrites, Sweeping, DeadUnits, LiveUnits, Live, Row, CellsOf
    <3>3. CASE \A r \in Worker : r # t => ~InSection(r)
      BY <2>2, <3>1, <3>3 DEF Sweeps, Rewrites, Sweeping, Compacting, InSection
    <3> QED
      BY <3>2, <3>3
  <2> QED
    BY <2>1, <2>2
<1> QED
  BY <1>2, <1>3, <1>4 DEF InHand

\* A worker that holds nothing.
LEMMA Empty ==
  ASSUME NEW t, pc'[t] \notin {"sweep", "swept", "rewritten"}
  PROVE  Sweeps(t)' /\ Rewrites(t)'
BY DEF Sweeps, Rewrites, Sweeping

\* A step of one worker goes on from one place to another.
LEMMA Goes ==
  ASSUME Shape, NEW t \in Thread, NEW l, pc' = [pc EXCEPT ![t] = l]
  PROVE  DOMAIN pc' = Thread /\ pc'[t] = l /\ \A s \in Thread : s # t => pc'[s] = pc[s]
BY DEF Shape

-----------------------------------------------------------------------------
(* The steps of the drain. *)

\* A step that only moves workers: what they hold is shown apart.
LEMMA Moves ==
  ASSUME VecInv, Shape', Places', Marked', InHand', UNCHANGED <<event, meta, told, quiet>>,
         Current' = Current, file' = file \/ (tmp # NoFile /\ file' = tmp),
         tmp' = tmp \/ tmp' = NoFile,
         pc'["drain"] = "written" => pc["drain"] = "written" /\ reg'["drain"] = reg["drain"]
  PROVE  VecInv'
BY DataRests DEF VecInv

LEMMA FetchKeeps ==
  ASSUME VecInv, NEW u \in Unit, Fetch(u)
  PROVE  VecInv'
<1> DEFINE n == [unit |-> u, text |-> text[u], rows |-> <<>>]
<1>1. Shape /\ At("drain", "idle") /\ UNCHANGED <<event, text, told, quiet, calls, meta, file, tmp, marker, io, crashes>>
  BY DEF VecInv, Fetch, jvars, svars
<1>2. n \in Held /\ n.text \in 0..calls /\ n.unit = u
  <2>2. text[u] \in 0..calls /\ text[u] \in 0..MaxCalls /\ <<>> \in Seq(Unit \union Rows)
    BY <1>1, VectorStoreAssumption DEF Shape
  <2> QED
    BY <2>2 DEF Held
<1>3. /\ reg' \in [Thread -> Held] /\ reg'["drain"] = n
      /\ \A s \in Thread : s # "drain" => reg'[s] = reg[s]
      /\ \A s \in Thread : reg'[s].text \in 0..calls'
  <2>1. reg' = [reg EXCEPT !["drain"] = n]
    BY DEF Fetch, Keep
  <2> QED
    BY <1>1, <1>2, <2>1, Kept DEF Thread
<1>4. /\ DOMAIN pc' = Thread /\ pc'["drain"] = "embed"
      /\ pc'["doctor"] = pc["doctor"] /\ pc'["journal"] = pc["journal"]
  BY <1>1 DEF Fetch, Goto, Shape, Thread
<1> HIDE DEF n
<1>5. Shape'
  BY <1>1, <1>3, <1>4 DEF Shape
<1>6. Places' /\ Marked'
  BY <1>1, <1>4 DEF VecInv, Places, Marked, At, Worker, Sweeping, Compacting, InSection, Recovers, Opening
<1>7. InHand'
  <2>1. Embeds' /\ Writes' /\ Zeroes'
    BY <1>1, <1>2, <1>3, <1>4 DEF VecInv, InHand, Embeds, Writes, Zeroes, Thread
  <2>2. ASSUME NEW t \in Worker
        PROVE  (Sweeps(t) /\ Rewrites(t))'
    <3>1. CASE t = "drain"
      BY <1>4, <3>1 DEF Sweeps, Rewrites, Sweeping
    <3>2. CASE t = "doctor"
      BY <1>1, <1>3, <1>4, <3>2, SMTT(30) DEF VecInv, InHand, Worker, Sweeps, Rewrites, Sweeping, DeadUnits, LiveUnits,
         Live, Row, Thread, CellsOf
    <3> QED
      BY <3>1, <3>2 DEF Worker
  <2> QED
    BY <2>1, <2>2 DEF InHand
<1>8. Current' = Current
  BY <1>1 DEF Current
<1> QED
  BY <1>1, <1>4, <1>5, <1>6, <1>7, <1>8, Moves

LEMMA EmbedFailsKeeps ==
  ASSUME VecInv, \/ EmbedFails
                 \/ /\ At("drain", "embed") /\ Goto("drain", "idle") /\ Keep("drain", Nothing)
                    /\ UNCHANGED <<jvars, svars, io, crashes>>
  PROVE  VecInv'
<1>1. /\ Shape /\ pc["drain"] = "embed" /\ pc' = [pc EXCEPT !["drain"] = "idle"]
      /\ reg' = [reg EXCEPT !["drain"] = Nothing]
      /\ UNCHANGED <<event, text, told, quiet, calls, meta, file, tmp, marker, io, crashes>>
  BY DEF VecInv, EmbedFails, jvars, svars, At, Goto, Keep
<1>2. /\ reg' \in [Thread -> Held] /\ \A s \in Thread : reg'[s].text \in 0..calls'
      /\ \A s \in Thread : s # "drain" => reg'[s] = reg[s]
  BY <1>1, NothingHeld, Kept DEF Thread
<1>3. /\ DOMAIN pc' = Thread /\ pc'["drain"] = "idle" /\ pc'["doctor"] = pc["doctor"]
      /\ pc'["journal"] = pc["journal"] /\ \A s \in Thread : s # "drain" => pc'[s] = pc[s]
  BY <1>1, Goes DEF Thread
<1>4. Shape'
  BY <1>1, <1>2, <1>3 DEF Shape
<1>5. Places' /\ Marked'
  BY <1>1, <1>3 DEF VecInv, Places, Marked, Worker, Sweeping, Compacting, InSection, Recovers, Opening
<1>6. InHand'
  <2>1. Embeds' /\ Writes' /\ Sweeps("drain")' /\ Rewrites("drain")'
    BY <1>3, Empty DEF Embeds, Writes
  <2> QED
    BY <1>1, <1>2, <1>3, <2>1, Hands DEF Worker
<1>7. Current' = Current
  BY <1>1 DEF Current
<1> QED
  BY <1>1, <1>3, <1>4, <1>5, <1>6, <1>7, Moves

LEMMA UpsertWriteKeeps ==
  ASSUME VecInv, UpsertWrite
  PROVE  VecInv'
<1>3. PICK d, u : d = reg["drain"] /\ u = d.unit
  OBVIOUS
<1> DEFINE r == IF Row(u) THEN meta[u].row ELSE Len(file) + 1
           c == [unit |-> u, text |-> d.text]
           n == [d EXCEPT !.rows = <<r>>]
<1>1. CASE io = Free /\ Refused(u) /\ UNCHANGED <<io, file>> /\ Goto("drain", "idle") /\ Keep("drain", Nothing)
  BY <1>1, <1>3, EmbedFailsKeeps DEF UpsertWrite, jvars, svars
<1>2. CASE /\ io = Free /\ io' = "drain" /\ ~Refused(u) /\ file' = Put(file, r, c)
           /\ reg' = [reg EXCEPT !["drain"] = n]
           /\ pc' = [pc EXCEPT !["drain"] = "written"]
  <2>1. /\ Shape /\ pc["drain"] = "embed" /\ u \in Unit /\ io = Free /\ io' = "drain" /\ file' = Put(file, r, c)
        /\ UNCHANGED <<event, text, told, quiet, calls, meta, tmp, marker, crashes>>
    BY <1>2, <1>3 DEF VecInv, UpsertWrite, At, jvars, InHand, Embeds
  <2>2. d \in Held /\ d.text \in 0..calls /\ file \in Seq(Cell)
    BY <1>3, <2>1 DEF Shape, Thread
  <2>3. r \in Rows
    BY <2>1, <2>2, MetaShape DEF Shape, Row, Rows
  <2>4. c \in Cell /\ c # Zero /\ c.unit = u
    BY <1>3, <2>1, <2>2, Zeros DEF Held
  <2>5. n \in Held /\ n.text = d.text /\ n.unit = u /\ n.rows[1] = r
    <3>1. PICK q : q = <<r>>
      OBVIOUS
    <3>2. q \in Seq(Unit \union Rows) /\ q[1] = r
      BY <2>3, <3>1
    <3>3. [d EXCEPT !.rows = q] = [unit |-> d.unit, text |-> d.text, rows |-> q]
      BY <2>2 DEF Held
    <3> QED
      BY <1>3, <2>2, <3>1, <3>2, <3>3 DEF Held
  <2> HIDE DEF c, n, r
  <2>6. /\ Put(file, r, c) \in Seq(Cell)
        /\ \A v, i : i # r => (i \in CellsOf(file', v) <=> i \in CellsOf(file, v))
        /\ \A v : r \in CellsOf(file', v) <=> u = v
    BY <2>1, <2>2, <2>3, <2>4, PutCells
  <2>7. /\ reg' \in [Thread -> Held] /\ reg'["drain"] = n
        /\ \A s \in Thread : s # "drain" => reg'[s] = reg[s]
        /\ \A s \in Thread : reg'[s].text \in 0..calls'
    BY <1>2, <2>1, <2>2, <2>5, Kept DEF Thread
  <2>8. /\ DOMAIN pc' = Thread /\ pc'["drain"] = "written" /\ pc'["doctor"] = pc["doctor"]
        /\ pc'["journal"] = pc["journal"] /\ \A s \in Thread : s # "drain" => pc'[s] = pc[s]
    BY <1>2, <2>1, Goes DEF Thread
  <2>9. Shape'
    BY <2>1, <2>6, <2>7, <2>8 DEF Shape, Worker
  <2>10. Free # "drain" /\ Free # "doctor"
    BY DEF Free
  <2>11. Places' /\ Marked'
    BY <2>1, <2>8, <2>10 DEF VecInv, Places, Marked, Worker, Sweeping, Compacting, InSection, Recovers, Opening
  <2>12. ~marker /\ tmp = NoFile /\ Current = file /\ Current' = file'
    <3>1. ~Opening
      BY <2>1 DEF Opening, Recovers
    <3> QED
      BY <2>1, <3>1, Unmarked DEF Current
  <2>13. InHand'
    <3>1. Embeds' /\ Writes' /\ Sweeps("drain")' /\ Rewrites("drain")'
      <4>1. Row(u)' => meta'[u].row = r
        BY <2>1 DEF Row, r
      <4>2. Embeds' /\ Writes'
        BY <2>1, <2>5, <2>6, <2>7, <2>8, <4>1 DEF Embeds, Writes, CellsOf
      <4> QED
        BY <2>8, <4>2, Empty
    <3>2. \A s \in Worker : s # "drain" => ~InSection(s)
      BY <2>1, <2>10 DEF VecInv, Places, Worker
    <3> QED
      BY <2>1, <2>7, <2>8, <3>1, <3>2, Hands DEF Worker
  <2>14. Distinct'
    BY <2>1 DEF VecInv, Sound, Distinct, Row
  <2>15. ASSUME NEW v \in LiveUnits'
         PROVE  Own(v)'
    <3>1. v \in LiveUnits /\ v \in Unit /\ Row(v) /\ meta'[v].row = meta[v].row
      BY <2>1 DEF LiveUnits, Live, Row
    <3>2. meta[v].row \in CellsOf(file, v)
      BY <2>12, <3>1 DEF VecInv, Sound, Own
    <3>3. CASE v = u
      BY <2>1, <2>6, <2>12, <3>1, <3>3 DEF Own, r, CellsOf
    <3>4. CASE v # u
      <4>1. meta[v].row # r
        <5>1. CASE Row(u)
          BY <2>1, <3>1, <3>4, <5>1 DEF r, VecInv, Sound, Distinct
        <5>2. CASE ~Row(u)
          BY <2>2, <3>2, <5>2, Cells DEF r
        <5> QED
          BY <5>1, <5>2
      <4> QED
        BY <2>6, <2>12, <3>1, <3>2, <4>1 DEF Own, CellsOf
    <3> QED
      BY <3>3, <3>4
  <2>16. ASSUME NEW v \in Unit, quiet'[v]
         PROVE  Redacted(v)'
    <3>1. Redacted(v) /\ v # u
      BY <1>2, <2>1, <2>16 DEF VecInv, Sound, Redacted, Refused
    <3>2. \A i : i \in CellsOf(file', v) => i \in CellsOf(file, v)
      BY <2>6, <3>1
    <3>3. /\ event'[v] = "redacted" /\ ~Live(v)'
          /\ ~(pc'["drain"] = "written" /\ reg'["drain"].unit = v)
          /\ tmp' = NoFile
      BY <2>1, <2>5, <2>7, <2>12, <3>1 DEF Redacted, Live, Row
    <3>4. \A i \in CellsOf(Current, v)' : Row(v)' /\ meta'[v].row = i
      BY <2>1, <2>12, <3>1, <3>2 DEF Redacted, Row, CellsOf
    <3>5. told'[v] => CellsOf(file, v)' = {}
      BY <2>1, <3>1, <3>2 DEF Redacted, CellsOf
    <3> QED
      BY <3>3, <3>4, <3>5 DEF Redacted
  <2>17. Sound'
    BY <2>1, <2>14, <2>15, <2>16 DEF VecInv, Sound
  <2> QED
    BY <2>9, <2>11, <2>13, <2>17 DEF VecInv
<1> QED
  BY <1>1, <1>2, <1>3 DEF UpsertWrite, Lock, Goto, Keep

LEMMA UpsertCommitKeeps ==
  ASSUME VecInv, UpsertCommit
  PROVE  VecInv'
<1>1. PICK d, u, r : d = reg["drain"] /\ u = d.unit /\ r = d.rows[1]
  OBVIOUS
<1>2. /\ Shape /\ pc["drain"] = "written" /\ io = "drain" /\ io' = Free
      /\ pc' = [pc EXCEPT !["drain"] = "idle"] /\ reg' = [reg EXCEPT !["drain"] = Nothing]
      /\ UNCHANGED <<event, text, told, quiet, calls, file, tmp, marker, crashes>>
      /\ meta' = IF Taken(u, r) THEN meta
                 ELSE [meta EXCEPT ![u] = [row |-> r, text |-> d.text, live |-> TRUE]]
  BY <1>1 DEF VecInv, UpsertCommit, At, Goto, Keep, Unlock, jvars
<1>3. u \in Unit /\ r \in CellsOf(file, u) /\ (Row(u) => meta[u].row = r)
  BY <1>1, <1>2 DEF VecInv, InHand, Embeds, Writes
<1>4. r \in Rows /\ d.text \in 0..MaxCalls
  <2>1. d \in Held /\ file \in Seq(Cell)
    BY <1>1, <1>2 DEF Shape, Thread
  <2> QED
    BY <1>3, <2>1, Cells DEF Held
<1>5. /\ reg' \in [Thread -> Held] /\ \A s \in Thread : reg'[s].text \in 0..calls'
      /\ \A s \in Thread : s # "drain" => reg'[s] = reg[s]
  BY <1>2, NothingHeld, Kept DEF Thread
<1>6. /\ DOMAIN pc' = Thread /\ pc'["drain"] = "idle" /\ pc'["doctor"] = pc["doctor"]
      /\ pc'["journal"] = pc["journal"] /\ \A s \in Thread : s # "drain" => pc'[s] = pc[s]
  BY <1>2, Goes DEF Thread
<1>7. Free # "drain" /\ Free # "doctor"
  BY DEF Free
<1>8. /\ meta' \in [Unit -> Meta]
      /\ \A v \in Unit : v # u => meta'[v] = meta[v]
      /\ \/ meta'[u] = meta[u]
         \/ ~Taken(u, r) /\ meta'[u].row = r /\ meta'[u] # None
  <2>1. PICK n : n = [row |-> r, text |-> d.text, live |-> TRUE]
    OBVIOUS
  <2>2. n \in Meta /\ n # None /\ n.row = r
    BY <1>2, <1>3, <1>4, <2>1, MetaShape DEF Shape
  <2>3. CASE Taken(u, r)
    BY <1>2, <2>3 DEF Shape
  <2>4. CASE ~Taken(u, r)
    <3>1. meta' = [meta EXCEPT ![u] = n]
      BY <1>2, <2>1, <2>4
    <3> QED
      BY <1>2, <1>3, <2>2, <2>4, <3>1 DEF Shape
  <2> QED
    BY <2>3, <2>4
<1>9. Shape'
  BY <1>2, <1>5, <1>6, <1>8 DEF Shape
<1>10. Places' /\ Marked'
  BY <1>2, <1>6, <1>7 DEF VecInv, Places, Marked, Worker, Sweeping, Compacting, InSection, Recovers, Opening
<1>11. ~marker /\ tmp = NoFile /\ Current = file /\ Current' = file
  <2>1. ~Compacting("drain")
    BY <1>2 DEF Compacting
  <2> QED
    BY <1>2, <2>1, Unmarked DEF Worker, Current
<1>12. InHand'
  <2>1. Embeds' /\ Writes' /\ Sweeps("drain")' /\ Rewrites("drain")'
    BY <1>6, Empty DEF Embeds, Writes
  <2>2. \A s \in Worker : s # "drain" => ~InSection(s)
    BY <1>2, <1>7 DEF VecInv, Places, Worker
  <2> QED
    BY <1>2, <1>5, <1>6, <2>1, <2>2, Hands DEF Worker
<1>13. Distinct'
  <2>1. Distinct
    BY DEF VecInv, Sound
  <2>2. CASE meta'[u] = meta[u]
    BY <1>8, <2>1, <2>2 DEF Distinct, Row
  <2>3. CASE ~Taken(u, r) /\ meta'[u].row = r
    BY <1>8, <2>1, <2>3 DEF Distinct, Row, Taken
  <2> QED
    BY <1>8, <2>2, <2>3
<1>14. ASSUME NEW v \in LiveUnits'
       PROVE  Own(v)'
  <2>1. CASE meta'[v] = meta[v]
    <3>1. v \in LiveUnits
      BY <2>1 DEF LiveUnits, Live, Row
    <3> QED
      BY <1>2, <1>11, <2>1, <3>1 DEF VecInv, Sound, Own, CellsOf
  <2>2. CASE v = u /\ meta'[u].row = r
    BY <1>2, <1>3, <1>11, <2>2 DEF Own, CellsOf
  <2> QED
    BY <1>8, <2>1, <2>2 DEF LiveUnits
<1>15. ASSUME NEW v \in Unit, quiet'[v]
       PROVE  Redacted(v)'
  <2>1. Redacted(v) /\ v # u
    BY <1>1, <1>2, <1>15 DEF VecInv, Sound, Redacted
  <2>2. meta'[v] = meta[v]
    BY <1>8, <2>1
  <2>3. pc'["drain"] # "written" /\ tmp' = NoFile
    BY <1>2, <1>6, <1>11
  <2>4. event'[v] = "redacted" /\ ~Live(v)'
    BY <1>2, <2>1, <2>2 DEF Redacted, Live, Row
  <2>5. \A i \in CellsOf(Current, v)' : Row(v)' /\ meta'[v].row = i
    BY <1>11, <2>1, <2>2 DEF Redacted, Row, CellsOf
  <2>6. told'[v] => CellsOf(file, v)' = {}
    BY <1>2, <2>1 DEF Redacted, CellsOf
  <2> QED
    BY <2>3, <2>4, <2>5, <2>6 DEF Redacted
<1>16. Sound'
  BY <1>2, <1>13, <1>14, <1>15 DEF VecInv, Sound
<1> QED
  BY <1>9, <1>10, <1>12, <1>16 DEF VecInv

-----------------------------------------------------------------------------
(* The sweep and the compaction. *)

\* What a worker's next place is when it holds nothing: where it was before.
LEMMA Rests == /\ Rest("drain") = "idle" /\ Rest("doctor") = "clean"
               /\ Free # "drain" /\ Free # "doctor"
BY DEF Rest, Free

LEMMA Order ==
  ASSUME NEW S, S \subseteq Unit, NEW s \in ByRow(S), \A u \in S : meta[u].row \in Rows
  PROVE  /\ s \in Seq(Unit) /\ DOMAIN s = 1..Cardinality(S) /\ Cardinality(S) \in Nat
         /\ \A i \in DOMAIN s : s[i] \in S
         /\ \A u \in S : \E i \in DOMAIN s : s[i] = u
         /\ \A i, j \in DOMAIN s : s[i] = s[j] => i = j
         /\ S # {} => s # <<>>
<1>1. Cardinality(S) \in Nat
  BY FS_Subset, FS_CardinalityType, VectorStoreAssumption
<1>2. /\ s \in [1..Cardinality(S) -> S]
      /\ \A u \in S : \E i \in DOMAIN s : s[i] = u
      /\ \A i, j \in DOMAIN s : i < j => meta[s[i]].row < meta[s[j]].row
  BY DEF ByRow
<1>3. s \in Seq(Unit) /\ DOMAIN s = 1..Cardinality(S) /\ \A i \in DOMAIN s : s[i] \in S
  BY <1>1, <1>2
<1>4. ASSUME NEW i \in DOMAIN s, NEW j \in DOMAIN s, s[i] = s[j]
      PROVE  i = j
  <2>1. i \in Int /\ j \in Int /\ meta[s[i]].row \in Int
    BY <1>1, <1>3 DEF Rows
  <2>2. ~(i < j) /\ ~(j < i)
    BY <1>2, <1>4, <2>1
  <2> QED
    BY <2>1, <2>2
<1>5. ASSUME S # {} PROVE s # <<>>
  <2>1. PICK i : i \in DOMAIN s
    BY <1>2, <1>5
  <2>2. DOMAIN <<>> = {}
    OBVIOUS
  <2> QED
    BY <2>1, <2>2
<1> QED
  BY <1>1, <1>2, <1>3, <1>4, <1>5

LEMMA RowsAreRows == ASSUME Shape, NEW u \in Unit, Row(u) PROVE meta[u].row \in Rows
BY MetaShape DEF Shape, Row

\* A step of a worker that only takes or leaves the lock.
LEMMA SweepStartKeeps ==
  ASSUME VecInv, NEW t \in Worker, SweepStart(t)
  PROVE  VecInv'
<1>1. /\ Shape /\ pc[t] = "idle" /\ io = Free
      /\ UNCHANGED <<event, text, told, quiet, calls, meta, file, tmp, marker, crashes>>
  BY DEF VecInv, SweepStart, At, Lock, jvars, svars
<1>2. ~Opening
  BY <1>1 DEF VecInv, Places, Worker, Opening, Recovers
<1>3. Current' = Current /\ tmp = NoFile /\ ~marker
  BY <1>1, <1>2, Unmarked DEF Current
<1>4. \A s \in Worker : ~InSection(s)
  BY <1>1, Rests DEF VecInv, Places, Worker
<1>5. CASE /\ DeadUnits # {} /\ io' = t /\ pc' = [pc EXCEPT ![t] = "sweep"]
           /\ \E dead \in ByRow(DeadUnits) : Keep(t, [Nothing EXCEPT !.rows = dead])
  <2>1. PICK dead \in ByRow(DeadUnits) : reg' = [reg EXCEPT ![t] = [Nothing EXCEPT !.rows = dead]]
    BY <1>5 DEF Keep
  <2>2. /\ dead \in Seq(Unit) /\ dead # <<>> /\ \A i \in DOMAIN dead : dead[i] \in DeadUnits
        /\ \A i, j \in DOMAIN dead : dead[i] = dead[j] => i = j
    BY <1>1, <1>5, Order, RowsAreRows DEF DeadUnits
  <2>3. PICK n : n = [Nothing EXCEPT !.rows = dead]
    OBVIOUS
  <2>4. n \in Held /\ n.rows = dead /\ n.text \in 0..calls
    BY <1>1, <2>2, <2>3, NothingHeld
  <2>5. /\ reg' \in [Thread -> Held] /\ reg'[t] = n /\ \A s \in Thread : reg'[s].text \in 0..calls'
        /\ \A s \in Thread : s # t => reg'[s] = reg[s]
    BY <1>1, <2>1, <2>3, <2>4, Kept DEF Thread, Worker
  <2>6. /\ DOMAIN pc' = Thread /\ pc'[t] = "sweep" /\ \A s \in Thread : s # t => pc'[s] = pc[s]
    BY <1>1, <1>5, Goes DEF Thread, Worker
  <2>7. Shape'
    BY <1>1, <1>5, <2>5, <2>6 DEF Shape
  <2>8. Places' /\ Marked'
    BY <1>1, <1>2, <1>3, <1>5, <2>6, Rests DEF VecInv, Places, Marked, Worker, Thread, Sweeping, Compacting, InSection, Recovers, Opening
  <2>9. InHand'
    <3>1. Sweeps(t)' /\ Rewrites(t)'
      <4>1. DeadUnits' = DeadUnits
        BY <1>1 DEF DeadUnits, Row
      <4> QED
        BY <2>2, <2>4, <2>5, <2>6, <4>1 DEF Sweeps, Rewrites
    <3>2. t = "drain" => Embeds' /\ Writes'
      BY <2>6 DEF Embeds, Writes
    <3> QED
      BY <1>1, <1>4, <2>5, <2>6, <3>1, <3>2, Hands
  <2>10. pc'["drain"] # "written"
    BY <1>4, <2>6 DEF InSection, Worker, Thread
  <2> QED
    BY <1>1, <1>3, <2>7, <2>8, <2>9, <2>10, Moves
<1>6. CASE t = "doctor" /\ pc' = [pc EXCEPT ![t] = "clean"] /\ UNCHANGED <<io, reg>>
  <2>1. /\ DOMAIN pc' = Thread /\ pc'["doctor"] = "clean" /\ pc'["drain"] = pc["drain"]
        /\ pc'["journal"] = pc["journal"] /\ \A s \in Thread : s # t => pc'[s] = pc[s]
    BY <1>1, <1>6, Goes DEF Thread, Worker
  <2>2. Shape'
    BY <1>1, <1>6, <2>1 DEF Shape
  <2>3. Places' /\ Marked'
    BY <1>1, <1>2, <1>3, <1>6, <2>1 DEF VecInv, Places, Marked, Worker, Sweeping, Compacting, InSection, Recovers, Opening
  <2>4. InHand'
    <3>1. Sweeps(t)' /\ Rewrites(t)'
      BY <1>6, <2>1, Empty
    <3> QED
      BY <1>1, <1>4, <1>6, <2>1, <3>1, Hands
  <2> QED
    BY <1>1, <1>3, <1>6, <2>1, <2>2, <2>3, <2>4, Moves
<1> QED
  BY <1>5, <1>6 DEF SweepStart, Lock, Goto

\* The bytes of a dead row are zeroed, by the sweep or by a redaction.
LEMMA ZeroesKeep ==
  ASSUME VecInv, NEW d \in DeadUnits, UNCHANGED <<event, meta, tmp, quiet, marker>>,
         ~marker, tmp = NoFile, file' = Put(file, meta[d].row, Zero),
         told' = told \/ (event[d] = "redacted" /\ told' = [told EXCEPT ![d] = TRUE]),
         pc'["drain"] # "written"
  PROVE  /\ Sound' /\ file' \in Seq(Cell) /\ meta[d].row \notin CellsOf(file', d)
         /\ told' \in [Unit -> BOOLEAN]
<1>1. Shape /\ Sound /\ d \in Unit /\ Row(d) /\ ~Live(d) /\ Current = file /\ Current' = file'
  BY DEF VecInv, DeadUnits, Live, Current
<1>2. PICK r : r = meta[d].row
  OBVIOUS
<1>3. r \in Rows
  BY <1>1, <1>2, RowsAreRows
<1>4. /\ Put(file, r, Zero) \in Seq(Cell)
      /\ \A v, i : i # r => (i \in CellsOf(file', v) <=> i \in CellsOf(file, v))
      /\ \A v : r \notin CellsOf(file', v)
  BY <1>1, <1>2, <1>3, PutCells, Zeros DEF Shape
<1>5. Distinct'
  BY <1>1 DEF Sound, Distinct, Row
<1>6. ASSUME NEW v \in LiveUnits'
      PROVE  Own(v)'
  <2>1. v \in LiveUnits /\ v \in Unit /\ Row(v) /\ meta'[v].row = meta[v].row /\ v # d
    BY <1>1 DEF LiveUnits, Live, Row
  <2>2. meta[v].row \in CellsOf(file, v) /\ meta[v].row # r
    BY <1>1, <1>2, <2>1 DEF Sound, Own, Distinct
  <2> QED
    BY <1>1, <1>4, <2>1, <2>2 DEF Own, CellsOf
<1>7. \A u \in Unit : /\ told'[u] => event'[u] = "redacted"
                      /\ u # d => told'[u] = told[u]
  BY <1>1 DEF Sound, Shape
<1>8. ASSUME NEW v \in Unit, quiet'[v]
      PROVE  Redacted(v)'
  <2>1. Redacted(v)
    BY <1>1, <1>8 DEF Sound
  <2>2. \A i : i \in CellsOf(file', v) => i \in CellsOf(file, v) /\ i # r
    BY <1>4
  <2>3. event'[v] = "redacted" /\ ~Live(v)' /\ tmp' = NoFile
        /\ ~(pc'["drain"] = "written" /\ reg'["drain"].unit = v)
    BY <2>1 DEF Redacted, Live, Row
  <2>4. \A i \in CellsOf(Current, v)' : Row(v)' /\ meta'[v].row = i
    BY <1>1, <2>1, <2>2 DEF Redacted, Row, CellsOf
  <2>5. told'[v] => CellsOf(file, v)' = {}
    <3>1. CASE v = d
      BY <1>1, <1>2, <2>1, <2>2, <3>1 DEF Redacted, CellsOf
    <3>2. CASE v # d
      BY <1>7, <2>1, <2>2, <3>2 DEF Redacted, CellsOf
    <3> QED
      BY <3>1, <3>2
  <2> QED
    BY <2>3, <2>4, <2>5 DEF Redacted
<1>9. told' \in [Unit -> BOOLEAN]
  BY <1>1 DEF Shape
<1> QED
  BY <1>2, <1>4, <1>5, <1>6, <1>7, <1>8, <1>9 DEF Sound

LEMMA SweepZeroKeeps ==
  ASSUME VecInv, NEW t \in Worker, SweepZero(t)
  PROVE  VecInv'
<1>1. /\ Shape /\ pc[t] = "sweep" /\ pc' = [pc EXCEPT ![t] = "swept"]
      /\ UNCHANGED <<event, text, told, quiet, calls, meta, tmp, marker, io, reg, crashes>>
  BY DEF VecInv, SweepZero, At, Goto, jvars
<1>2. PICK rows, d : rows = reg[t].rows /\ d = rows[1]
  OBVIOUS
<1>3. /\ rows \in Seq(Unit) /\ rows # <<>> /\ \A i \in DOMAIN rows : rows[i] \in DeadUnits
      /\ \A i, j \in DOMAIN rows : rows[i] = rows[j] => i = j
  BY <1>1, <1>2 DEF VecInv, InHand, Sweeps, Sweeping
<1>4. d \in DeadUnits
  <2>1. 1 \in DOMAIN rows
    BY <1>3
  <2> QED
    BY <1>2, <1>3, <2>1
<1>5. io = t /\ \A s \in Worker : s # t => ~InSection(s)
  BY <1>1 DEF VecInv, Places, InSection, Sweeping
<1>6. ~marker /\ tmp = NoFile /\ Current = file /\ ~Opening
  <2>1. ~Compacting(t)
    BY <1>1 DEF Compacting
  <2> QED
    BY <1>5, <2>1, Unmarked
<1>7. /\ DOMAIN pc' = Thread /\ pc'[t] = "swept" /\ \A s \in Thread : s # t => pc'[s] = pc[s]
  BY <1>1, Goes DEF Thread, Worker
<1>8. Sound' /\ file' \in Seq(Cell) /\ meta[d].row \notin CellsOf(file', d)
  <2>1. CASE file = <<>>
    <3>1. file' = file /\ Current' = Current
      BY <1>1, <1>6, <2>1 DEF SweepZero, Current
    <3>2. pc'["drain"] = "written" => pc["drain"] = "written" /\ reg'["drain"] = reg["drain"]
      BY <1>1, <1>7 DEF Thread, Worker
    <3> QED
      BY <1>1, <2>1, <3>1, <3>2, DataRests, NoCells DEF Shape
  <2>2. CASE file # <<>>
    <3>1. file' = Put(file, meta[d].row, Zero)
      BY <1>2, <2>2 DEF SweepZero
    <3>2. pc["drain"] # "written" /\ pc'["drain"] # "written"
      BY <1>1, <1>5, <1>7 DEF InSection, Worker, Thread
    <3> QED
      BY <1>1, <1>4, <1>6, <3>1, <3>2, ZeroesKeep
  <2> QED
    BY <2>1, <2>2
<1>9. Shape'
  BY <1>1, <1>7, <1>8 DEF Shape
<1>10. Places' /\ Marked'
  BY <1>1, <1>6, <1>7 DEF VecInv, Places, Marked, Worker, Thread, Sweeping, Compacting, InSection, Recovers, Opening
<1>11. InHand'
  <2>1. Sweeps(t)' /\ Rewrites(t)'
    <3>1. DeadUnits' = DeadUnits
      BY <1>1 DEF DeadUnits, Row
    <3>2. reg'[t].rows = rows
      BY <1>1, <1>2
    <3> QED
      BY <1>1, <1>2, <1>3, <1>7, <1>8, <3>1, <3>2, SMTT(30) DEF Sweeps, Rewrites, CellsOf
  <2>2. t = "drain" => Embeds' /\ Writes'
    BY <1>7 DEF Embeds, Writes
  <2> QED
    BY <1>1, <1>5, <1>7, <2>1, <2>2, Hands
<1> QED
  BY <1>8, <1>9, <1>10, <1>11 DEF VecInv

LEMMA SweepDropKeeps ==
  ASSUME VecInv, NEW t \in Worker, SweepDrop(t)
  PROVE  VecInv'
<1>1. PICK rows, d, rest : rows = reg[t].rows /\ d = rows[1] /\ rest = Tail(rows)
  OBVIOUS
<1>2. /\ Shape /\ pc[t] = "swept" /\ meta' = [meta EXCEPT ![d] = None]
      /\ UNCHANGED <<event, text, told, quiet, calls, file, tmp, marker, crashes>>
  BY <1>1 DEF VecInv, SweepDrop, At, jvars
<1>3. /\ rows \in Seq(Unit) /\ rows # <<>> /\ \A i \in DOMAIN rows : rows[i] \in DeadUnits
      /\ \A i, j \in DOMAIN rows : rows[i] = rows[j] => i = j
      /\ meta[d].row \notin CellsOf(file, d)
  BY <1>1, <1>2 DEF VecInv, InHand, Sweeps, Sweeping
<1>4. d \in DeadUnits /\ d \in Unit /\ 1 \in DOMAIN rows
  <2>1. 1 \in DOMAIN rows
    BY <1>3
  <2> QED
    BY <1>1, <1>3, <2>1 DEF DeadUnits
<1>5. io = t /\ \A s \in Worker : s # t => ~InSection(s)
  BY <1>2 DEF VecInv, Places, InSection, Sweeping
<1>6. ~marker /\ tmp = NoFile /\ Current = file /\ Current' = file /\ ~Opening
  <2>1. ~Compacting(t)
    BY <1>2 DEF Compacting
  <2> QED
    BY <1>2, <1>5, <2>1, Unmarked DEF Current
<1>7. /\ meta' \in [Unit -> Meta] /\ meta'[d] = None /\ \A v \in Unit : v # d => meta'[v] = meta[v]
  BY <1>2, <1>4 DEF Shape, Meta
<1>8. rest \in Seq(Unit) /\ \A i \in DOMAIN rest : i + 1 \in DOMAIN rows /\ rest[i] = rows[i + 1]
  BY <1>1, <1>3
<1>9. /\ \A i \in DOMAIN rest : rest[i] \in DeadUnits /\ rest[i] # d
      /\ \A i, j \in DOMAIN rest : rest[i] = rest[j] => i = j
  <2>1. \A i \in DOMAIN rest : i \in Nat /\ i + 1 # 1
    BY <1>8
  <2>2. \A i \in DOMAIN rest : rest[i] \in DeadUnits /\ rest[i] # d
    BY <1>1, <1>3, <1>4, <1>8, <2>1
  <2>3. ASSUME NEW i \in DOMAIN rest, NEW j \in DOMAIN rest, rest[i] = rest[j]
        PROVE  i = j
    <3>1. i + 1 = j + 1
      BY <1>3, <1>8, <2>3
    <3> QED
      BY <2>1, <3>1
  <2> QED
    BY <2>2, <2>3
<1>10. /\ \/ /\ rest = <<>> /\ io' = Free /\ pc' = [pc EXCEPT ![t] = Rest(t)]
             /\ reg' = [reg EXCEPT ![t] = Nothing]
          \/ /\ rest # <<>> /\ io' = io /\ pc' = [pc EXCEPT ![t] = "sweep"]
             /\ reg' = [reg EXCEPT ![t] = [reg[t] EXCEPT !.rows = rest]]
  BY <1>1 DEF SweepDrop, Unlock, Goto, Keep
<1>11. PICK n, l : /\ reg' = [reg EXCEPT ![t] = n] /\ pc' = [pc EXCEPT ![t] = l]
                   /\ \/ n = Nothing /\ l = Rest(t) /\ io' = Free
                      \/ n = [reg[t] EXCEPT !.rows = rest] /\ l = "sweep" /\ io' = io /\ rest # <<>>
  BY <1>10
<1>12. n \in Held /\ n.text \in 0..calls /\ (l = "sweep" => n.rows = rest /\ rest # <<>>)
  <2>1. CASE n = Nothing /\ l = Rest(t)
    <3>1. l # "sweep"
      BY <2>1, Rests DEF Worker
    <3> QED
      BY <1>2, <2>1, <3>1, NothingHeld
  <2>2. CASE n = [reg[t] EXCEPT !.rows = rest] /\ rest # <<>>
    <3>1. PICK k : k = reg[t]
      OBVIOUS
    <3>2. k \in Held /\ k.text \in 0..calls
      BY <1>2, <3>1 DEF Shape, Thread, Worker
    <3>3. n = [unit |-> k.unit, text |-> k.text, rows |-> rest]
      BY <2>2, <3>1, <3>2 DEF Held
    <3>4. rest \in Seq(Unit \union Rows)
      BY <1>8
    <3> QED
      BY <2>2, <3>2, <3>3, <3>4 DEF Held
  <2> QED
    BY <1>11, <2>1, <2>2
<1>13. /\ reg' \in [Thread -> Held] /\ reg'[t] = n /\ \A s \in Thread : reg'[s].text \in 0..calls'
       /\ \A s \in Thread : s # t => reg'[s] = reg[s]
  BY <1>2, <1>11, <1>12, Kept DEF Thread, Worker
<1>14. /\ DOMAIN pc' = Thread /\ pc'[t] = l /\ \A s \in Thread : s # t => pc'[s] = pc[s]
  BY <1>2, <1>11, Goes DEF Thread, Worker
<1>15. l \in {"idle", "clean", "sweep"} /\ (t = "drain" => l # "clean") /\ (t = "doctor" => l # "idle")
       /\ (l = "sweep" => io' = t) /\ (l # "sweep" => io' = Free)
  BY <1>5, <1>11, Rests DEF Worker
<1>16. Shape'
  BY <1>2, <1>5, <1>7, <1>13, <1>14, <1>15 DEF Shape
<1>17. Places' /\ Marked'
  BY <1>2, <1>5, <1>6, <1>14, <1>15, Rests DEF VecInv, Places, Marked, Worker, Thread, Sweeping, Compacting, InSection, Recovers, Opening
<1>18. InHand'
  <2>1. Sweeps(t)' /\ Rewrites(t)'
    <3>1. \A v \in DeadUnits : v # d => v \in DeadUnits'
      BY <1>7 DEF DeadUnits, Row
    <3>2. l = "sweep" => \A i \in DOMAIN rest : rest[i] \in DeadUnits'
      BY <1>9, <3>1
    <3> QED
      BY <1>8, <1>9, <1>12, <1>13, <1>14, <1>15, <3>2 DEF Sweeps, Rewrites, Sweeping
  <2>2. t = "drain" => Embeds' /\ Writes'
    BY <1>14, <1>15 DEF Embeds, Writes
  <2> QED
    BY <1>2, <1>5, <1>13, <1>14, <2>1, <2>2, Hands
<1>19. Distinct'
  BY <1>7 DEF VecInv, Sound, Distinct, Row
<1>20. ASSUME NEW v \in LiveUnits'
       PROVE  Own(v)'
  <2>1. v \in Unit /\ v # d
    BY <1>7 DEF LiveUnits, Live, Row
  <2>2. v \in LiveUnits /\ meta'[v] = meta[v]
    BY <1>7, <2>1 DEF LiveUnits, Live, Row
  <2> QED
    BY <1>2, <1>6, <2>2 DEF VecInv, Sound, Own, CellsOf
<1>21. ASSUME NEW v \in Unit, quiet'[v]
       PROVE  Redacted(v)'
  <2>1. Redacted(v)
    BY <1>2, <1>21 DEF VecInv, Sound
  <2>2. event'[v] = "redacted" /\ ~Live(v)' /\ tmp' = NoFile /\ pc'["drain"] # "written"
    <3>1. pc'["drain"] # "written"
      BY <1>5, <1>14, <1>15 DEF InSection, Worker, Thread
    <3> QED
      BY <1>2, <1>6, <1>7, <2>1, <3>1 DEF Redacted, Live, Row
  <2>3. \A i \in CellsOf(Current, v)' : Row(v)' /\ meta'[v].row = i
    <3>1. CASE v = d
      BY <1>2, <1>3, <1>6, <2>1, <3>1 DEF Redacted, CellsOf
    <3>2. CASE v # d
      BY <1>2, <1>6, <1>7, <2>1, <3>2 DEF Redacted, CellsOf, Row
    <3> QED
      BY <3>1, <3>2
  <2>4. told'[v] => CellsOf(file, v)' = {}
    BY <1>2, <2>1 DEF Redacted, CellsOf
  <2> QED
    BY <2>2, <2>3, <2>4 DEF Redacted
<1>22. Sound'
  BY <1>2, <1>19, <1>20, <1>21 DEF VecInv, Sound
<1> QED
  BY <1>16, <1>17, <1>18, <1>22 DEF VecInv

LEMMA CompactWriteKeeps ==
  ASSUME VecInv, NEW t \in Worker, CompactWrite(t)
  PROVE  VecInv'
<1>1. /\ Shape /\ pc[t] = Rest(t) /\ io = Free /\ io' = t
      /\ pc' = [pc EXCEPT ![t] = "rewritten"] /\ \A u \in LiveUnits : meta[u].row <= Len(file)
      /\ UNCHANGED <<event, text, told, quiet, calls, meta, file, marker, crashes>>
  BY DEF VecInv, CompactWrite, At, Lock, Goto, jvars
<1>2. PICK live \in ByRow(LiveUnits) : /\ tmp' = [i \in DOMAIN live |-> file[meta[live[i]].row]]
                                       /\ reg' = [reg EXCEPT ![t] = [Nothing EXCEPT !.rows = live]]
  BY DEF CompactWrite, Keep
<1>3. ~Opening /\ \A s \in Worker : ~InSection(s)
  <2>1. \A s \in Worker : ~InSection(s)
    BY <1>1, Rests DEF VecInv, Places, Worker
  <2>2. ~Opening
    BY <1>1, Rests DEF VecInv, Places, Worker, Opening, Recovers
  <2> QED
    BY <2>1, <2>2
<1>4. ~marker /\ tmp = NoFile /\ Current = file
  BY <1>1, <1>3, Unmarked
<1>5. /\ live \in Seq(Unit) /\ DOMAIN live = 1..Cardinality(LiveUnits) /\ Cardinality(LiveUnits) \in Nat
      /\ \A i \in DOMAIN live : live[i] \in LiveUnits
      /\ \A u \in LiveUnits : \E i \in DOMAIN live : live[i] = u
  BY <1>1, Order, RowsAreRows DEF LiveUnits, Live
<1>6. \A i \in DOMAIN live : /\ meta[live[i]].row \in CellsOf(file, live[i])
                             /\ meta[live[i]].row \in DOMAIN file
  <2>1. \A u \in LiveUnits : meta[u].row \in CellsOf(file, u)
    BY <1>4 DEF VecInv, Sound, Own
  <2> QED
    BY <1>5, <2>1 DEF CellsOf
<1>7. DOMAIN tmp' = DOMAIN live /\ \A i \in DOMAIN live : tmp'[i] = file[meta[live[i]].row]
  BY <1>2
<1>8. /\ \A i \in DOMAIN live : i \in CellsOf(tmp', live[i]) /\ tmp'[i].unit = live[i]
      /\ tmp' \in Seq(Cell)
  <2>1. \A i \in DOMAIN live : tmp'[i] # Zero /\ tmp'[i].unit = live[i]
    BY <1>6, <1>7 DEF CellsOf
  <2>2. \A i \in DOMAIN live : file[meta[live[i]].row] \in Cell
    BY <1>1, <1>6 DEF Shape
  <2>3. tmp' \in [1..Cardinality(LiveUnits) -> Cell]
    BY <1>2, <1>5, <2>2
  <2>4. tmp' \in Seq(Cell)
    BY <1>5, <2>3
  <2> QED
    BY <1>7, <2>1, <2>4 DEF CellsOf
<1>9. tmp' # NoFile
  BY <1>8, NoFileIsNoFile
<1>10. PICK n : n = [Nothing EXCEPT !.rows = live]
  OBVIOUS
<1>11. n \in Held /\ n.rows = live /\ n.text \in 0..calls
  BY <1>1, <1>5, <1>10, NothingHeld
<1>12. /\ reg' \in [Thread -> Held] /\ reg'[t] = n /\ \A s \in Thread : reg'[s].text \in 0..calls'
       /\ \A s \in Thread : s # t => reg'[s] = reg[s]
  BY <1>1, <1>2, <1>10, <1>11, Kept DEF Thread, Worker
<1>13. /\ DOMAIN pc' = Thread /\ pc'[t] = "rewritten" /\ \A s \in Thread : s # t => pc'[s] = pc[s]
  BY <1>1, Goes DEF Thread, Worker
<1>14. Shape'
  BY <1>1, <1>8, <1>12, <1>13 DEF Shape
<1>15. Places'
  <2>1. \A s \in Worker : (io = s <=> InSection(s))'
    BY <1>1, <1>3, <1>13 DEF Worker, Thread, InSection, Sweeping, Compacting
  <2> QED
    BY <1>1, <1>3, <1>13, <2>1, Rests DEF VecInv, Places, Worker, Thread, Recovers, Opening
<1>16. Marked'
  BY <1>1, <1>3, <1>4, <1>9, <1>13 DEF VecInv, Marked, Worker, Thread, InSection, Compacting
<1>17. InHand'
  <2>1. LiveUnits' = LiveUnits /\ LiveUnits \subseteq Unit
    BY <1>1 DEF LiveUnits, Live, Row
  <2>2. Sweeps(t)' /\ Rewrites(t)'
    BY <1>5, <1>8, <1>11, <1>12, <1>13, <2>1 DEF Sweeps, Rewrites, Sweeping, CellsOf
  <2>3. t = "drain" => Embeds' /\ Writes'
    BY <1>13 DEF Embeds, Writes
  <2> QED
    BY <1>1, <1>3, <1>12, <1>13, <2>2, <2>3, Hands
<1>18. Current' = file
  BY <1>1, <1>4 DEF Current
<1>19. Distinct' /\ \A v \in LiveUnits' : Own(v)'
  BY <1>1, <1>4, <1>18 DEF VecInv, Sound, Distinct, Own, LiveUnits, Live, Row, CellsOf
<1>20. ASSUME NEW v \in Unit, quiet'[v]
       PROVE  Redacted(v)'
  <2>1. Redacted(v)
    BY <1>1, <1>20 DEF VecInv, Sound
  <2>2. event'[v] = "redacted" /\ ~Live(v)' /\ pc'["drain"] # "written"
    <3>1. pc'["drain"] # "written"
      BY <1>3, <1>13 DEF InSection, Worker, Thread
    <3> QED
      BY <1>1, <2>1, <3>1 DEF Redacted, Live, Row
  <2>3. \A i \in CellsOf(Current, v)' : Row(v)' /\ meta'[v].row = i
    BY <1>1, <1>4, <1>18, <2>1 DEF Redacted, CellsOf, Row
  <2>4. CellsOf(tmp, v)' = {}
    <3> SUFFICES ASSUME NEW i \in DOMAIN live, tmp'[i].unit = v PROVE FALSE
      BY <1>7 DEF CellsOf
    <3>1. v \in LiveUnits
      BY <1>5, <1>8
    <3> QED
      BY <2>1, <3>1 DEF Redacted, LiveUnits
  <2>5. told'[v] => CellsOf(file, v)' = {}
    BY <1>1, <2>1 DEF Redacted, CellsOf
  <2> QED
    BY <2>2, <2>3, <2>4, <2>5 DEF Redacted
<1>21. Sound'
  BY <1>1, <1>19, <1>20 DEF VecInv, Sound
<1> QED
  BY <1>14, <1>15, <1>16, <1>17, <1>21 DEF VecInv

LEMMA CompactCommitKeeps ==
  ASSUME VecInv, NEW t \in Worker, CompactCommit(t)
  PROVE  VecInv'
<1>1. PICK rows : rows = reg[t].rows
  OBVIOUS
<1>2. /\ Shape /\ pc[t] = "rewritten" /\ pc' = [pc EXCEPT ![t] = "remapped"] /\ marker' = TRUE
      /\ meta' = [u \in Unit |-> IF ~Live(u) THEN None ELSE Moved(u, rows)]
      /\ UNCHANGED <<event, text, told, quiet, calls, file, tmp, io, reg, crashes>>
  BY <1>1 DEF VecInv, CompactCommit, At, Goto, jvars
<1>3. /\ \A u \in LiveUnits : \E i \in DOMAIN rows : rows[i] = u
      /\ \A i \in DOMAIN rows : rows[i] \in Unit /\ i \in CellsOf(tmp, rows[i])
  BY <1>1, <1>2 DEF VecInv, InHand, Rewrites
<1>4. /\ tmp # NoFile /\ tmp \in Seq(Cell) /\ Current' = tmp
  BY <1>2 DEF VecInv, Shape, Marked, Current
<1>5. io = t /\ \A s \in Worker : s # t => ~InSection(s)
  BY <1>2 DEF VecInv, Places, InSection, Compacting
<1>6. ASSUME NEW u \in LiveUnits
      PROVE  /\ meta'[u] \in Meta /\ meta'[u] # None /\ meta'[u].row \in CellsOf(tmp, u)
             /\ meta'[u].row \in DOMAIN rows /\ rows[meta'[u].row] = u
  <2>1. PICK k : k = CHOOSE i \in DOMAIN rows : rows[i] = u
    OBVIOUS
  <2>2. k \in DOMAIN rows /\ rows[k] = u
    BY <1>3, <2>1
  <2>3. k \in CellsOf(tmp, u) /\ k \in Rows
    <3>1. k \in CellsOf(tmp, u)
      BY <1>3, <2>2
    <3> QED
      BY <1>4, <3>1, Cells
  <2>4. PICK x : x = meta[u]
    OBVIOUS
  <2>5. /\ x = [row |-> x.row, text |-> x.text, live |-> x.live]
        /\ x.text \in 0..MaxCalls /\ x.live \in BOOLEAN
    BY <1>2, <2>4, MetaShape DEF Shape, LiveUnits, Live, Row
  <2>6. meta'[u] = [x EXCEPT !.row = k]
    BY <1>2, <2>1, <2>4 DEF Moved, LiveUnits
  <2>7. meta'[u] = [row |-> k, text |-> x.text, live |-> x.live]
    BY <2>5, <2>6
  <2> QED
    BY <1>2, <2>2, <2>3, <2>5, <2>7, MetaShape DEF Meta
<1>7. \A u \in Unit : u \notin LiveUnits => meta'[u] = None
  BY <1>2 DEF LiveUnits
<1>8. \A u \in Unit : Row(u)' => u \in LiveUnits
  BY <1>7 DEF Row
<1>9. meta' \in [Unit -> Meta]
  <2>1. \A u \in Unit : meta'[u] \in Meta
    BY <1>6, <1>7 DEF Meta
  <2> QED
    BY <1>2, <2>1
<1>10. /\ DOMAIN pc' = Thread /\ pc'[t] = "remapped" /\ \A s \in Thread : s # t => pc'[s] = pc[s]
  BY <1>2, Goes DEF Thread, Worker
<1>11. Shape'
  BY <1>2, <1>9, <1>10 DEF Shape
<1>12. Places' /\ Marked'
  <2>1. Places'
    BY <1>2, <1>5, <1>10 DEF VecInv, Places, Worker, Thread, Sweeping, Compacting, InSection, Recovers, Opening
  <2>2. ~(pc["drain"] \in {"finish", "clear"})
    BY <1>2 DEF VecInv, Places, Worker, Opening, Recovers
  <2>3. Marked'
    BY <1>2, <1>4, <1>5, <1>10, <2>2 DEF VecInv, Places, Marked, Worker, Thread, InSection, Compacting
  <2> QED
    BY <2>1, <2>3
<1>13. InHand'
  <2>1. Sweeps(t)' /\ Rewrites(t)'
    BY <1>10, Empty
  <2>2. t = "drain" => Embeds' /\ Writes'
    BY <1>10 DEF Embeds, Writes
  <2> QED
    BY <1>2, <1>5, <1>10, <2>1, <2>2, Hands
<1>14. Distinct'
  BY <1>6, <1>8 DEF Distinct
<1>15. ASSUME NEW v \in LiveUnits'
       PROVE  Own(v)'
  <2>1. v \in LiveUnits
    BY <1>8 DEF LiveUnits, Live
  <2> QED
    BY <1>2, <1>4, <1>6, <2>1 DEF Own, CellsOf
<1>16. ASSUME NEW v \in Unit, quiet'[v]
       PROVE  Redacted(v)'
  <2>1. Redacted(v)
    BY <1>2, <1>16 DEF VecInv, Sound
  <2>2. event'[v] = "redacted" /\ ~Live(v)' /\ pc'["drain"] # "written"
    <3>1. pc'["drain"] # "written"
      BY <1>5, <1>10 DEF InSection, Worker, Thread
    <3>2. ~Live(v)'
      BY <1>8, <2>1 DEF Redacted, Live, LiveUnits
    <3> QED
      BY <1>2, <2>1, <3>1, <3>2 DEF Redacted
  <2>3. CellsOf(Current, v)' = {} /\ CellsOf(tmp, v)' = {}
    BY <1>2, <1>4, <2>1 DEF Redacted, CellsOf
  <2>4. told'[v] => CellsOf(file, v)' = {}
    BY <1>2, <2>1 DEF Redacted, CellsOf
  <2> QED
    BY <2>2, <2>3, <2>4 DEF Redacted
<1>17. Sound'
  BY <1>2, <1>14, <1>15, <1>16 DEF VecInv, Sound
<1> QED
  BY <1>11, <1>12, <1>13, <1>17 DEF VecInv

LEMMA CompactEndsKeeps ==
  ASSUME VecInv, NEW t \in Worker, CompactRename(t) \/ CompactClear(t)
  PROVE  VecInv'
<1>1. /\ Shape /\ pc[t] \in {"remapped", "renamed"}
      /\ UNCHANGED <<event, text, told, quiet, calls, meta, crashes>>
  BY DEF VecInv, CompactRename, CompactClear, At, jvars
<1>2. io = t /\ (\A s \in Worker : s # t => ~InSection(s)) /\ marker
  BY <1>1 DEF VecInv, Places, Marked, InSection, Compacting
<1>3. ~Opening
  BY <1>1 DEF VecInv, Places, Worker, Opening, Recovers
<1>4. PICK l, n : /\ pc' = [pc EXCEPT ![t] = l] /\ reg' = [reg EXCEPT ![t] = n]
                  /\ \/ /\ pc[t] = "remapped" /\ tmp # NoFile /\ file' = tmp /\ tmp' = NoFile
                        /\ l = "renamed" /\ n = reg[t] /\ io' = io /\ marker' = marker
                     \/ /\ pc[t] = "renamed" /\ io' = Free /\ marker' = FALSE
                        /\ l = Rest(t) /\ n = Nothing /\ file' = file /\ tmp' = tmp
  <2>1. CASE pc[t] = "remapped"
    <3>1. tmp # NoFile /\ CompactRename(t)
      BY <2>1 DEF VecInv, Marked, CompactClear, At
    <3>2. reg' = [reg EXCEPT ![t] = reg[t]]
      BY <1>1, <3>1 DEF CompactRename, Shape
    <3> QED
      BY <2>1, <3>1, <3>2 DEF CompactRename, Goto
  <2>2. CASE pc[t] = "renamed"
    BY <2>2 DEF CompactRename, CompactClear, At, Goto, Keep, Unlock
  <2> QED
    BY <1>1, <2>1, <2>2
<1>5. n \in Held /\ n.text \in 0..calls
  BY <1>1, <1>4, NothingHeld DEF Shape, Thread, Worker
<1>6. /\ reg' \in [Thread -> Held] /\ \A s \in Thread : reg'[s].text \in 0..calls'
      /\ \A s \in Thread : s # t => reg'[s] = reg[s]
  BY <1>1, <1>4, <1>5, Kept DEF Thread, Worker
<1>7. /\ DOMAIN pc' = Thread /\ pc'[t] = l /\ \A s \in Thread : s # t => pc'[s] = pc[s]
  BY <1>1, <1>4, Goes DEF Thread, Worker
<1>8. (t = "drain" => l \in {"renamed", "idle"}) /\ (t = "doctor" => l \in {"renamed", "clean"})
  BY <1>4, Rests
<1>9. pc[t] = "renamed" => tmp = NoFile
  BY <1>2, <1>3, <1>8 DEF VecInv, Marked, InSection, Compacting, Opening, Recovers, Worker
<1>10. Shape'
  BY <1>1, <1>2, <1>4, <1>6, <1>7 DEF Shape
<1>11. Places'
  BY <1>2, <1>3, <1>4, <1>7, <1>8, Rests DEF VecInv, Places, Worker, Thread, Sweeping, Compacting, InSection, Recovers, Opening
<1>12. Marked'
  <2>1. /\ \A s \in Worker : s # t => pc'[s] \notin {"rewritten", "remapped", "renamed"}
        /\ pc'["drain"] \notin {"closed", "finish", "clear", "tidy"}
    BY <1>2, <1>3, <1>7, <1>8 DEF VecInv, Places, Worker, Thread, InSection, Sweeping, Compacting, Recovers, Opening
  <2>2. CASE l = "renamed"
    BY <1>2, <1>4, <1>7, <2>1, <2>2, Rests DEF Marked, Worker
  <2>3. CASE l # "renamed"
    BY <1>4, <1>7, <1>8, <1>9, <2>1, <2>3 DEF Marked, Worker
  <2> QED
    BY <2>2, <2>3
<1>13. InHand'
  <2>1. Sweeps(t)' /\ Rewrites(t)'
    BY <1>7, <1>8, Empty DEF Worker
  <2>2. t = "drain" => Embeds' /\ Writes'
    BY <1>7, <1>8 DEF Embeds, Writes
  <2> QED
    BY <1>1, <1>2, <1>6, <1>7, <2>1, <2>2, Hands
<1>14. Current' = Current
  BY <1>2, <1>4, <1>9 DEF Current
<1>15. pc'["drain"] # "written"
  BY <1>2, <1>7, <1>8 DEF InSection, Worker, Thread
<1> QED
  BY <1>1, <1>4, <1>10, <1>11, <1>12, <1>13, <1>14, <1>15, Moves

LEMMA ReconcileKeeps ==
  ASSUME VecInv, Reconcile
  PROVE  VecInv'
<1>1. /\ Shape /\ pc["doctor"] = "clean" /\ io = Free /\ pc' = [pc EXCEPT !["doctor"] = "done"]
      /\ file' = (IF LiveUnits = {} THEN <<>> ELSE file)
      /\ UNCHANGED <<event, text, told, quiet, calls, meta, tmp, marker, io, reg, crashes>>
  BY DEF VecInv, Reconcile, At, Goto, jvars
<1>2. ~Opening
  BY <1>1 DEF VecInv, Places, Opening, Recovers
<1>3. ~marker /\ tmp = NoFile /\ Current = file /\ Current' = file'
  BY <1>1, <1>2, Unmarked DEF Current
<1>4. \A s \in Worker : ~InSection(s)
  BY <1>1, Rests DEF VecInv, Places, Worker
<1>5. /\ DOMAIN pc' = Thread /\ pc'["doctor"] = "done" /\ pc'["drain"] = pc["drain"]
      /\ pc'["journal"] = pc["journal"] /\ \A s \in Thread : s # "doctor" => pc'[s] = pc[s]
  BY <1>1, Goes DEF Thread
<1>6. Shape'
  <2>1. file' \in Seq(Cell)
    BY <1>1 DEF Shape
  <2> QED
    BY <1>1, <1>5, <2>1 DEF Shape
<1>7. Places' /\ Marked'
  BY <1>1, <1>2, <1>3, <1>5 DEF VecInv, Places, Marked, Worker, Sweeping, Compacting, InSection, Recovers, Opening
<1>8. InHand'
  <2>1. Sweeps("doctor")' /\ Rewrites("doctor")'
    BY <1>5, Empty
  <2> QED
    BY <1>1, <1>4, <1>5, <2>1, Hands DEF Worker
<1>9. CASE LiveUnits # {}
  <2>1. file' = file /\ pc'["drain"] # "written"
    BY <1>1, <1>4, <1>5, <1>9 DEF InSection, Worker
  <2> QED
    BY <1>1, <1>3, <1>6, <1>7, <1>8, <2>1, Moves
<1>10. CASE LiveUnits = {}
  <2>1. file' = <<>> /\ LiveUnits' = {}
    BY <1>1, <1>10 DEF LiveUnits, Live, Row
  <2>2. \A v \in Unit : CellsOf(file, v)' = {} /\ CellsOf(Current, v)' = {}
    BY <1>3, <2>1, NoCells DEF CellsOf
  <2>3. \A v \in Unit : quiet'[v] => Redacted(v)'
    BY <1>1, <1>3, <1>5, <2>2 DEF VecInv, Sound, Redacted, Live, Row
  <2>4. Sound'
    BY <1>1, <2>1, <2>3 DEF VecInv, Sound, Distinct, Row
  <2> QED
    BY <1>6, <1>7, <1>8, <2>4 DEF VecInv
<1> QED
  BY <1>9, <1>10

-----------------------------------------------------------------------------
(* Opening a store, and the death of the program. *)

\* The doctor comes to another place of its opening, and touches nothing.
LEMMA OpensKeep ==
  ASSUME VecInv, ~Opening, pc["doctor"] \in {"off", "closed", "finish", "clear", "tidy"},
         NEW l \in {"closed", "finish", "clear", "tidy", "idle"}, pc' = [pc EXCEPT !["doctor"] = l],
         UNCHANGED <<event, text, told, quiet, calls, meta, file, tmp, marker, io, reg, crashes>>
  PROVE  VecInv'
<1>1. Shape
  BY DEF VecInv
<1>2. /\ DOMAIN pc' = Thread /\ pc'["doctor"] = l /\ pc'["drain"] = pc["drain"]
      /\ pc'["journal"] = pc["journal"] /\ \A s \in Thread : s # "doctor" => pc'[s] = pc[s]
  BY <1>1, Goes DEF Thread
<1>3. Shape'
  BY <1>1, <1>2 DEF Shape
<1>4. Places' /\ Marked'
  BY <1>2 DEF VecInv, Places, Marked, Worker, Sweeping, Compacting, InSection, Recovers, Opening
<1>5. InHand'
  <2>1. Sweeps("doctor")' /\ Rewrites("doctor")'
    BY <1>2, Empty
  <2> QED
    BY <1>2, <2>1, Hands DEF Worker
<1>6. Current' = Current
  BY DEF Current
<1> QED
  BY <1>2, <1>3, <1>4, <1>5, <1>6, Moves

LEMMA DoctorOpensKeeps ==
  ASSUME VecInv, DoctorOpens
  PROVE  VecInv'
<1>1. /\ Shape /\ ~Opening /\ pc["doctor"] = "off" /\ pc' = [pc EXCEPT !["doctor"] = "closed"]
      /\ UNCHANGED <<event, text, told, quiet, calls, meta, file, tmp, marker, io, reg, crashes>>
  BY DEF VecInv, DoctorOpens, At, Goto, jvars, svars
<1> QED
  BY <1>1, OpensKeep

\* The doctor's recovery, when it takes nothing from a compaction of the drain:
\* it finds no marker and no rewritten file, or none that it still takes.
LEMMA DoctorRecoversKeeps ==
  ASSUME VecInv, Open("doctor"), ~Steals
  PROVE  VecInv'
<1>1. /\ Shape /\ Recovers("doctor")
      /\ UNCHANGED <<event, text, told, quiet, calls, meta, io, reg, crashes>>
  BY DEF VecInv, Open, ReadMarker, FinishRename, ClearMarker, RemoveTmp, At, Recovers, jvars, svars
<1>2. PICK l \in {"finish", "tidy", "clear", "idle"} :
         /\ pc' = [pc EXCEPT !["doctor"] = l]
         /\ \/ UNCHANGED <<file, tmp, marker>>
            \/ file' = (IF tmp # NoFile THEN tmp ELSE file) /\ tmp' = NoFile /\ marker' = marker
            \/ marker' = FALSE /\ UNCHANGED <<file, tmp>>
            \/ tmp' = NoFile /\ UNCHANGED <<file, marker>>
  BY DEF Open, ReadMarker, FinishRename, ClearMarker, RemoveTmp, At, Goto, svars
<1>3. ~Opening /\ pc["doctor"] \in {"closed", "finish", "clear", "tidy"}
  BY <1>1 DEF VecInv, Places, Recovers
<1>4. UNCHANGED <<tmp, marker>>
  <2>1. CASE Compacting("drain")
    BY <1>1, <1>2, <2>1 DEF Steals, Compacts, Compacting, Shape, Thread
  <2>2. CASE ~Compacting("drain")
    <3>1. marker = FALSE /\ tmp = NoFile
      BY <1>1, <1>3, <2>2 DEF Shape, VecInv, Marked, Worker, Compacting, Opening, Recovers
    <3> QED
      BY <1>2, <3>1
  <2> QED
    BY <2>1, <2>2
<1>5. file' = file
  BY <1>2, <1>4
<1> QED
  BY <1>1, <1>2, <1>3, <1>4, <1>5, OpensKeep

\* The program's own recovery, which nothing runs beside.
LEMMA DrainRecoversKeeps ==
  ASSUME VecInv, Open("drain")
  PROVE  VecInv'
<1>1. /\ Shape /\ Recovers("drain")
      /\ UNCHANGED <<event, text, told, quiet, calls, meta, io, reg, crashes>>
  BY DEF VecInv, Open, ReadMarker, FinishRename, ClearMarker, RemoveTmp, At, Recovers, jvars, svars
<1>2. ~InSection("drain")
  BY <1>1 DEF Recovers, InSection, Sweeping, Compacting
<1>3. pc["doctor"] \in {"off", "done"} /\ pc["journal"] = "idle"
  BY <1>1 DEF VecInv, Places, Opening
<1>4. PICK l : /\ pc' = [pc EXCEPT !["drain"] = l]
               /\ \/ /\ pc["drain"] = "closed" /\ l = (IF marker THEN "finish" ELSE "tidy")
                     /\ UNCHANGED <<file, tmp, marker>>
                  \/ /\ pc["drain"] = "finish" /\ l = "clear" /\ file' = (IF tmp # NoFile THEN tmp ELSE file)
                     /\ tmp' = NoFile /\ marker' = marker
                  \/ pc["drain"] = "clear" /\ l = "tidy" /\ marker' = FALSE /\ UNCHANGED <<file, tmp>>
                  \/ pc["drain"] = "tidy" /\ l = "idle" /\ tmp' = NoFile /\ UNCHANGED <<file, marker>>
  BY DEF Open, ReadMarker, FinishRename, ClearMarker, RemoveTmp, At, Goto, svars
<1>5. /\ DOMAIN pc' = Thread /\ pc'["drain"] = l /\ \A s \in Thread : s # "drain" => pc'[s] = pc[s]
  BY <1>1, <1>4, Goes DEF Thread
<1>6. /\ pc["drain"] \in {"finish", "clear"} => marker
      /\ pc["drain"] = "clear" => tmp = NoFile
      /\ pc["drain"] = "tidy" => ~marker
  BY <1>1, <1>3 DEF VecInv, Places, Marked, Worker, Recovers
<1>7. l \in {"finish", "tidy", "clear", "idle"}
  BY <1>4
<1>8. Shape'
  BY <1>1, <1>4, <1>5 DEF Shape
<1>9. Places'
  BY <1>1, <1>2, <1>3, <1>5, <1>7, Rests DEF VecInv, Places, Worker, Thread, Sweeping, Compacting, InSection, Recovers, Opening
<1>10. Marked'
  BY <1>3, <1>4, <1>5, <1>6 DEF VecInv, Marked, Worker, Thread
<1>11. InHand'
  <2>1. Sweeps("drain")' /\ Rewrites("drain")'
    BY <1>5, <1>7, Empty
  <2>2. Embeds' /\ Writes'
    BY <1>5, <1>7 DEF Embeds, Writes
  <2>3. \A s \in Worker : s # "drain" => ~InSection(s)
    BY <1>3 DEF Worker, InSection, Sweeping, Compacting
  <2> QED
    BY <1>1, <1>5, <2>1, <2>2, <2>3, Hands DEF Worker, Thread
<1>12. Current' = Current
  BY <1>4, <1>6 DEF Current
<1>13. pc'["drain"] # "written"
  BY <1>5, <1>7
<1>14. (file' = file \/ (tmp # NoFile /\ file' = tmp)) /\ (tmp' = tmp \/ tmp' = NoFile)
  BY <1>4
<1> QED
  BY <1>1, <1>8, <1>9, <1>10, <1>11, <1>12, <1>13, <1>14, Moves

LEMMA CrashKeeps ==
  ASSUME VecInv, Crash
  PROVE  VecInv'
<1>1. /\ Shape /\ crashes' = crashes + 1 /\ crashes < MaxCrash /\ io' = Free
      /\ UNCHANGED <<event, text, told, quiet, calls, meta, file, tmp, marker>>
      /\ DOMAIN pc' = Thread /\ pc'["drain"] = "closed" /\ pc'["journal"] = "idle"
      /\ pc'["doctor"] \in {"off", "done"} /\ reg' = [s \in Thread |-> Nothing]
  BY DEF VecInv, Crash, jvars, svars, Thread, Reopened
<1>2. Shape'
  <2>1. crashes' \in 0..MaxCrash
    BY <1>1, VectorStoreAssumption DEF Shape
  <2>2. Nothing \in Held /\ Nothing.text \in 0..calls
    BY <1>1, NothingHeld
  <2>3. /\ reg' \in [Thread -> Held] /\ \A s \in Thread : reg'[s].text \in 0..calls'
    BY <1>1, <2>2
  <2> QED
    BY <1>1, <2>1, <2>3 DEF Shape
<1>3. Places'
  BY <1>1, Rests DEF Places, Worker, Sweeping, Compacting, InSection, Recovers, Opening
<1>4. Marked'
  BY <1>1 DEF Marked, Worker
<1>5. InHand'
  BY <1>1, Empty DEF InHand, Embeds, Writes, Zeroes, Worker
<1>6. Current' = Current
  BY <1>1 DEF Current
<1> QED
  BY <1>1, <1>2, <1>3, <1>4, <1>5, <1>6, Moves

-----------------------------------------------------------------------------
(* The journal. *)

\* A transaction that marks the row of u dead, and what the workers hold.
LEMMA JournalKeeps ==
  ASSUME VecInv, NEW u \in Unit, meta' = Dead(meta, u),
         calls' = calls + 1, calls < MaxCalls, ~Opening, pc["journal"] = "idle",
         UNCHANGED <<file, tmp, marker, io, told, crashes>>,
         DOMAIN pc' = Thread, pc'["drain"] = pc["drain"], pc'["doctor"] = pc["doctor"],
         pc'["journal"] \in {"idle", "zero"},
         reg'["drain"] = reg["drain"], reg'["doctor"] = reg["doctor"],
         reg' \in [Thread -> Held], reg'["journal"].text \in 0..calls,
         event' \in [Unit -> {"live", "retracted", "redacted"}],
         \A v \in Unit : event[v] = "redacted" => event'[v] = "redacted",
         text' \in [Unit -> 0..calls'], quiet' \in [Unit -> BOOLEAN],
         Zeroes',
         \A v \in Unit : quiet'[v] => quiet[v] \/ (v = u /\ event'[u] = "redacted" /\ AtRest(u) /\ ~told[u])
  PROVE  VecInv'
<1>1. /\ meta' \in [Unit -> Meta] /\ ~Live(u)'
      /\ \A v \in Unit : /\ Row(v)' <=> Row(v)
                         /\ Row(v) => meta'[v].row = meta[v].row
                         /\ Live(v)' => Live(v)
                         /\ v \in DeadUnits => v \in DeadUnits'
  BY Deadens DEF VecInv
<1>2. Shape'
  <2>1. calls \in Nat /\ calls' \in 0..MaxCalls /\ \A x \in 0..calls : x \in 0..calls'
    BY VectorStoreAssumption DEF VecInv, Shape
  <2>2. \A s \in Thread : reg'[s].text \in 0..calls
    BY DEF VecInv, Shape, Thread
  <2> QED
    BY <1>1, <2>1, <2>2 DEF VecInv, Shape
<1>3. Places' /\ Marked'
  BY DEF VecInv, Places, Marked, Worker, Sweeping, Compacting, InSection, Recovers, Opening
<1>4. InHand'
  <2>1. Embeds' /\ Writes'
    BY <1>1 DEF VecInv, InHand, Embeds, Writes, CellsOf
  <2>2. ASSUME NEW t \in Worker
        PROVE  Sweeps(t)' /\ Rewrites(t)'
    <3>1. pc'[t] = pc[t] /\ reg'[t] = reg[t] /\ Sweeps(t) /\ Rewrites(t)
      BY DEF VecInv, InHand, Worker
    <3>2. Sweeps(t)'
      <4> SUFFICES ASSUME Sweeping(t)' PROVE Sweeps(t)'
        BY DEF Sweeps
      <4>1. PICK rows : rows = reg[t].rows
        OBVIOUS
      <4>2. /\ rows \in Seq(Unit) /\ rows # <<>> /\ \A i \in DOMAIN rows : rows[i] \in DeadUnits
            /\ \A i, j \in DOMAIN rows : rows[i] = rows[j] => i = j
            /\ pc[t] = "swept" => meta[rows[1]].row \notin CellsOf(file, rows[1])
        BY <3>1, <4>1 DEF Sweeps, Sweeping
      <4>3. rows[1] \in DeadUnits
        <5>1. 1 \in DOMAIN rows
          BY <4>2
        <5> QED
          BY <4>2, <5>1
      <4>4. meta'[rows[1]].row = meta[rows[1]].row
        BY <1>1, <4>3 DEF DeadUnits
      <4>5. \A i \in DOMAIN rows : rows[i] \in DeadUnits'
        BY <1>1, <4>2 DEF DeadUnits
      <4> QED
        BY <3>1, <4>1, <4>2, <4>4, <4>5, SMTT(30) DEF Sweeps, CellsOf
    <3>3. Rewrites(t)'
      <4>1. \A v \in LiveUnits' : v \in LiveUnits
        BY <1>1 DEF LiveUnits
      <4> QED
        BY <3>1, <4>1 DEF Rewrites, CellsOf
    <3> QED
      BY <3>2, <3>3
  <2> QED
    BY <2>1, <2>2 DEF InHand
<1>5. Current' = Current
  BY DEF Current
<1>6. Distinct'
  BY <1>1 DEF VecInv, Sound, Distinct
<1>7. ASSUME NEW v \in LiveUnits'
      PROVE  Own(v)'
  <2>1. v \in LiveUnits /\ meta'[v].row = meta[v].row
    BY <1>1 DEF LiveUnits, Live
  <2> QED
    BY <1>5, <2>1 DEF VecInv, Sound, Own, CellsOf
<1>8. ASSUME NEW v \in Unit, quiet'[v]
      PROVE  Redacted(v)'
  <2>1. CASE quiet[v]
    <3>1. Redacted(v)
      BY <2>1 DEF VecInv, Sound
    <3> QED
      BY <1>1, <1>5, <3>1 DEF Redacted, CellsOf
  <2>2. CASE v = u /\ event'[u] = "redacted" /\ AtRest(u) /\ ~told[u]
    <3>1. io = Free /\ tmp = NoFile /\ \A i \in CellsOf(file, u) : Row(u) /\ meta[u].row = i
      BY <2>2 DEF AtRest
    <3>2. Current = file /\ pc["drain"] # "written"
      BY <3>1, Rests DEF Current, VecInv, Places, Worker, InSection
    <3>3. \A i \in CellsOf(Current, v)' : Row(v)' /\ meta'[v].row = i
      BY <1>1, <1>5, <2>2, <3>1, <3>2 DEF CellsOf
    <3> QED
      BY <1>1, <2>2, <3>1, <3>2, <3>3 DEF Redacted
  <2> QED
    BY <1>8, <2>1, <2>2
<1>9. Sound'
  BY <1>6, <1>7, <1>8 DEF VecInv, Sound
<1> QED
  BY <1>2, <1>3, <1>4, <1>9 DEF VecInv

LEMMA ReviseKeeps ==
  ASSUME VecInv, NEW u \in Unit, Revise(u) \/ Retract(u)
  PROVE  VecInv'
<1>1. /\ Shape /\ meta' = Dead(meta, u) /\ calls' = calls + 1 /\ calls < MaxCalls /\ ~Opening
      /\ pc["journal"] = "idle" /\ event[u] = "live"
      /\ UNCHANGED <<file, tmp, marker, io, pc, reg, told, quiet, crashes>>
      /\ \/ text' = [text EXCEPT ![u] = text[u] + 1] /\ event' = event
         \/ text' = text /\ event' = [event EXCEPT ![u] = "retracted"]
  BY DEF VecInv, Revise, Retract, Calls, At
<1>2. text' \in [Unit -> 0..calls']
  <2>1. calls \in Nat /\ \A x \in 0..calls : x \in 0..calls' /\ x + 1 \in 0..calls'
    BY <1>1, VectorStoreAssumption DEF Shape
  <2>2. text \in [Unit -> 0..calls]
    BY <1>1 DEF Shape
  <2> QED
    BY <1>1, <2>1, <2>2
<1>3. /\ event' \in [Unit -> {"live", "retracted", "redacted"}]
      /\ \A v \in Unit : event[v] = "redacted" => event'[v] = "redacted"
  BY <1>1 DEF Shape
<1>4. Zeroes'
  BY <1>1, <1>3 DEF VecInv, InHand, Zeroes
<1>5. /\ DOMAIN pc' = Thread /\ reg' \in [Thread -> Held] /\ reg'["journal"].text \in 0..calls
      /\ quiet' \in [Unit -> BOOLEAN]
  BY <1>1 DEF Shape, Thread
<1> QED
  BY <1>1, <1>2, <1>3, <1>4, <1>5, JournalKeeps

LEMMA RedactKeeps ==
  ASSUME VecInv, NEW u \in Unit, Redact(u)
  PROVE  VecInv'
<1>1. /\ Shape /\ meta' = Dead(meta, u) /\ calls' = calls + 1 /\ calls < MaxCalls /\ ~Opening
      /\ pc["journal"] = "idle" /\ event[u] # "redacted" /\ event' = [event EXCEPT ![u] = "redacted"]
      /\ quiet' = [quiet EXCEPT ![u] = AtRest(u)] /\ pc' = [pc EXCEPT !["journal"] = "zero"]
      /\ reg' = [reg EXCEPT !["journal"] = [Nothing EXCEPT !.unit = u]]
      /\ UNCHANGED <<text, file, tmp, marker, io, told, crashes>>
  BY DEF VecInv, Redact, Calls, At, Goto, Keep
<1>2. PICK n : n = [Nothing EXCEPT !.unit = u]
  OBVIOUS
<1>3. n \in Held /\ n.unit = u /\ n.text \in 0..calls
  BY <1>1, <1>2, NothingHeld
<1>4. /\ reg' \in [Thread -> Held] /\ reg'["journal"] = n
      /\ reg'["drain"] = reg["drain"] /\ reg'["doctor"] = reg["doctor"]
  BY <1>1, <1>2, <1>3 DEF Shape, Thread
<1>5. /\ DOMAIN pc' = Thread /\ pc'["journal"] = "zero"
      /\ pc'["drain"] = pc["drain"] /\ pc'["doctor"] = pc["doctor"]
  BY <1>1, Goes DEF Thread
<1>6. text' \in [Unit -> 0..calls']
  <2>1. calls \in Nat /\ \A x \in 0..calls : x \in 0..calls'
    BY <1>1, VectorStoreAssumption DEF Shape
  <2> QED
    BY <1>1, <2>1 DEF Shape
<1>7. /\ event' \in [Unit -> {"live", "retracted", "redacted"}] /\ event'[u] = "redacted"
      /\ \A v \in Unit : event[v] = "redacted" => event'[v] = "redacted"
  BY <1>1 DEF Shape
<1>8. PICK b : b = AtRest(u)
  OBVIOUS
<1>9. b \in BOOLEAN
  BY <1>8 DEF AtRest
<1>10. /\ quiet' \in [Unit -> BOOLEAN]
       /\ \A v \in Unit : quiet'[v] => quiet[v] \/ (v = u /\ b)
  BY <1>1, <1>8, <1>9 DEF Shape
<1>11. ~told[u]
  BY <1>1 DEF VecInv, Sound
<1>12. Zeroes'
  BY <1>3, <1>4, <1>7 DEF Zeroes
<1>13. \A v \in Unit : quiet'[v] => quiet[v] \/ (v = u /\ event'[u] = "redacted" /\ AtRest(u) /\ ~told[u])
  BY <1>7, <1>8, <1>10, <1>11
<1> QED
  BY <1>1, <1>3, <1>4, <1>5, <1>6, <1>7, <1>10, <1>12, <1>13, JournalKeeps

LEMMA ZeroBytesKeeps ==
  ASSUME VecInv, ZeroBytes
  PROVE  VecInv'
<1>1. PICK u : u = reg["journal"].unit
  OBVIOUS
<1>2. /\ Shape /\ pc["journal"] = "zero" /\ io = Free /\ pc' = [pc EXCEPT !["journal"] = "idle"]
      /\ reg' = [reg EXCEPT !["journal"] = Nothing] /\ told' = [told EXCEPT ![u] = TRUE]
      /\ file' = IF u \in DeadUnits /\ file # <<>> THEN Put(file, meta[u].row, Zero) ELSE file
      /\ UNCHANGED <<event, text, meta, tmp, marker, io, quiet, calls, crashes>>
  BY <1>1 DEF VecInv, ZeroBytes, At, Goto, Keep
<1>3. u \in Unit /\ event[u] = "redacted" /\ ~Opening
  BY <1>1, <1>2 DEF VecInv, InHand, Zeroes, Places
<1>4. ~marker /\ tmp = NoFile /\ Current = file /\ Current' = file'
  BY <1>2, <1>3, Unmarked DEF Current
<1>5. \A s \in Worker : ~InSection(s)
  BY <1>2, Rests DEF VecInv, Places, Worker
<1>6. /\ reg' \in [Thread -> Held] /\ \A s \in Thread : reg'[s].text \in 0..calls'
      /\ reg'["drain"] = reg["drain"] /\ reg'["doctor"] = reg["doctor"]
  BY <1>2, NothingHeld, Kept DEF Thread
<1>7. /\ DOMAIN pc' = Thread /\ pc'["journal"] = "idle"
      /\ pc'["drain"] = pc["drain"] /\ pc'["doctor"] = pc["doctor"]
  BY <1>2, Goes DEF Thread
<1>8. pc'["drain"] # "written"
  BY <1>5, <1>7 DEF InSection, Worker
<1>9. Sound' /\ file' \in Seq(Cell) /\ told' \in [Unit -> BOOLEAN]
  <2>1. CASE u \in DeadUnits /\ file # <<>>
    BY <1>2, <1>3, <1>4, <1>8, <2>1, ZeroesKeep
  <2>2. CASE ~(u \in DeadUnits /\ file # <<>>)
    <3>1. file' = file
      BY <1>2, <2>2
    <3>2. \A v \in Unit : told'[v] => told[v] \/ v = u
      BY <1>2 DEF Shape
    <3>3. Distinct' /\ \A v \in LiveUnits' : Own(v)'
      BY <1>2, <1>4, <3>1 DEF VecInv, Sound, Distinct, Own, LiveUnits, Live, Row, CellsOf
    <3>4. ASSUME NEW v \in Unit, quiet'[v]
          PROVE  Redacted(v)'
      <4>1. Redacted(v)
        BY <1>2, <3>4 DEF VecInv, Sound
      <4>2. /\ event'[v] = "redacted" /\ ~Live(v)' /\ tmp' = NoFile
            /\ \A i \in CellsOf(Current, v)' : Row(v)' /\ meta'[v].row = i
        BY <1>2, <1>4, <3>1, <4>1 DEF Redacted, Live, Row, CellsOf
      <4>3. v = u => CellsOf(file, u) = {}
        <5>1. CASE file = <<>>
          BY <5>1, NoCells
        <5>2. CASE u \notin DeadUnits
          BY <1>3, <1>4, <4>1, <5>2 DEF Redacted, DeadUnits, Live, Row
        <5> QED
          BY <2>2, <5>1, <5>2
      <4>4. told'[v] => CellsOf(file, v)' = {}
        BY <3>1, <3>2, <4>1, <4>3 DEF Redacted, CellsOf
      <4> QED
        BY <1>8, <4>2, <4>4 DEF Redacted
    <3>5. \A v \in Unit : told'[v] => event'[v] = "redacted"
      BY <1>2, <1>3, <3>2 DEF VecInv, Sound
    <3>6. told' \in [Unit -> BOOLEAN] /\ file' \in Seq(Cell)
      BY <1>2, <3>1 DEF Shape
    <3> QED
      BY <3>3, <3>4, <3>5, <3>6 DEF Sound
  <2> QED
    BY <2>1, <2>2
<1>10. Shape'
  BY <1>2, <1>6, <1>7, <1>9 DEF Shape
<1>11. Places' /\ Marked'
  BY <1>2, <1>3, <1>7 DEF VecInv, Places, Marked, Worker, Sweeping, Compacting, InSection, Recovers, Opening
<1>12. InHand'
  <2>1. Embeds' /\ Writes' /\ Zeroes'
    BY <1>6, <1>7, <1>8 DEF VecInv, InHand, Embeds, Writes, Zeroes
  <2>2. ASSUME NEW s \in Worker
        PROVE  Sweeps(s)' /\ Rewrites(s)'
    <3>1. pc'[s] \notin {"sweep", "swept", "rewritten"}
      BY <1>5, <1>7 DEF Worker, InSection, Sweeping, Compacting
    <3> QED
      BY <3>1, Empty
  <2> QED
    BY <2>1, <2>2 DEF InHand
<1> QED
  BY <1>9, <1>10, <1>11, <1>12 DEF VecInv

-----------------------------------------------------------------------------
(* The shapes, with or without a torn compaction. *)

Section  == {"written", "sweep", "swept", "rewritten", "remapped", "renamed"}
Recovery == {"closed", "finish", "clear", "tidy"}
Stations(t) == {"idle"} \union Section \union Recovery
               \union (IF t = "drain" THEN {"embed"} ELSE {"off", "clean", "done"})

\* A worker goes on, in or out of the lock.
LEMMA FrameMoves ==
  ASSUME Frame, NEW t \in Worker, NEW l \in Stations(t), NEW n \in Held, n.text \in 0..calls,
         pc' = [pc EXCEPT ![t] = l], reg' = [reg EXCEPT ![t] = n],
         UNCHANGED <<event, text, told, quiet, calls, crashes>>, torn' \in BOOLEAN,
         meta' \in [Unit -> Meta], file' \in Seq(Cell), tmp' # NoFile => tmp' \in Seq(Cell),
         marker' \in BOOLEAN,
         \/ io \in {Free, t} /\ io' = t /\ l \in Section
         \/ io = t /\ io' = Free /\ l \notin Section
         \/ io' = io /\ io # t /\ l \notin Section,
         t = "doctor" => ~Opening /\ l # "written",
         t = "drain" => (l \in Recovery => Opening),
         meta' = meta \/ \A s \in Worker : s # t => ~InSection(s),
         Holding(t)'
  PROVE  Frame'
<1>1. Shape /\ Places /\ t \in Thread
  BY DEF Frame, Worker, Thread
<1>2. DOMAIN pc' = Thread /\ pc'[t] = l /\ \A s \in Thread : s # t => pc'[s] = pc[s]
  BY <1>1, Goes
<1>3. /\ reg' \in [Thread -> Held] /\ reg'[t] = n /\ \A s \in Thread : reg'[s].text \in 0..calls'
      /\ \A s \in Thread : s # t => reg'[s] = reg[s]
  BY <1>1, Kept
<1>4. io' \in Worker \union {Free}
  BY <1>1 DEF Shape
<1>5. Shape'
  BY <1>1, <1>2, <1>3, <1>4 DEF Shape
<1>6. Free \notin Worker /\ InSection(t)' = (l \in Section)
  BY <1>2 DEF Free, Worker, InSection, Sweeping, Compacting, Section
<1>7. \A s \in Worker : (io = s <=> InSection(s))'
  <2> SUFFICES ASSUME NEW s \in Worker PROVE (io = s <=> InSection(s))'
    OBVIOUS
  <2>1. CASE s = t
    BY <1>6, <2>1
  <2>2. CASE s # t
    <3>1. InSection(s)' = InSection(s) /\ (io = s <=> InSection(s))
      BY <1>1, <1>2, <2>2 DEF Worker, Thread, InSection, Sweeping, Compacting, Places
    <3> QED
      BY <1>6, <2>2, <3>1
  <2> QED
    BY <2>1, <2>2
<1>8. Places'
  <2>1. CASE t = "drain"
    <3>1. Opening' => Opening
      BY <1>1, <1>2, <2>1 DEF Opening, Recovers, Recovery
    <3> QED
      BY <1>1, <1>2, <1>7, <2>1, <3>1 DEF Places, Stations, Section, Recovery, Thread
  <2>2. CASE t = "doctor"
    <3>1. ~Opening'
      BY <1>2, <2>2 DEF Opening, Recovers, Thread
    <3> QED
      BY <1>1, <1>2, <1>7, <2>2, <3>1 DEF Places, Stations, Section, Recovery, Thread
  <2> QED
    BY <2>1, <2>2 DEF Worker
<1>9. ASSUME NEW s \in Thread, s # t
      PROVE  Holding(s)'
  <2>1. pc'[s] = pc[s] /\ reg'[s] = reg[s] /\ Holding(s)
    BY <1>2, <1>3, <1>9 DEF Frame
  <2>2. CASE meta' = meta
    BY <2>1, <2>2 DEF Holding, Sweeping, DeadUnits, LiveUnits, Live, Row
  <2>3. CASE \A w \in Worker : w # t => ~InSection(w)
    <3>1. ~InSection(s)
      BY <1>1, <1>9, <2>3 DEF Worker, Thread, Places, InSection, Sweeping, Compacting
    <3> QED
      BY <2>1, <3>1 DEF Holding, Sweeping, InSection, Compacting
  <2> QED
    BY <2>2, <2>3
<1> QED
  BY <1>5, <1>8, <1>9 DEF Frame

LEMMA FetchFrame ==
  ASSUME Frame, NEW u \in Unit, Fetch(u), torn' \in BOOLEAN
  PROVE  Frame'
<1> DEFINE n == [unit |-> u, text |-> text[u], rows |-> <<>>]
<1>1. /\ Shape /\ Places /\ pc["drain"] = "idle" /\ io # "drain"
      /\ pc' = [pc EXCEPT !["drain"] = "embed"] /\ reg' = [reg EXCEPT !["drain"] = n]
      /\ UNCHANGED <<event, text, told, quiet, calls, meta, file, tmp, marker, io, crashes>>
  BY DEF Frame, Fetch, jvars, svars, At, Goto, Keep, Places, Worker, InSection, Sweeping, Compacting
<1>2. n \in Held /\ n.text \in 0..calls /\ n.unit = u
  <2>1. text[u] \in 0..calls /\ text[u] \in 0..MaxCalls /\ <<>> \in Seq(Unit \union Rows)
    BY <1>1, VectorStoreAssumption DEF Shape
  <2> QED
    BY <2>1 DEF Held
<1> HIDE DEF n
<1>3. pc'["drain"] = "embed" /\ reg'["drain"] = n
  BY <1>1 DEF Shape, Thread
<1>4. Holding("drain")'
  BY <1>2, <1>3 DEF Holding, Sweeping
<1> QED
  BY <1>1, <1>2, <1>4, FrameMoves DEF Shape, Worker, Stations, Section, Recovery

LEMMA EmbedFailsFrame ==
  ASSUME Frame, pc["drain"] = "embed", Goto("drain", "idle"), Keep("drain", Nothing),
         UNCHANGED <<event, text, told, quiet, calls, meta, file, tmp, marker, io, crashes>>,
         torn' \in BOOLEAN
  PROVE  Frame'
<1>1. /\ Shape /\ io # "drain"
      /\ pc' = [pc EXCEPT !["drain"] = "idle"] /\ reg' = [reg EXCEPT !["drain"] = Nothing]
  BY DEF Frame, Goto, Keep, Places, Worker, InSection, Sweeping, Compacting
<1>2. Nothing \in Held /\ Nothing.text \in 0..calls
  BY <1>1, NothingHeld
<1>3. pc'["drain"] = "idle"
  BY <1>1 DEF Shape, Thread
<1>4. Holding("drain")'
  BY <1>3 DEF Holding, Sweeping
<1> QED
  BY <1>1, <1>2, <1>4, FrameMoves DEF Shape, Worker, Stations, Section, Recovery

LEMMA UpsertWriteFrame ==
  ASSUME Frame, UpsertWrite, torn' \in BOOLEAN
  PROVE  Frame'
<1>1. PICK d, u : d = reg["drain"] /\ u = d.unit
  OBVIOUS
<1> DEFINE r == IF Row(u) THEN meta[u].row ELSE Len(file) + 1
           c == [unit |-> u, text |-> d.text]
           n == [d EXCEPT !.rows = <<r>>]
<1>2. /\ Shape /\ pc["drain"] = "embed" /\ u \in Unit
      /\ UNCHANGED <<event, text, told, quiet, calls, meta, tmp, marker, crashes>>
  BY <1>1 DEF Frame, UpsertWrite, At, jvars, Holding, Thread
<1>3. CASE UNCHANGED <<io, file>> /\ Goto("drain", "idle") /\ Keep("drain", Nothing)
  BY <1>2, <1>3, EmbedFailsFrame
<1>4. CASE /\ io = Free /\ io' = "drain" /\ file' = Put(file, r, c)
           /\ reg' = [reg EXCEPT !["drain"] = n] /\ pc' = [pc EXCEPT !["drain"] = "written"]
  <2>1. d \in Held /\ d.text \in 0..calls /\ file \in Seq(Cell)
    BY <1>1, <1>2 DEF Shape, Thread
  <2>2. r \in Rows
    BY <1>2, <2>1, MetaShape DEF Shape, Row, Rows
  <2>3. c \in Cell
    BY <1>2, <2>1, Zeros DEF Held
  <2>4. n \in Held /\ n.text = d.text /\ n.unit = u /\ n.rows[1] = r
    <3>1. PICK q : q = <<r>>
      OBVIOUS
    <3>2. q \in Seq(Unit \union Rows) /\ q[1] = r
      BY <2>2, <3>1
    <3>3. [d EXCEPT !.rows = q] = [unit |-> d.unit, text |-> d.text, rows |-> q]
      BY <2>1 DEF Held
    <3> QED
      BY <1>1, <2>1, <3>1, <3>2, <3>3 DEF Held
  <2> HIDE DEF c, n, r
  <2>5. file' \in Seq(Cell)
    BY <1>4, <2>1, <2>2, <2>3, PutCells
  <2>6. pc'["drain"] = "written" /\ reg'["drain"] = n
    BY <1>2, <1>4 DEF Shape, Thread
  <2>7. Holding("drain")'
    BY <1>2, <2>2, <2>4, <2>6 DEF Holding, Sweeping
  <2> QED
    BY <1>2, <1>4, <2>1, <2>4, <2>5, <2>7, FrameMoves DEF Shape, Worker, Stations, Section, Recovery
<1> QED
  BY <1>1, <1>3, <1>4 DEF UpsertWrite, Lock, Goto, Keep

LEMMA UpsertCommitFrame ==
  ASSUME Frame, UpsertCommit, torn' \in BOOLEAN
  PROVE  Frame'
<1>1. PICK d, u, r : d = reg["drain"] /\ u = d.unit /\ r = d.rows[1]
  OBVIOUS
<1>2. /\ Shape /\ Places /\ pc["drain"] = "written" /\ io = "drain" /\ io' = Free
      /\ pc' = [pc EXCEPT !["drain"] = "idle"] /\ reg' = [reg EXCEPT !["drain"] = Nothing]
      /\ UNCHANGED <<event, text, told, quiet, calls, file, tmp, marker, crashes>>
      /\ meta' = IF Taken(u, r) THEN meta
                 ELSE [meta EXCEPT ![u] = [row |-> r, text |-> d.text, live |-> TRUE]]
  BY <1>1 DEF Frame, UpsertCommit, At, Goto, Keep, Unlock, jvars
<1>3. u \in Unit /\ r \in Rows /\ d.text \in 0..MaxCalls
  BY <1>1, <1>2 DEF Frame, Holding, Thread, Shape, Held
<1>4. meta' \in [Unit -> Meta]
  <2>1. PICK n \in Meta : n = [row |-> r, text |-> d.text, live |-> TRUE]
    BY <1>3 DEF Meta, Rows
  <2> QED
    BY <1>2, <1>3, <2>1 DEF Shape
<1>5. Nothing \in Held /\ Nothing.text \in 0..calls
  BY <1>2, NothingHeld
<1>6. pc'["drain"] = "idle"
  BY <1>2 DEF Shape, Thread
<1>7. Holding("drain")'
  BY <1>6 DEF Holding, Sweeping
<1>8. \A s \in Worker : s # "drain" => ~InSection(s)
  BY <1>2 DEF Places
<1> QED
  BY <1>2, <1>4, <1>5, <1>7, <1>8, FrameMoves DEF Shape, Worker, Stations, Section, Recovery

LEMMA SweepStartFrame ==
  ASSUME Frame, NEW t \in Worker, SweepStart(t), torn' \in BOOLEAN
  PROVE  Frame'
<1>1. /\ Shape /\ Places /\ pc[t] = "idle" /\ io = Free /\ t \in Thread
      /\ UNCHANGED <<event, text, told, quiet, calls, meta, file, tmp, marker, crashes>>
  BY DEF Frame, SweepStart, At, Lock, jvars, svars, Worker, Thread
<1>2. Free \notin Worker /\ (t = "doctor" => ~Opening)
  BY <1>1 DEF Free, Worker, Places
<1>3. CASE /\ DeadUnits # {} /\ io' = t /\ pc' = [pc EXCEPT ![t] = "sweep"]
           /\ \E dead \in ByRow(DeadUnits) : Keep(t, [Nothing EXCEPT !.rows = dead])
  <2>1. PICK dead \in ByRow(DeadUnits) : reg' = [reg EXCEPT ![t] = [Nothing EXCEPT !.rows = dead]]
    BY <1>3 DEF Keep
  <2>2. /\ dead \in Seq(Unit) /\ dead # <<>> /\ \A i \in DOMAIN dead : dead[i] \in DeadUnits
        /\ \A i, j \in DOMAIN dead : dead[i] = dead[j] => i = j
    BY <1>1, <1>3, Order, RowsAreRows DEF DeadUnits
  <2>3. PICK n : n = [Nothing EXCEPT !.rows = dead]
    OBVIOUS
  <2>4. n \in Held /\ n.rows = dead /\ n.text \in 0..calls
    BY <1>1, <2>2, <2>3, NothingHeld
  <2>5. pc'[t] = "sweep" /\ reg'[t] = n /\ DeadUnits' = DeadUnits
    BY <1>1, <1>3, <2>1, <2>3 DEF Shape, DeadUnits, Row
  <2>6. Holding(t)'
    BY <2>2, <2>4, <2>5 DEF Holding
  <2> QED
    BY <1>1, <1>2, <1>3, <2>1, <2>3, <2>4, <2>6, FrameMoves DEF Shape, Stations, Section, Recovery
<1>4. CASE t = "doctor" /\ pc' = [pc EXCEPT ![t] = "clean"] /\ UNCHANGED <<io, reg>>
  <2>1. reg' = [reg EXCEPT ![t] = reg[t]] /\ reg[t] \in Held /\ reg[t].text \in 0..calls
    BY <1>1, <1>4 DEF Shape
  <2>2. pc'[t] = "clean"
    BY <1>1, <1>4 DEF Shape
  <2>3. Holding(t)'
    BY <2>2 DEF Holding, Sweeping
  <2>4. io # t
    BY <1>1, <1>2
  <2> QED
    BY <1>1, <1>2, <1>4, <2>1, <2>3, <2>4, FrameMoves DEF Shape, Stations, Section, Recovery
<1> QED
  BY <1>3, <1>4 DEF SweepStart, Lock, Goto

LEMMA SweepZeroFrame ==
  ASSUME Frame, NEW t \in Worker, SweepZero(t), torn' \in BOOLEAN
  PROVE  Frame'
<1>1. /\ Shape /\ Places /\ pc[t] = "sweep" /\ pc' = [pc EXCEPT ![t] = "swept"] /\ t \in Thread
      /\ UNCHANGED <<event, text, told, quiet, calls, meta, tmp, marker, io, reg, crashes>>
  BY DEF Frame, SweepZero, At, Goto, jvars, Worker, Thread
<1>2. PICK rows, d : rows = reg[t].rows /\ d = rows[1]
  OBVIOUS
<1>3. /\ rows \in Seq(Unit) /\ rows # <<>> /\ \A i \in DOMAIN rows : rows[i] \in DeadUnits
      /\ \A i, j \in DOMAIN rows : rows[i] = rows[j] => i = j
  BY <1>1, <1>2 DEF Frame, Holding, Sweeping
<1>4. d \in Unit /\ Row(d)
  <2>1. 1 \in DOMAIN rows
    BY <1>3
  <2> QED
    BY <1>2, <1>3, <2>1 DEF DeadUnits
<1>5. file' \in Seq(Cell)
  <2>1. CASE file = <<>>
    BY <1>1, <2>1 DEF SweepZero, Shape
  <2>2. CASE file # <<>>
    <3>1. file' = Put(file, meta[d].row, Zero) /\ file \in Seq(Cell)
      BY <1>1, <1>2, <2>2 DEF SweepZero, Shape
    <3>2. PICK r \in Rows : r = meta[d].row
      BY <1>1, <1>4, RowsAreRows
    <3> QED
      BY <3>1, <3>2, Zeros, PutCells
  <2> QED
    BY <2>1, <2>2
<1>6. reg' = [reg EXCEPT ![t] = reg[t]] /\ reg[t] \in Held /\ reg[t].text \in 0..calls
  BY <1>1 DEF Shape
<1>7. pc'[t] = "swept" /\ DeadUnits' = DeadUnits /\ reg'[t].rows = rows
  BY <1>1, <1>2 DEF Shape, DeadUnits, Row
<1>8. Holding(t)'
  BY <1>3, <1>7 DEF Holding
<1>9. io = t /\ (t = "doctor" => ~Opening)
  BY <1>1 DEF Places, InSection, Sweeping, Worker
<1> QED
  BY <1>1, <1>5, <1>6, <1>8, <1>9, FrameMoves DEF Shape, Stations, Section, Recovery

LEMMA SweepDropFrame ==
  ASSUME Frame, NEW t \in Worker, SweepDrop(t), torn' \in BOOLEAN
  PROVE  Frame'
<1>1. PICK rows, d, rest : rows = reg[t].rows /\ d = rows[1] /\ rest = Tail(rows)
  OBVIOUS
<1>2. /\ Shape /\ Places /\ pc[t] = "swept" /\ meta' = [meta EXCEPT ![d] = None] /\ t \in Thread
      /\ UNCHANGED <<event, text, told, quiet, calls, file, tmp, marker, crashes>>
  BY <1>1 DEF Frame, SweepDrop, At, jvars, Worker, Thread
<1>3. /\ rows \in Seq(Unit) /\ rows # <<>> /\ \A i \in DOMAIN rows : rows[i] \in DeadUnits
      /\ \A i, j \in DOMAIN rows : rows[i] = rows[j] => i = j
  BY <1>1, <1>2 DEF Frame, Holding, Sweeping
<1>4. meta' \in [Unit -> Meta] /\ \A v \in Unit : v # d => meta'[v] = meta[v]
  BY <1>2 DEF Shape, Meta
<1>5. rest \in Seq(Unit) /\ \A i \in DOMAIN rest : i + 1 \in DOMAIN rows /\ rest[i] = rows[i + 1]
  BY <1>1, <1>3
<1>6. /\ \A i \in DOMAIN rest : rest[i] \in DeadUnits'
      /\ \A i, j \in DOMAIN rest : rest[i] = rest[j] => i = j
  <2>1. \A i \in DOMAIN rest : i \in Nat /\ i + 1 # 1
    BY <1>5
  <2>2. 1 \in DOMAIN rows
    BY <1>3
  <2>3. \A i \in DOMAIN rest : rest[i] \in DeadUnits /\ rest[i] # d
    BY <1>1, <1>3, <1>5, <2>1, <2>2
  <2>4. ASSUME NEW i \in DOMAIN rest, NEW j \in DOMAIN rest, rest[i] = rest[j]
        PROVE  i = j
    <3>1. i + 1 = j + 1
      BY <1>3, <1>5, <2>4
    <3> QED
      BY <2>1, <3>1
  <2>5. \A v \in DeadUnits : v # d => v \in DeadUnits'
    BY <1>4 DEF DeadUnits, Row
  <2> QED
    BY <2>3, <2>4, <2>5
<1>7. PICK n, l : /\ reg' = [reg EXCEPT ![t] = n] /\ pc' = [pc EXCEPT ![t] = l]
                  /\ \/ n = Nothing /\ l = Rest(t) /\ io' = Free
                     \/ n = [reg[t] EXCEPT !.rows = rest] /\ l = "sweep" /\ io' = io /\ rest # <<>>
  BY <1>1 DEF SweepDrop, Unlock, Goto, Keep
<1>8. io = t /\ (t = "doctor" => ~Opening) /\ \A s \in Worker : s # t => ~InSection(s)
  BY <1>2 DEF Places, InSection, Sweeping, Worker
<1>9. CASE n = Nothing /\ l = Rest(t) /\ io' = Free
  <2>1. l \in {"idle", "clean"} /\ l \in Stations(t) /\ l \notin Section /\ l \notin Recovery /\ l # "written"
    BY <1>9, Rests DEF Worker, Stations, Section, Recovery
  <2>2. Nothing \in Held /\ Nothing.text \in 0..calls
    BY <1>2, NothingHeld
  <2>3. pc'[t] = l
    BY <1>2, <1>7 DEF Shape
  <2>4. Holding(t)'
    BY <2>1, <2>3 DEF Holding, Sweeping
  <2> QED
    BY <1>2, <1>4, <1>7, <1>8, <1>9, <2>1, <2>2, <2>4, FrameMoves DEF Shape
<1>10. CASE n = [reg[t] EXCEPT !.rows = rest] /\ l = "sweep" /\ io' = io /\ rest # <<>>
  <2>1. PICK k : k = reg[t]
    OBVIOUS
  <2>2. k \in Held /\ k.text \in 0..calls
    BY <1>2, <2>1 DEF Shape
  <2>3. n = [unit |-> k.unit, text |-> k.text, rows |-> rest] /\ rest \in Seq(Unit \union Rows)
    BY <1>5, <1>10, <2>1, <2>2 DEF Held
  <2>4. n \in Held /\ n.rows = rest /\ n.text \in 0..calls
    BY <2>2, <2>3 DEF Held
  <2>5. pc'[t] = "sweep" /\ reg'[t] = n
    BY <1>2, <1>7, <1>10 DEF Shape
  <2>6. Holding(t)'
    BY <1>5, <1>6, <1>10, <2>4, <2>5 DEF Holding
  <2> QED
    BY <1>2, <1>4, <1>7, <1>8, <1>10, <2>4, <2>6, FrameMoves DEF Shape, Stations, Section, Recovery
<1> QED
  BY <1>7, <1>9, <1>10

LEMMA CompactWriteFrame ==
  ASSUME Frame, NEW t \in Worker, CompactWrite(t), torn' \in BOOLEAN
  PROVE  Frame'
<1>1. /\ Shape /\ Places /\ pc[t] = Rest(t) /\ io = Free /\ io' = t /\ t \in Thread
      /\ pc' = [pc EXCEPT ![t] = "rewritten"] /\ \A u \in LiveUnits : meta[u].row <= Len(file)
      /\ UNCHANGED <<event, text, told, quiet, calls, meta, file, marker, crashes>>
  BY DEF Frame, CompactWrite, At, Lock, Goto, jvars, Worker, Thread
<1>2. PICK live \in ByRow(LiveUnits) : /\ tmp' = [i \in DOMAIN live |-> file[meta[live[i]].row]]
                                       /\ reg' = [reg EXCEPT ![t] = [Nothing EXCEPT !.rows = live]]
  BY DEF CompactWrite, Keep
<1>3. /\ live \in Seq(Unit) /\ DOMAIN live = 1..Cardinality(LiveUnits) /\ Cardinality(LiveUnits) \in Nat
      /\ \A i \in DOMAIN live : live[i] \in LiveUnits
      /\ \A u \in LiveUnits : \E i \in DOMAIN live : live[i] = u
      /\ \A u \in LiveUnits : meta[u].row \in Rows
  <2>1. LiveUnits \subseteq Unit /\ \A u \in LiveUnits : meta[u].row \in Rows
    BY <1>1, RowsAreRows DEF LiveUnits, Live
  <2> QED
    BY <2>1, Order
<1>4. tmp' \in Seq(Cell)
  <2>1. file \in Seq(Cell) /\ \A u \in LiveUnits : meta[u].row \in DOMAIN file
    BY <1>1, <1>3 DEF Shape, Rows
  <2>2. tmp' \in [1..Cardinality(LiveUnits) -> Cell]
    BY <1>2, <1>3, <2>1
  <2> QED
    BY <1>3, <2>2
<1>5. PICK n : n = [Nothing EXCEPT !.rows = live]
  OBVIOUS
<1>6. n \in Held /\ n.rows = live /\ n.text \in 0..calls
  BY <1>1, <1>3, <1>5, NothingHeld
<1>7. pc'[t] = "rewritten" /\ reg'[t] = n /\ LiveUnits' = LiveUnits
  BY <1>1, <1>2, <1>5 DEF Shape, LiveUnits, Live, Row
<1>8. Holding(t)'
  BY <1>3, <1>6, <1>7 DEF Holding, Sweeping
<1>9. t = "doctor" => ~Opening
  BY <1>1, Rests DEF Places
<1> QED
  BY <1>1, <1>2, <1>4, <1>5, <1>6, <1>8, <1>9, FrameMoves DEF Shape, Stations, Section, Recovery

LEMMA CompactCommitFrame ==
  ASSUME Frame, NEW t \in Worker, CompactCommit(t), torn' \in BOOLEAN
  PROVE  Frame'
<1>1. PICK rows : rows = reg[t].rows
  OBVIOUS
<1>2. /\ Shape /\ Places /\ pc[t] = "rewritten" /\ pc' = [pc EXCEPT ![t] = "remapped"] /\ marker' = TRUE
      /\ t \in Thread /\ rows \in Seq(Unit \union Rows)
      /\ meta' = [u \in Unit |-> IF ~Live(u) THEN None ELSE Moved(u, rows)]
      /\ UNCHANGED <<event, text, told, quiet, calls, file, tmp, io, reg, crashes>>
  BY <1>1 DEF Frame, CompactCommit, At, Goto, jvars, Worker, Thread, Shape, Held
<1>3. \A u \in LiveUnits : \E i \in DOMAIN rows : rows[i] = u
  BY <1>1, <1>2 DEF Frame, Holding
<1>4. ASSUME NEW u \in LiveUnits
      PROVE  Moved(u, rows) \in Meta
  <2>1. PICK k : k = CHOOSE i \in DOMAIN rows : rows[i] = u
    OBVIOUS
  <2>2. k \in Rows
    BY <1>2, <1>3, <2>1 DEF Rows
  <2>3. PICK x : x = meta[u]
    OBVIOUS
  <2>4. /\ x = [row |-> x.row, text |-> x.text, live |-> x.live]
        /\ x.text \in 0..MaxCalls /\ x.live \in BOOLEAN
    BY <1>2, <2>3, MetaShape DEF Shape, LiveUnits, Live, Row
  <2>5. Moved(u, rows) = [x EXCEPT !.row = k]
    BY <2>1, <2>3 DEF Moved
  <2>6. Moved(u, rows) = [row |-> k, text |-> x.text, live |-> x.live]
    BY <2>4, <2>5
  <2> QED
    BY <2>2, <2>4, <2>6, MetaShape, None \in Meta DEF Meta
<1>5. meta' \in [Unit -> Meta]
  BY <1>2, <1>4 DEF LiveUnits, Meta
<1>6. reg' = [reg EXCEPT ![t] = reg[t]] /\ reg[t] \in Held /\ reg[t].text \in 0..calls
  BY <1>2 DEF Shape
<1>7. pc'[t] = "remapped"
  BY <1>2 DEF Shape
<1>8. Holding(t)'
  BY <1>7 DEF Holding, Sweeping
<1>9. io = t /\ (t = "doctor" => ~Opening) /\ \A s \in Worker : s # t => ~InSection(s)
  BY <1>2 DEF Places, InSection, Compacting, Worker
<1> QED
  BY <1>2, <1>5, <1>6, <1>8, <1>9, FrameMoves DEF Shape, Stations, Section, Recovery

LEMMA CompactEndsFrame ==
  ASSUME Frame, NEW t \in Worker, CompactRename(t) \/ CompactClear(t), torn' \in BOOLEAN
  PROVE  Frame'
<1>1. /\ Shape /\ Places /\ pc[t] \in {"remapped", "renamed"} /\ t \in Thread
      /\ UNCHANGED <<event, text, told, quiet, calls, meta, crashes>>
  BY DEF Frame, CompactRename, CompactClear, At, jvars, Worker, Thread
<1>2. io = t /\ (t = "doctor" => ~Opening)
  BY <1>1 DEF Places, InSection, Compacting, Worker
<1>3. CASE /\ tmp # NoFile /\ file' = tmp /\ tmp' = NoFile /\ Goto(t, "renamed")
           /\ UNCHANGED <<io, reg, marker>>
  <2>1. reg' = [reg EXCEPT ![t] = reg[t]] /\ reg[t] \in Held /\ reg[t].text \in 0..calls
    BY <1>1, <1>3 DEF Shape
  <2>2. pc' = [pc EXCEPT ![t] = "renamed"] /\ pc'[t] = "renamed"
    BY <1>1, <1>3 DEF Shape, Goto
  <2>3. Holding(t)'
    BY <2>2 DEF Holding, Sweeping
  <2> QED
    BY <1>1, <1>2, <1>3, <2>1, <2>2, <2>3, FrameMoves DEF Shape, Stations, Section, Recovery
<1>4. CASE /\ io' = Free /\ Goto(t, Rest(t)) /\ Keep(t, Nothing)
           /\ file' = file /\ tmp' = tmp /\ marker' \in BOOLEAN
  <2>1. PICK l : l = Rest(t)
    OBVIOUS
  <2>2. l \in Stations(t) /\ l \notin Section /\ l \notin Recovery /\ l \in {"idle", "clean"} /\ l # "written"
    BY <2>1, Rests DEF Worker, Stations, Section, Recovery
  <2>3. pc' = [pc EXCEPT ![t] = l] /\ pc'[t] = l /\ reg' = [reg EXCEPT ![t] = Nothing]
    BY <1>1, <1>4, <2>1 DEF Shape, Goto, Keep
  <2>4. Nothing \in Held /\ Nothing.text \in 0..calls
    BY <1>1, NothingHeld
  <2>5. Holding(t)'
    BY <2>2, <2>3 DEF Holding, Sweeping
  <2> QED
    BY <1>1, <1>2, <1>4, <2>2, <2>3, <2>4, <2>5, FrameMoves DEF Shape
<1>5. marker \in BOOLEAN
  BY <1>1 DEF Shape
<1> QED
  BY <1>3, <1>4, <1>5 DEF CompactRename, CompactClear, Unlock

LEMMA DoctorFrame ==
  ASSUME Frame, Reconcile \/ DoctorOpens, torn' \in BOOLEAN
  PROVE  Frame'
<1>1. PICK l \in {"done", "closed"} :
        /\ Shape /\ Places /\ ~Opening /\ io # "doctor"
        /\ pc' = [pc EXCEPT !["doctor"] = l] /\ file' \in Seq(Cell)
        /\ UNCHANGED <<event, text, told, quiet, calls, meta, tmp, marker, io, reg, crashes>>
  <2>1. Shape /\ Places /\ file \in Seq(Cell) /\ <<>> \in Seq(Cell)
    BY DEF Frame, Shape
  <2>2. CASE Reconcile
    <3>1. io # "doctor" /\ ~Opening
      BY <2>1, <2>2 DEF Reconcile, At, Places, Free
    <3> QED
      BY <2>1, <2>2, <3>1 DEF Reconcile, Goto, jvars
  <2>3. CASE DoctorOpens
    <3>1. io # "doctor"
      BY <2>1, <2>3 DEF DoctorOpens, At, Places, Worker, InSection, Sweeping, Compacting
    <3> QED
      BY <2>1, <2>3, <3>1 DEF DoctorOpens, Goto, jvars, svars
  <2> QED
    BY <2>2, <2>3
<1>2. /\ reg' = [reg EXCEPT !["doctor"] = reg["doctor"]] /\ reg["doctor"] \in Held
      /\ reg["doctor"].text \in 0..calls
  BY <1>1 DEF Shape, Thread
<1>3. pc'["doctor"] = l
  BY <1>1 DEF Shape, Thread
<1>4. Holding("doctor")'
  BY <1>3 DEF Holding, Sweeping
<1> QED
  BY <1>1, <1>2, <1>4, FrameMoves DEF Shape, Worker, Stations, Section, Recovery

LEMMA OpenFrame ==
  ASSUME Frame, NEW t \in Worker, Open(t), torn' \in BOOLEAN
  PROVE  Frame'
<1>1. PICK l \in {"finish", "tidy", "clear", "idle"} :
        /\ Shape /\ Places /\ Recovers(t) /\ t \in Thread
        /\ pc' = [pc EXCEPT ![t] = l] /\ file' \in {file, tmp} /\ (file' = tmp => tmp # NoFile \/ file' = file)
        /\ tmp' \in {tmp, NoFile} /\ marker' \in {marker, FALSE}
        /\ UNCHANGED <<event, text, told, quiet, calls, meta, io, reg, crashes>>
  <2>1. Shape /\ Places /\ t \in Thread
    BY DEF Frame, Worker, Thread
  <2>2. CASE ReadMarker(t)
    BY <2>1, <2>2 DEF ReadMarker, At, Goto, Recovers, jvars, svars
  <2>3. CASE FinishRename(t)
    BY <2>1, <2>3 DEF FinishRename, At, Goto, Recovers, jvars
  <2>4. CASE ClearMarker(t)
    BY <2>1, <2>4 DEF ClearMarker, At, Goto, Recovers, jvars
  <2>5. CASE RemoveTmp(t)
    BY <2>1, <2>5 DEF RemoveTmp, At, Goto, Recovers, jvars
  <2> QED
    BY <2>2, <2>3, <2>4, <2>5 DEF Open
<1>2. file' \in Seq(Cell) /\ (tmp' # NoFile => tmp' \in Seq(Cell)) /\ marker' \in BOOLEAN
  BY <1>1 DEF Shape
<1>3. PICK n \in Held : reg' = [reg EXCEPT ![t] = n] /\ n.text \in 0..calls
  <2>1. reg' = [reg EXCEPT ![t] = reg[t]] /\ reg[t] \in Held /\ reg[t].text \in 0..calls
    BY <1>1 DEF Shape
  <2> QED
    BY <2>1
<1>4. pc'[t] = l
  BY <1>1 DEF Shape
<1>5. Holding(t)'
  BY <1>4 DEF Holding, Sweeping
<1>6. io # t /\ (t = "doctor" => ~Opening /\ l # "written") /\ (t = "drain" => (l \in Recovery => Opening))
  BY <1>1 DEF Places, Recovers, Opening, InSection, Sweeping, Compacting, Worker
<1>7. l \in Stations(t) /\ l \notin Section
  BY DEF Stations, Section, Recovery
<1>8. /\ pc' = [pc EXCEPT ![t] = l]
      /\ UNCHANGED <<event, text, told, quiet, calls, meta, io, crashes>>
  BY <1>1
<1> QED
  BY <1>1, <1>2, <1>3, <1>5, <1>6, <1>7, <1>8, FrameMoves DEF Shape, Stations, Section, Recovery, Worker

LEMMA CrashFrame ==
  ASSUME Frame, Crash, torn' \in BOOLEAN
  PROVE  Frame'
<1>1. /\ Shape /\ crashes' = crashes + 1 /\ crashes < MaxCrash /\ io' = Free
      /\ UNCHANGED <<event, text, told, quiet, calls, meta, file, tmp, marker>>
      /\ DOMAIN pc' = Thread /\ pc'["drain"] = "closed" /\ pc'["journal"] = "idle"
      /\ pc'["doctor"] \in {"off", "done"} /\ reg' = [s \in Thread |-> Nothing]
  BY DEF Frame, Crash, jvars, svars, Thread, Reopened
<1>2. Shape'
  <2>1. crashes' \in 0..MaxCrash
    BY <1>1, VectorStoreAssumption DEF Shape
  <2>2. Nothing \in Held /\ Nothing.text \in 0..calls
    BY <1>1, NothingHeld
  <2>3. /\ reg' \in [Thread -> Held] /\ \A s \in Thread : reg'[s].text \in 0..calls'
    BY <1>1, <2>2
  <2> QED
    BY <1>1, <2>1, <2>3 DEF Shape
<1>3. Places'
  BY <1>1, Rests DEF Places, Worker, Sweeping, Compacting, InSection, Recovers, Opening
<1>4. ASSUME NEW s \in Thread PROVE Holding(s)'
  BY <1>1 DEF Holding, Sweeping, Thread
<1> QED
  BY <1>2, <1>3, <1>4 DEF Frame

\* A call of the journal: it holds its own remark, and kills rows at most.
LEMMA JournalFrame ==
  ASSUME Frame, NEW u \in Unit, meta' = meta \/ meta' = Dead(meta, u), Shape', io' = io, ~Opening,
         pc'["drain"] = pc["drain"], pc'["doctor"] = pc["doctor"], pc'["journal"] \in {"idle", "zero"},
         reg'["drain"] = reg["drain"], reg'["doctor"] = reg["doctor"],
         pc'["journal"] = "zero" => reg'["journal"].unit \in Unit, torn' \in BOOLEAN
  PROVE  Frame'
<1>1. Places'
  BY DEF Frame, Places, Worker, Sweeping, Compacting, InSection, Recovers, Opening
<1>2. /\ \A v \in DeadUnits : v \in DeadUnits'
      /\ \A v \in LiveUnits' : v \in LiveUnits
  <2>1. CASE meta' = meta
    BY <2>1 DEF DeadUnits, LiveUnits, Live, Row
  <2>2. CASE meta' = Dead(meta, u)
    <3>1. DeadUnits \subseteq Unit /\ LiveUnits' \subseteq Unit
      BY DEF DeadUnits, LiveUnits
    <3>2. \A v \in Unit : (Live(v)' => Live(v)) /\ (v \in DeadUnits => v \in DeadUnits')
      BY <2>2, Deadens DEF Frame
    <3> QED
      BY <3>1, <3>2 DEF LiveUnits
  <2> QED
    BY <2>1, <2>2
<1>3. ASSUME NEW s \in Worker PROVE Holding(s)'
  <2>1. Holding(s) /\ pc'[s] = pc[s] /\ reg'[s] = reg[s]
    BY DEF Frame, Worker, Thread
  <2> QED
    BY <1>2, <2>1 DEF Holding, Sweeping
<1>4. Holding("journal")'
  BY DEF Holding, Sweeping
<1> QED
  BY <1>1, <1>3, <1>4 DEF Frame, Worker, Thread

LEMMA ReviseFrame ==
  ASSUME Frame, NEW u \in Unit, Revise(u) \/ Retract(u), torn' \in BOOLEAN
  PROVE  Frame'
<1>1. /\ Shape /\ Places /\ meta' = Dead(meta, u) /\ calls' = calls + 1 /\ calls < MaxCalls /\ ~Opening
      /\ pc["journal"] = "idle"
      /\ UNCHANGED <<file, tmp, marker, io, pc, reg, told, quiet, crashes>>
      /\ \/ text' = [text EXCEPT ![u] = text[u] + 1] /\ event' = event
         \/ text' = text /\ event' = [event EXCEPT ![u] = "retracted"]
  BY DEF Frame, Revise, Retract, Calls, At
<1>2. calls \in Nat /\ calls' \in 0..MaxCalls /\ \A x \in 0..calls : x \in 0..calls' /\ x + 1 \in 0..calls'
  BY <1>1, VectorStoreAssumption DEF Shape
<1>3. text' \in [Unit -> 0..calls'] /\ event' \in [Unit -> {"live", "retracted", "redacted"}]
  <2>1. text \in [Unit -> 0..calls] /\ event \in [Unit -> {"live", "retracted", "redacted"}]
    BY <1>1 DEF Shape
  <2> QED
    BY <1>1, <1>2, <2>1
<1>4. meta' \in [Unit -> Meta]
  BY <1>1, Deadens
<1>5. Shape'
  <2>1. \A s \in Thread : reg'[s].text \in 0..calls'
    BY <1>1, <1>2 DEF Shape
  <2> QED
    BY <1>1, <1>2, <1>3, <1>4, <2>1 DEF Shape
<1> QED
  BY <1>1, <1>5, JournalFrame

LEMMA RedactFrame ==
  ASSUME Frame, NEW u \in Unit, Redact(u), torn' \in BOOLEAN
  PROVE  Frame'
<1>1. /\ Shape /\ Places /\ meta' = Dead(meta, u) /\ calls' = calls + 1 /\ calls < MaxCalls /\ ~Opening
      /\ event' = [event EXCEPT ![u] = "redacted"]
      /\ quiet' = [quiet EXCEPT ![u] = AtRest(u)] /\ pc' = [pc EXCEPT !["journal"] = "zero"]
      /\ reg' = [reg EXCEPT !["journal"] = [Nothing EXCEPT !.unit = u]]
      /\ UNCHANGED <<text, file, tmp, marker, io, told, crashes>>
  BY DEF Frame, Redact, Calls, At, Goto, Keep
<1>2. PICK n : n = [Nothing EXCEPT !.unit = u]
  OBVIOUS
<1>3. n \in Held /\ n.unit = u /\ n.text \in 0..calls
  BY <1>1, <1>2, NothingHeld
<1>4. calls \in Nat /\ calls' \in 0..MaxCalls /\ \A x \in 0..calls : x \in 0..calls'
  BY <1>1, VectorStoreAssumption DEF Shape
<1>5. /\ reg' \in [Thread -> Held] /\ reg'["journal"] = n
      /\ reg'["drain"] = reg["drain"] /\ reg'["doctor"] = reg["doctor"]
      /\ \A s \in Thread : reg'[s].text \in 0..calls'
  BY <1>1, <1>2, <1>3, <1>4 DEF Shape, Thread
<1>6. /\ DOMAIN pc' = Thread /\ pc'["journal"] = "zero"
      /\ pc'["drain"] = pc["drain"] /\ pc'["doctor"] = pc["doctor"]
  BY <1>1, Goes DEF Thread
<1>7. quiet' \in [Unit -> BOOLEAN]
  <2>1. PICK b \in BOOLEAN : b = AtRest(u)
    BY DEF AtRest
  <2> QED
    BY <1>1, <2>1 DEF Shape
<1>8. /\ text' \in [Unit -> 0..calls'] /\ event' \in [Unit -> {"live", "retracted", "redacted"}]
      /\ meta' \in [Unit -> Meta]
  <2>1. text \in [Unit -> 0..calls] /\ event \in [Unit -> {"live", "retracted", "redacted"}]
    BY <1>1 DEF Shape
  <2> QED
    BY <1>1, <1>4, <2>1, Deadens
<1>9. Shape'
  BY <1>1, <1>4, <1>5, <1>6, <1>7, <1>8 DEF Shape
<1> QED
  BY <1>1, <1>3, <1>5, <1>6, <1>9, JournalFrame

LEMMA ZeroBytesFrame ==
  ASSUME Frame, ZeroBytes, torn' \in BOOLEAN
  PROVE  Frame'
<1>1. PICK u : u = reg["journal"].unit
  OBVIOUS
<1>2. /\ Shape /\ Places /\ pc["journal"] = "zero" /\ pc' = [pc EXCEPT !["journal"] = "idle"]
      /\ reg' = [reg EXCEPT !["journal"] = Nothing] /\ told' = [told EXCEPT ![u] = TRUE]
      /\ file' = IF u \in DeadUnits /\ file # <<>> THEN Put(file, meta[u].row, Zero) ELSE file
      /\ UNCHANGED <<event, text, meta, tmp, marker, io, quiet, calls, crashes>>
  BY <1>1 DEF Frame, ZeroBytes, At, Goto, Keep
<1>3. u \in Unit /\ ~Opening
  BY <1>1, <1>2 DEF Frame, Holding, Thread, Places
<1>4. file' \in Seq(Cell)
  <2>1. CASE u \in DeadUnits /\ file # <<>>
    <3>1. PICK r \in Rows : r = meta[u].row
      BY <1>2, <2>1, RowsAreRows DEF DeadUnits
    <3> QED
      BY <1>2, <2>1, <3>1, Zeros, PutCells DEF Shape
  <2>2. CASE ~(u \in DeadUnits /\ file # <<>>)
    BY <1>2, <2>2 DEF Shape
  <2> QED
    BY <2>1, <2>2
<1>5. /\ reg' \in [Thread -> Held] /\ \A s \in Thread : reg'[s].text \in 0..calls'
      /\ reg'["drain"] = reg["drain"] /\ reg'["doctor"] = reg["doctor"]
  BY <1>2, NothingHeld, Kept DEF Thread
<1>6. /\ DOMAIN pc' = Thread /\ pc'["journal"] = "idle"
      /\ pc'["drain"] = pc["drain"] /\ pc'["doctor"] = pc["doctor"]
  BY <1>2, Goes DEF Thread
<1>7. told' \in [Unit -> BOOLEAN]
  BY <1>2 DEF Shape
<1>8. Shape'
  BY <1>2, <1>4, <1>5, <1>6, <1>7 DEF Shape
<1> QED
  BY <1>2, <1>3, <1>5, <1>6, <1>8, JournalFrame

LEMMA FrameStep == Frame /\ [Next]_<<vars, torn>> => Frame'
<1> SUFFICES ASSUME Frame, [Next]_<<vars, torn>> PROVE Frame'
  OBVIOUS
<1>1. torn' \in BOOLEAN
  BY DEF Frame, Next, Track
<1>2. CASE UNCHANGED <<vars, torn>>
  <2>1. UNCHANGED <<event, text, meta, file, tmp, marker, io, pc, reg, told, quiet, calls, crashes, torn>>
    BY <1>2 DEF vars
  <2>2. Shape' /\ Places'
    BY <2>1 DEF Frame, Shape, Places, Sweeping, Compacting, InSection, Recovers, Opening
  <2>3. ASSUME NEW t \in Thread PROVE Holding(t)'
    BY <2>1 DEF Frame, Holding, Sweeping, DeadUnits, LiveUnits, Live, Row
  <2> QED
    BY <2>1, <2>2, <2>3 DEF Frame
<1>3. CASE Drain
  <2>1. CASE EmbedFails
    BY <1>1, <2>1, EmbedFailsFrame DEF EmbedFails, At, jvars, svars
  <2> QED
    BY <1>1, <1>3, <2>1, FetchFrame, UpsertWriteFrame, UpsertCommitFrame DEF Drain
<1>4. CASE Journal
  BY <1>1, <1>4, ZeroBytesFrame, ReviseFrame, RedactFrame DEF Journal
<1>5. CASE Crash \/ DoctorOpens \/ Reconcile
  BY <1>1, <1>5, CrashFrame, DoctorFrame
<1>6. ASSUME NEW t \in Worker, Maintain(t) \/ Open(t)
      PROVE  Frame'
  BY <1>1, <1>6, SweepStartFrame, SweepZeroFrame, SweepDropFrame, CompactWriteFrame, CompactCommitFrame,
     CompactEndsFrame, OpenFrame DEF Maintain
<1> QED
  BY <1>2, <1>3, <1>4, <1>5, <1>6 DEF Next, Worker

-----------------------------------------------------------------------------
(* The theorems. *)

LEMMA VecInit == Init => VecInv
<1> SUFFICES ASSUME Init PROVE VecInv
  OBVIOUS
<1>1. /\ DOMAIN pc = Thread /\ pc["drain"] = "idle" /\ pc["doctor"] = "off" /\ pc["journal"] = "idle"
  BY DEF Init, Thread
<1>2. Nothing \in Held /\ Nothing.text = 0 /\ 0 \in 0..calls /\ calls = 0
  <2>1. Nothing = [unit |-> None, text |-> 0, rows |-> <<>>] /\ <<>> \in Seq(Unit \union Rows)
    BY DEF Nothing
  <2>2. 0 \in 0..MaxCalls /\ calls = 0
    BY VectorStoreAssumption DEF Init
  <2> QED
    BY <2>1, <2>2 DEF Held
<1>3. /\ reg \in [Thread -> Held] /\ \A t \in Thread : reg[t].text \in 0..calls
  BY <1>2 DEF Init
<1>4. /\ event \in [Unit -> {"live", "retracted", "redacted"}] /\ text \in [Unit -> 0..calls]
      /\ told \in [Unit -> BOOLEAN] /\ quiet \in [Unit -> BOOLEAN]
  BY <1>2 DEF Init
<1>5. /\ meta \in [Unit -> Meta] /\ file \in Seq(Cell) /\ tmp = NoFile /\ marker = FALSE /\ io = Free
      /\ \A u \in Unit : ~Row(u)
  BY DEF Init, Meta, Row
<1>6. calls \in 0..MaxCalls /\ crashes \in 0..MaxCrash
  BY VectorStoreAssumption DEF Init
<1>7. Shape
  BY <1>1, <1>3, <1>4, <1>5, <1>6 DEF Shape
<1>8. Places /\ Marked
  BY <1>1, <1>5, Rests DEF Places, Marked, Worker, Sweeping, Compacting, InSection, Recovers, Opening
<1>9. InHand
  BY <1>1 DEF InHand, Embeds, Writes, Zeroes, Sweeps, Rewrites, Sweeping, Worker
<1>10. Sound
  BY <1>5 DEF Init, Sound, Distinct, LiveUnits, Live
<1> QED
  BY <1>7, <1>8, <1>9, <1>10 DEF VecInv

LEMMA VecStep ==
  ASSUME VecInv, ~torn', [Next]_<<vars, torn>>
  PROVE  VecInv'
<1>1. CASE UNCHANGED <<vars, torn>>
  <2>1. UNCHANGED <<event, text, meta, file, tmp, marker, io, pc, reg, told, quiet, calls, crashes>>
    BY <1>1 DEF vars
  <2>2. Shape' /\ Places' /\ Marked'
    BY <2>1 DEF VecInv, Shape, Places, Marked, Sweeping, Compacting, InSection, Recovers, Opening
  <2>3. InHand'
    BY <2>1, SMTT(30) DEF VecInv, InHand, Embeds, Writes, Zeroes, Sweeps, Rewrites, Sweeping, DeadUnits, LiveUnits,
       Live, Row, CellsOf
  <2>4. Current' = Current
    BY <2>1 DEF Current
  <2> QED
    BY <2>1, <2>2, <2>3, <2>4, Moves
<1>2. CASE Drain
  BY <1>2, FetchKeeps, EmbedFailsKeeps, UpsertWriteKeeps, UpsertCommitKeeps DEF Drain
<1>3. CASE Journal
  BY <1>3, ZeroBytesKeeps, ReviseKeeps, RedactKeeps DEF Journal
<1>4. CASE Crash \/ DoctorOpens \/ Reconcile
  BY <1>4, CrashKeeps, DoctorOpensKeeps, ReconcileKeeps
<1>5. ASSUME NEW t \in Worker, Maintain(t)
      PROVE  VecInv'
  BY <1>5, SweepStartKeeps, SweepZeroKeeps, SweepDropKeeps, CompactWriteKeeps, CompactCommitKeeps,
     CompactEndsKeeps DEF Maintain
<1>6. CASE Open("drain")
  BY <1>6, DrainRecoversKeeps
<1>7. CASE Open("doctor") /\ Track
  BY <1>7, DoctorRecoversKeeps DEF Track
<1> QED
  BY <1>1, <1>2, <1>3, <1>4, <1>5, <1>6, <1>7 DEF Next, Worker

LEMMA VecInvariant == Spec => [](~torn => VecInv)
<1>1. (~torn => VecInv) /\ [Next]_<<vars, torn>> => (~torn => VecInv)'
  <2> SUFFICES ASSUME ~torn => VecInv, [Next]_<<vars, torn>>, ~torn'
               PROVE  VecInv'
    OBVIOUS
  <2>1. ~torn
    BY DEF Next, Track
  <2> QED
    BY <2>1, VecStep
<1> QED
  BY <1>1, VecInit, PTL DEF Spec

\* The rows, files and registers of the vector store keep their shape, also past
\* a torn compaction: every row a step reads, moves or zeroes is one that is there.
THEOREM TypeCorrect == Spec => []TypeOK
<1>1. Init => Frame
  <2> SUFFICES ASSUME Init PROVE Frame
    OBVIOUS
  <2>1. VecInv
    BY VecInit
  <2>2. \A t \in Thread : Holding(t)
    BY DEF Init, Holding, Sweeping, Thread
  <2> QED
    BY <2>1, <2>2 DEF Init, Frame, VecInv
<1>2. Frame => TypeOK
  <2> SUFFICES ASSUME Frame PROVE TypeOK
    OBVIOUS
  <2>1. Shape /\ \A x \in 0..calls : x \in 0..MaxCalls
    BY VectorStoreAssumption DEF Frame, Shape
  <2> QED
    BY <2>1 DEF Frame, Shape, TypeOK, Worker, Thread
<1> QED
  BY <1>1, <1>2, FrameStep, PTL DEF Spec

\* Whenever the lock is free, a live row names a vector of its own remark: no crash
\* in a sweep, a compaction or a recovery leaves it at another's bytes or at none,
\* and a recovery beside a compaction only if it takes the compaction's files.
THEOREM RowsAreOwn == Spec => []LiveRowIsOwn
<1>1. (~torn => VecInv) => LiveRowIsOwn
  <2> SUFFICES ASSUME VecInv, io = Free, ~Opening, NEW u \in LiveUnits
               PROVE  meta[u].row \in CellsOf(file, u)
    BY DEF LiveRowIsOwn
  <2>1. Current = file
    BY Unmarked
  <2> QED
    BY <2>1 DEF VecInv, Sound, Own
<1> QED
  BY <1>1, VecInvariant, PTL

\* A redaction of a store at rest holds for good: no byte of the remark comes back,
\* neither from an embedding under way nor from a rewritten file.
THEOREM RedactionIsKept == Spec => []RedactionHolds
<1>1. (~torn => VecInv) => RedactionHolds
  BY DEF VecInv, Sound, RedactionHolds, Redacted
<1> QED
  BY <1>1, VecInvariant, PTL
=============================================================================
