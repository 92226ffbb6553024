--------------------------- MODULE JournalContent ---------------------------
(***************************************************************************)
(* What a journal, or a sidecar document that mirrors it, says about a set *)
(* of events: which events it holds, and which of those are scrubbed husks *)
(* (EVENTS section 3.6).  Redaction supremacy makes the two sets a         *)
(* join-semilattice: a merge unions both, so a husk anywhere wins.         *)
(***************************************************************************)
EXTENDS FiniteSets

Contents(Event) == [ids : SUBSET Event, husks : SUBSET Event]

Blank == [ids |-> {}, husks |-> {}]

Join(a, b) == [ids |-> a.ids \union b.ids, husks |-> a.husks \union b.husks]

\* `a` holds nothing that `b` lacks: every event, and every redaction.
Within(a, b) == a.ids \subseteq b.ids /\ a.husks \subseteq b.husks

\* The content still shows the text or strokes of `e`.
Shows(c, e) == e \in c.ids /\ e \notin c.husks

Insert(c, e) == [c EXCEPT !.ids = @ \union {e}]

Scrub(c, e) == [c EXCEPT !.husks = @ \union {e}]
=============================================================================
