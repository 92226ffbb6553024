---------------------------- MODULE EventJournal ----------------------------
(***************************************************************************)
(* What an event journal promises (EVENTS sections 7 and 8): on every      *)
(* device the journal only grows, by set union; and once an event is       *)
(* redacted there, no document, however old, brings its content back.      *)
(***************************************************************************)
EXTENDS JournalContent

CONSTANTS Device, Event

VARIABLES
  journal,   \* journal[d]: the events device d holds and those it knows redacted
  shared     \* all that has ever been written to a sidecar

Init ==
  /\ journal = [d \in Device |-> Blank]
  /\ shared = Blank

\* A person speaks, writes or draws.
Record(d, e) ==
  /\ e \notin journal[d].ids
  /\ journal' = [journal EXCEPT ![d] = Insert(@, e)]
  /\ UNCHANGED shared

\* A person redacts events that this device holds, and some are unscrubbed.
Redact(d, s) ==
  /\ s # {} /\ \A e \in s : Shows(journal[d], e)
  /\ journal' = [journal EXCEPT ![d].husks = @ \union s]
  /\ UNCHANGED shared

\* A sidecar is written.
Share(d, c) ==
  /\ Within(c, journal[d])
  /\ shared' = Join(shared, c)
  /\ UNCHANGED journal

\* A document, or a part of one, is merged.
Absorb(d, c) ==
  /\ Within(c, shared)
  /\ journal' = [journal EXCEPT ![d] = Join(@, c)]
  /\ UNCHANGED shared

Next ==
  \E d \in Device :
    \/ \E e \in Event : Record(d, e)
    \/ \E s \in SUBSET Event : Redact(d, s)
    \/ \E c \in Contents(Event) : Share(d, c) \/ Absorb(d, c)

Spec == Init /\ [][Next]_<<journal, shared>>
=============================================================================
