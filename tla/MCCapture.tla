----------------------------- MODULE MCCapture -----------------------------
(* Two pictures and a topic.  Either the microphone is armed and the window  *)
(* changes what it shows while the user speaks, or the microphone is armed   *)
(* twice and sessions rotate under it.                                       *)
EXTENDS Capture

Picture(p) == [targets |-> {p}, subject |-> Nothing]
Scopes == {Picture("p"), Picture("q"), [targets |-> {}, subject |-> "topic"]}
Looking == [scopes |-> 1, speech |-> 2, finals |-> 2, arms |-> 0, disarms |-> 0, touches |-> 0, faults |-> 0]
Moving  == [scopes |-> 0, speech |-> 1, finals |-> 1, arms |-> 2, disarms |-> 2, touches |-> 1, faults |-> 1]
All == {Looking, Moving}

Began == [anchor |-> 0, deadline |-> Nothing, voice |-> FALSE, quiet |-> 0,
          heard |-> 0, seg |-> 0, part |-> Nothing, stream |-> 0]
MCInit ==
  /\ now = 0 /\ left \in Budgets
  /\ shown = <<[at |-> 0, scope |-> Picture("p")]>> /\ oldest = 1
  /\ IF left = Looking THEN mic = "idle" /\ pipe = Began ELSE mic = "disarmed" /\ pipe = Nothing
  /\ flight = <<>> /\ eng = 1 /\ act = 0
  /\ session = 1 /\ open = {1} /\ lastAct = 0 /\ toucher = "out"
  /\ want = "none" /\ cmd = "none" /\ due = 0 /\ gen = 0 /\ drains = {} /\ mint = Nothing
MCSpec == MCInit /\ [][Next]_vars /\ Fairness
=============================================================================
