---------------------------- MODULE MCEventMerge ----------------------------
(* Instances of EventMerge for TLC: two devices and a handful of events.    *)
EXTENDS EventMerge, TLC

CONSTANTS d1, d2

\* A remark 1, a revision 2 of it, and a retraction 3 of the revision.
Corrected == (2 :> 1) @@ (3 :> 2)

\* A remark 1 with one revision 2.
Once == (2 :> 1)

\* Remarks alone.
Alone == <<>>

\* The devices differ in nothing but their name.
Devices == Permutations({d1, d2})
=============================================================================
