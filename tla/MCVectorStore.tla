--------------------------- MODULE MCVectorStore ---------------------------
(* Constants and bounds for model checking the vector store: two remarks, and
   a doctor that runs before the first kill only (after one, the program's own
   recovery comes first and leaves nothing to the doctor's). *)
EXTENDS VectorStore

CONSTANTS u1, u2
Two == {u1, u2}

MCNext == Next /\ (crashes > 0 => pc'["doctor"] # "closed")
MCSpec == Init /\ [][MCNext]_<<vars, torn>> /\ Fairness
=============================================================================
