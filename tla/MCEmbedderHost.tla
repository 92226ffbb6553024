--------------------------- MODULE MCEmbedderHost ---------------------------
(* Two models compete for the role; the bounds let a build be superseded,  *)
(* time out, crash and be retried.  The two models are interchangeable, so *)
(* the plan may as well start with the first.                              *)
EXTENDS EmbedderHost

MCInit == HostInit /\ wanted = "m1"
MCSpec == MCInit /\ [][HostNext]_hostVars /\ HostFairness
=============================================================================
