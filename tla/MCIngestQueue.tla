--------------------------- MODULE MCIngestQueue ---------------------------
(* One image, a kind of which the decoders can make a preview or have put off;
   two models; limits of two and three attempts. *)
EXTENDS IngestQueue
=============================================================================
