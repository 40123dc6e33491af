--------------------------- MODULE MCIngestQueue ---------------------------
(* Small instances of IngestQueue: the cfg gives the constants.            *)
EXTENDS IngestQueue
=============================================================================
