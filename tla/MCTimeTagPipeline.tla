------------------------- MODULE MCTimeTagPipeline -------------------------
(* Two detectors with small queues, chunks and files for TLC.              *)
EXTENDS TimeTagPipeline
=============================================================================
