------------------------ MODULE MCProcessingPipeline ------------------------
(* Small instances of ProcessingPipeline for TLC.                          *)
EXTENDS ProcessingPipeline, TLC

CONSTANTS j1, t1, t2
=============================================================================
