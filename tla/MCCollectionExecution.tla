------------------------ MODULE MCCollectionExecution ------------------------
(* CollectionExecution for TLC.                                            *)
EXTENDS CollectionExecution

MCSlot  == 1..2
MCReads == {}
=============================================================================
