------------------------------ MODULE MCIndexer ------------------------------
(* Indexer for TLC.                                                          *)
EXTENDS Indexer
=============================================================================
