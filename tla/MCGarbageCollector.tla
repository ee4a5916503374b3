------------------------ MODULE MCGarbageCollector ------------------------
(* Instances of the garbage collector for TLC.                             *)
EXTENDS GarbageCollector
=============================================================================
