------------------------- MODULE MCConcurrentConverters ------------------------
(* ConcurrentConverters for TLC: a batch of three files.                     *)
EXTENDS ConcurrentConverters

MCThreeFiles == <<"a", "b", "c">>
================================================================================
