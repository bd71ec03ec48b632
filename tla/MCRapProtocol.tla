---------------------------- MODULE MCRapProtocol ----------------------------
(* A small instance of RapProtocol: a file whose content differs at the      *)
(* start and at 2 GB, where an int overflows, and that has nothing to read   *)
(* where SEEK_END goes.                                                      *)
EXTENDS RapProtocol

Start == <<0, 0, 0, 0, 0, 0, 0, 0>>
TwoGB == <<0, 0, 0, 0, 128, 0, 0, 0>>

MCOffsets == {Start, TwoGB}
MCSize == <<0, 0, 0, 0, 0, 0, 1, 0>>
MCContent == [o \in MCOffsets |-> IF o = Start THEN 10 ELSE 11]
=============================================================================
