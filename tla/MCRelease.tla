------------------------------- MODULE MCRelease -------------------------------
(***************************************************************************)
(* Release over every accepted combination of a few parameters, with halves  *)
(* of a microsecond and negative times, ramps up and down, and traces with   *)
(* values out of range, one of them empty.                                   *)
(***************************************************************************)
EXTENDS Release

MCValues == {-3, 0, 3, 10}

MCSteps == -2 .. 2

MCDraws == {-3, 0, 12}

MCTraces == {<<>>, <<3>>, <<0, -5>>, <<12, 12, 1>>, <<12, 0, 12, 3>>}
===============================================================================
