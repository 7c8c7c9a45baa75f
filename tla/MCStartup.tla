-------------------------------- MODULE MCStartup -------------------------------
(***************************************************************************)
(* Startup with two workers: one that pulls jobs for long enough to adjust  *)
(* all of its markers, and one that comes in with its first estimates at any *)
(* time.                                                                    *)
(***************************************************************************)
EXTENDS Startup, TLC

CONSTANTS w1, w2

MCUtils == {<<1, 2>>, <<1, 1>>, <<3, 2>>}

MCMaxPulls == w1 :> 9 @@ w2 :> 2
===============================================================================
