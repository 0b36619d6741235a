-------------------------------- MODULE Clock --------------------------------
(***************************************************************************)
(* The wall clock, in milliseconds, that the packages read or are handed   *)
(* as nowMS.  It never runs backwards here; every module that uses it says *)
(* in an action of its own how it passes.                                  *)
(***************************************************************************)

CONSTANT MaxTime      \* bound on the clock

VARIABLE nowMS

==============================================================================
