-------------------------------- MODULE CdMC --------------------------------
(***************************************************************************)
(* Two directories for TLC: the path of d2 is that of d1 with "=" and more *)
(* behind it, so that a shell which is given it as a variable reads d1.    *)
(***************************************************************************)
EXTENDS Cd

CONSTANTS d1, d2

CutAtEquals == [dir \in Dirs |-> d1]
=============================================================================
