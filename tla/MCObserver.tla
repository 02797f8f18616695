---------------------------- MODULE MCObserver ----------------------------
(***************************************************************************)
(* Instances of Observer for TLC: a level below the threshold and one at it. *)
(***************************************************************************)
EXTENDS Observer

CONSTANT phone

MCDevices == {phone}
MCLevels == {10, 20}
MCSsids == {"home"}
=============================================================================
