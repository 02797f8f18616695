------------------------------ MODULE MCJobs ------------------------------
(***************************************************************************)
(* Instances of Jobs for TLC.  Two devices and one action give two keys:   *)
(* two threads can meet on one key and a cancellation of one device must   *)
(* leave the other alone.                                                  *)
(***************************************************************************)
EXTENDS Jobs, TLC

CONSTANTS w1, w2, c1, d1, d2, backup

MCWorkers == {w1, w2}
MCCancellers == {c1}
MCDevices == {d1, d2}
MCActions == {backup}
=============================================================================
