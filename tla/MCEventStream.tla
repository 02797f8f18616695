--------------------------- MODULE MCEventStream ---------------------------
(***************************************************************************)
(* Instances of EventStream for TLC.  Two event types of which clients     *)
(* want one (and observer.stopped): a sequence number a client skips.      *)
(***************************************************************************)
EXTENDS EventStream

CONSTANT c1

MCClients == {c1}
MCKinds == {"battery", "wifi"}
MCWanted == {"battery", Stopped}
=============================================================================
