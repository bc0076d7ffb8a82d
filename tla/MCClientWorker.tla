--------------------------- MODULE MCClientWorker ---------------------------
(* Instances of ClientWorker for TLC. *)
EXTENDS ClientWorker

WellFormed == {"hello", "sensor", "frame"}

(* One kind for each path: badmagic and badversion go the way of toobig,    *)
(* and other goes the way of badframe.                                     *)
OnePerPath == {"hello", "sensor", "frame", "badframe", "toobig", "badsum"}
=============================================================================
