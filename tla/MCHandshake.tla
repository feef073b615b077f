----------------------------- MODULE MCHandshake -----------------------------
(* Handshake on a small instance. *)
EXTENDS Handshake

CONSTANT minion1

MCNoOrBlank == {NoId, BlankId}
=============================================================================
