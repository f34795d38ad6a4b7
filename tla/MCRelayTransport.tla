--------------------------- MODULE MCRelayTransport ---------------------------
(* Small instances of RelayTransport for TLC: a queue of two, three events. *)
EXTENDS RelayTransport, TLC
=============================================================================
