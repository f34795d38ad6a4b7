--------------------------- MODULE MCRelayPresence ---------------------------
(* Small instances of RelayPresence for TLC. *)
EXTENDS RelayPresence

CONSTANTS pc1, pc2, phone1, relay1, relay2

\* The PC connects, is cut off or leaves, and connects again.
PcTwice   == {pc1, pc2}
OnePhone  == {phone1}
TwoRelays == {relay1, relay2}

\* One process with a phone beside the PC; and two processes that share Redis, of
\* which each connection of the PC reaches its own.
LoneAndShared == {
    [redis |-> FALSE, relays |-> {relay1}, reach |-> [s \in Sockets |-> {relay1}]],
    [redis |-> TRUE, relays |-> {relay1, relay2},
     reach |-> [s \in Sockets |->
                   CASE s = pc1 -> {relay1} [] s = pc2 -> {relay2} [] OTHER -> {}]] }
=============================================================================
