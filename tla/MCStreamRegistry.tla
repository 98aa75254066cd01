-------------------------- MODULE MCStreamRegistry --------------------------
(* Two runs and two connections: enough for a straggler, a reconnect       *)
(* during the replay and an eviction while another run is in flight.       *)
EXTENDS StreamRegistry

CONSTANTS r1, r2, c1, c2, t1
=============================================================================
