--------------------------- MODULE MCApplication ---------------------------
(* One caller with every small size of body and fragment, and two callers   *)
(* with one size that is served: counters hold whole responses only, so     *)
(* other sizes would give the same states, scaled.                          *)
EXTENDS Application

CONSTANTS g1, g2

MCGoroutines == {g1, g2}

MCSizes ==
  [program : {"client"}, reqSize : {0, 7, 8, 9}, resSize : {8}, packetSize : {8},
   callers : {{g1}}, messages : {4}]
    \cup
  [program : {"server"}, reqSize : {8}, resSize : (0..2) \cup (7..25), packetSize : 0..17,
   callers : {{g1}}, messages : {1}]
    \cup
  [program : {"server"}, reqSize : {8}, resSize : {17}, packetSize : {9},
   callers : {{g1}}, messages : {5}]

MCPair(program, n) ==
  [program |-> program, reqSize |-> 8, resSize |-> 8, packetSize |-> 8,
   callers |-> MCGoroutines, messages |-> n]

MCConfigs == MCSizes \cup {MCPair("server", 4), MCPair("client", 3)}
=============================================================================
