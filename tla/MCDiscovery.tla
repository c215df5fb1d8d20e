---------------------------- MODULE MCDiscovery ----------------------------
(***************************************************************************)
(* Small instances of Discovery for TLC: device a answers from two         *)
(* addresses; device b sends a good answer and one that is too short,      *)
(* device c a good one.                                                    *)
(***************************************************************************)
EXTENDS CDiscovery

Datagram(from, device, length, v) ==
    [src |-> from, family |-> "v4", ip |-> device, len |-> length, type |-> 2,
     version |-> v, port |-> 15740]

ThreeDevices ==
    {Datagram("a1", "a", 20, 256), Datagram("a2", "a", 20, 256),
     Datagram("b1", "b", 14, 256), Datagram("b1", "b", 13, 256),
     Datagram("c1", "c", 14, 256)}
=============================================================================
