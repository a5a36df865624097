---------------------------- MODULE MCZdtunTable ----------------------------
(***************************************************************************)
(* Instances of ZdtunTable for TLC: one client port, which talks to        *)
(* several hosts.                                                          *)
(***************************************************************************)
EXTENDS ZdtunTable

CONSTANTS stun, peer, dns, web, p1

ThreeHosts == stun :> p1 @@ peer :> p1 @@ dns :> p1
=============================================================================
