--------------------------------- MODULE MCWifi ---------------------------------
(* The station for TLC: a network that refuses us, one that takes us, and one  *)
(* that is not there.                                                          *)
EXTENDS WifiScan, TLC

CONSTANTS n1, n2, n3

MCNets == {n1, n2, n3}
MCReach == (n1 :> "locked") @@ (n2 :> "open") @@ (n3 :> "absent")
MCListed == <<n1, n2>>
===============================================================================
