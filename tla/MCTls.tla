--------------------------------- MODULE MCTls ---------------------------------
(* Two handles of TLS connections for TLC; which is which does not matter. *)
EXTENDS TlsClients, TLC

CONSTANTS a, b

MCHandles == {a, b}
Symmetry == Permutations(MCHandles)
===============================================================================
