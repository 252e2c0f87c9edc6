-------------------------------- MODULE MCTcp --------------------------------
(* Two connections; the web server's two handles and the one of             *)
(* FHEMHTTPsend().                                                         *)
EXTENDS TcpConnections
===============================================================================
