----------------------------- MODULE MCNtpClient -----------------------------
(* Four requests: the reply to one can spoil the next three.               *)
EXTENDS NtpClient
===============================================================================
