---------------------------- MODULE MCClientConn ----------------------------
(* Instances of ClientConn for TLC; the cfg files give MaxDials its value.  *)
EXTENDS ClientConn
=============================================================================
