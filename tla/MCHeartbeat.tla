------------------------------ MODULE MCHeartbeat ------------------------------
(* Instances of Heartbeat for TLC; the cfg files give the periods and the    *)
(* timeouts their values, scaled down from those of the code.                *)
EXTENDS Heartbeat
=============================================================================
