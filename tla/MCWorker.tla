------------------------------- MODULE MCWorker -------------------------------
(* Instances of Worker for TLC; the cfg files give the bounds their values.  *)
EXTENDS Worker
=============================================================================
