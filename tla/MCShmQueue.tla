----------------------------- MODULE MCShmQueue -----------------------------
(* Model checking of ShmQueue.                                              *)
EXTENDS ShmQueue
=============================================================================
