----------------------------- MODULE MCStreamRun ----------------------------
(* StreamRun on a small instance: two workers share three tasks. *)
EXTENDS StreamRun
=============================================================================
