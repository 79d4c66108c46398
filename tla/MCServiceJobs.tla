---------------------------- MODULE MCServiceJobs ----------------------------
(* One job, a leader and one more worker, two requests in flight. *)
EXTENDS ServiceJobs

=============================================================================
