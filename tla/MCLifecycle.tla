---------------------------- MODULE MCLifecycle -----------------------------
(* Any of the three services, two calls, two messages; three retries whose
   waits reach the cap and whose deadline falls between, at or after them. *)
EXTENDS Lifecycle

=============================================================================
