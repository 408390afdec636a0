-------------------------- MODULE UpstreamSettings --------------------------
(***************************************************************************)
(* The retry policy that both adapters get from the daemon                   *)
(* (lmcp/daemon.py, _effective_retry_on_timeout): the backoff between two      *)
(* tries only waits, and no module has it.                                   *)
(***************************************************************************)
EXTENDS Naturals

CONSTANT Retries      \* retry_on_timeout

ASSUME RetriesAssumption == Retries \in Nat
=============================================================================
