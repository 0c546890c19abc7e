----------------------------- MODULE MCInterop -----------------------------
(* The suite of InteropSuite, run by the processes of Interop.             *)
EXTENDS Interop, InteropSuite
=============================================================================
