--------------------------- MODULE MCEndpointPool ---------------------------
(* Small instances of EndpointPool for TLC. *)
EXTENDS EndpointPool

CONSTANTS s1, s2, e1, e2

\* A configuration that names one seed twice.
TwoSeeds == << s1, s2, s1 >>
=============================================================================
