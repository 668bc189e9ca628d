--------------------------- MODULE MCCertificates ----------------------------
(* Certificates on small instances: constants for TLC. *)
EXTENDS Certificates, TLC

CONSTANTS a, b, v1, v2, request

\* Two sites, of two servers, with two names.
TwoServers == 1 :> v1 @@ 2 :> v2
TwoNames   == 1 :> a @@ 2 :> b

\* The two sites are alike: which is the only one makes no difference.
NoneOneBoth == {{}, {1}, {1, 2}}
=============================================================================
