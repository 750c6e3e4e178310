---------------------------- MODULE MCEndpointService ----------------------------
(* Model values for EndpointService.                                       *)
EXTENDS EndpointService

MCMaxCalls == 2
MCStreamCap == 1
MCMaxChunks == 3
====
