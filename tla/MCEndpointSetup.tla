---------------------------- MODULE MCEndpointSetup ----------------------------
(* Model values for EndpointSetup.                                         *)
EXTENDS EndpointSetup

MCMaxCalls == 3
====
