-------------------------- MODULE MCEndpointInvoke --------------------------
(* Bounds for EndpointInvoke: a small stream so it fills, and more chunks  *)
(* than it holds.                                                         *)
EXTENDS EndpointInvoke

MCStreamCap == 1
MCMaxChunks == 3
====
