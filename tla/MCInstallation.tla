--------------------------- MODULE MCInstallation ---------------------------
(* Model values and bounds for Installation: one plugin with two builds,  *)
(* two tenants, two concurrent request handlers.                          *)
EXTENDS Installation

\* u1 and u2 are two versions of the same plugin; only u1 declares a tool.
MCPluginIdOf(u) == "author/plugin"
MCMaxRequests == 6
====
