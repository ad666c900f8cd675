--------------------------- MODULE MCTurboServer ---------------------------
(* Two clients: enough for two daemons that race for the path, and for two *)
(* modules in one daemon.                                                  *)
EXTENDS TurboServer

MCClients == {"c1", "c2"}
============================================================================
