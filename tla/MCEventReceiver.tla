-------------------------- MODULE MCEventReceiver --------------------------
(***************************************************************************)
(* Two connections and a channel of capacity one: the smallest instance in *)
(* which handlers overlap, the channel is full while another handler waits *)
(* for the lock, and Close meets handlers at every point.                  *)
(***************************************************************************)
EXTENDS EventReceiver

CONSTANTS c1, c2
============================================================================
