---------------------------- MODULE TunnelPromise ----------------------------
(***************************************************************************)
(* What TunnelManager in tunnel.rs promises, of the connectors and of the  *)
(* handle it keeps.  Tunnel has the steps.                                 *)
(***************************************************************************)
VARIABLES
  running,      \* whose handle is in `running`
  alive,        \* the connectors whose process runs
  asked,        \* the connectors whose supervisor has been asked to end them
  reaped        \* those reported gone

-----------------------------------------------------------------------------
(* At most one connector is wanted, and a later stop can reach it: one that *)
(* runs and has not been asked to end is the one whose handle is held.      *)
OneWanted == \A p \in alive \ asked : running = p

(* A handle in `running` is one of a process that has not been reported     *)
(* gone: a start is never refused by a tunnel that is no longer there.      *)
HandleIsOfTheLiving == running \notin reaped
=============================================================================
