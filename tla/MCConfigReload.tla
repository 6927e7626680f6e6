--------------------------- MODULE MCConfigReload ---------------------------
(* Small instances of ConfigReload for TLC: two callers.                   *)
EXTENDS ConfigReload

CONSTANTS watcher, api

BothCallers == {watcher, api}
=============================================================================
