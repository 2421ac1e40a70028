-------------------------- MODULE MCServerLifecycle --------------------------
(* Two clients for a bounded instance of ServerLifecycle.                  *)
EXTENDS ServerLifecycle

CONSTANTS x, y
TwoConns == {x, y}
=============================================================================
