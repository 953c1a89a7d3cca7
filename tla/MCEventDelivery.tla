---------------------------- MODULE MCEventDelivery ----------------------------
(* Clicks for two processes.                                                  *)
EXTENDS EventDelivery

===============================================================================
