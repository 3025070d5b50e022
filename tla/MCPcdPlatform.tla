---------------------------- MODULE MCPcdPlatform ----------------------------
(* Values of the platform drivers' constants for TLC.                      *)
EXTENDS PcdPlatform, TLC

CONSTANTS a, b, c

(* The ids of pcd_device_setup.c, in order.                                *)
MCId == (a :> 0) @@ (b :> 1) @@ (c :> 2)
=============================================================================
