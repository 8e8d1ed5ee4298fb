---------------------------- MODULE MCKillSwitch ----------------------------
(* KillSwitch on small instances: two orders of one user, two sessions.    *)
EXTENDS KillSwitch
=============================================================================
