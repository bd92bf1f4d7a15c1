--------------------------- MODULE MCServerLoop ---------------------------
(* Instances of ServerLoop for TLC.  Two sleep states and two wake states   *)
(* are enough to tell a request from the one before it of the same kind.    *)
EXTENDS ServerLoop

SleepAndWakePair == {"ReadySleep", "ReadySleepCritical", "ReadyAwaken", "Awake"}
=============================================================================
