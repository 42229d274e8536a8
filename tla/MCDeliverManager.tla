--------------------------- MODULE MCDeliverManager ---------------------------
(* Model values and the instances on which TLC checks DeliverManager.      *)
EXTENDS DeliverManager

CONSTANTS s1, s2, s3

MCServers == {s1, s2, s3}
=============================================================================
