------------------------------- MODULE MCMQTT -------------------------------
(* MQTTSystem for TLC.  The configurations give every constant its value.  *)
EXTENDS MQTTSystem
=============================================================================
