-------------------------- MODULE MCDeviceManager --------------------------
(* DeviceManager with two handle values, so that one is reused by a later   *)
(* call while the manager may still hold the other.                         *)
EXTENDS DeviceManager

CONSTANTS h1, h2

MCHandles == {h1, h2}
=============================================================================
