---------------------------- MODULE MCDeviceHook ----------------------------
(* TLC instance of DeviceHook.                                             *)
EXTENDS DeviceHook
=============================================================================
