--------------------------- MODULE MCDeviceSystem ---------------------------
(* Devices for TLC: an output, and an id that is an output and an input.   *)
EXTENDS DeviceSystem

CONSTANTS a, b
MCEndpoints == {<<a, "output">>, <<b, "output">>, <<b, "input">>}
MCProps == {1, 2}
=============================================================================
