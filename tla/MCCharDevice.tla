---------------------------- MODULE MCCharDevice ----------------------------
(* CharDevice.tla with two processes and two files, loaded up to twice and *)
(* with one buffer more than can be in use or leaked.                      *)
EXTENDS CharDevice
=============================================================================
