------------------------------ MODULE MCLogger ------------------------------
(* Logger.tla with two threads, as in main(), an error's trace being one   *)
(* fprintf. One record of each thread is enough for a wait without end,    *)
(* two are needed for records that mix in a file with more than one.       *)
EXTENDS Logger

ASSUME LoggerAssumption == RecordAssumption
=============================================================================
