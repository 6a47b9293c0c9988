--------------------------- MODULE MCEpollServer ---------------------------
(* EpollServer.tla with two clients that come and go and three             *)
(* descriptors, so that the files opened and never closed exhaust them.    *)
(* Nothing is taken for symmetric, for the sake of the liveness properties.*)
EXTENDS EpollServer
=============================================================================
