----------------------- MODULE MCDBusWatchBridge ---------------------------
(* Model-checking instance of DBusWatchBridge: the read watch and the     *)
(* write watch libdbus keeps on a connection's socket, and one timeout.    *)
EXTENDS DBusWatchBridge, TLC

CONSTANTS wRead, wWrite, tReply

MCWatches == {wRead, wWrite}
MCWatchFlags == (wRead :> {"readable"}) @@ (wWrite :> {"writable"})
MCTimeouts == {tReply}
\* 0 ms (the (interval - 1) edge), exactly one second, and a fraction above.
MCIntervals == {0, 1000, 1500}
=============================================================================
