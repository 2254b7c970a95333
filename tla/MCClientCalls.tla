---------------------------- MODULE MCClientCalls ----------------------------
(* Small instances of ClientCalls for TLC.                                  *)
EXTENDS ClientCalls

CONSTANTS k1, k2

Calls2 == {k1, k2}

=============================================================================
