---------------------------- MODULE MC_RequestPool ----------------------------
(* Three objects, at most two requests in flight.                          *)
EXTENDS RequestPool

CONSTANTS o1, o2, o3

MCObjects == {o1, o2, o3}

=============================================================================
