------------------------------ MODULE MCQueue ------------------------------
(* Who calls what in the run of Queue: two threads compete for items, two  *)
(* for places, one waits for the items to be done.                          *)
EXTENDS Queue

Competing ==
  {<<"a", "get">>, <<"b", "get">>, <<"b", "put">>, <<"c", "put">>, <<"c", "join">>}
============================================================================
