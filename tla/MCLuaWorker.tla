---------------------------- MODULE MCLuaWorker ----------------------------
(* Instances of LuaWorker for TLC: two workers, the first of which owns    *)
(* every bot.                                                              *)
EXTENDS LuaWorker

CONSTANTS w1, w2, b1

OwnedByOne == [b \in Bots |-> w1]

Scene(alive, requests, happens, chained) ==
  [alive |-> alive, requests |-> requests, events |-> happens,
   chained |-> chained]

\* One worker with two requests, or with a request and an event; two workers
\* with one request.
MCScenes ==
  {Scene({w1}, 2, 0, TRUE), Scene({w1}, 1, 1, TRUE), Scene({w1, w2}, 1, 0, FALSE)}

MCChained == {Scene({w1, w2}, 3, 0, TRUE)}
=============================================================================
