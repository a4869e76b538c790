---------------------------- MODULE MCInventory ----------------------------
(* Instances of Inventory for TLC: clicks of a drag, a click submitted     *)
(* twice, and a window replaced or a reconfiguration, each in a scene of   *)
(* its own.                                                                *)
EXTENDS Inventory

Scene(kinds, reused, again, windows) ==
  [kinds |-> kinds, reused |-> reused, restarts |-> again, opens |-> windows]

MCScenes ==
  {Scene({"drag_start", "drag_add", "drag_end"}, {}, 0, 1),
   Scene({"plain"}, {2}, 0, 1),
   Scene({"plain"}, {}, 1, 2)}
=============================================================================
