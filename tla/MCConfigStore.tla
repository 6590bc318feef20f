---------------------------- MODULE MCConfigStore ----------------------------
(* Instances of ConfigStore for TLC. *)
EXTENDS ConfigStore, TLC

CONSTANTS a1, a2, cli, x, y, z, w

(* A file with two routes and a node. *)
SomeSaved == [routes |-> << [id |-> 1, key |-> x], [id |-> 2, key |-> y] >>,
              nodes |-> << [id |-> 3, key |-> x] >>]

(* The admins, and the keys no entry of the file has. *)
Interchangeable == Permutations({a1, a2}) \cup Permutations({z, w})
=============================================================================
