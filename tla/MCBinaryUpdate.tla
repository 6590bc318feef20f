--------------------------- MODULE MCBinaryUpdate ---------------------------
(* Instances of BinaryUpdate for TLC. *)
EXTENDS BinaryUpdate, TLC

CONSTANTS c1, c2, r1, u1, u2

(* The hash of the oldest binary, set by hand. *)
OldHashes == { Whole(0) }

(* The two uploaders differ in nothing.                                    *)
Alike == Permutations({u1, u2})

(* Where to look: at one connection and no request once an upload has      *)
(* begun during another.                                                   *)
Focus == overlap # "never" => Requested = {} /\ sender[c2].pc = "none"
=============================================================================
