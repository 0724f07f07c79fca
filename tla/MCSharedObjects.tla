--------------------------- MODULE MCSharedObjects ---------------------------
(* Instances of SharedObjects for TLC. *)
EXTENDS SharedObjects, TLC
LastLogin == {"last_login"}
Symmetry == Permutations(Processes) \cup Permutations(Objects) \cup Permutations(Usernames)
=============================================================================
