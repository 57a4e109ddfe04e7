-------------------------- MODULE MCVirtualMemory --------------------------
(* Small instances of VirtualMemory for TLC. *)
EXTENDS VirtualMemory, TLC

\* Frames and slots are interchangeable; VAs are ordered and are not.
Symmetry == Permutations(Pages) \cup Permutations(Slots) \cup Permutations(Users)

============================================================================
