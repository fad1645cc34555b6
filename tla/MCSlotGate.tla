----------------------------- MODULE MCSlotGate -----------------------------
EXTENDS SlotGate, TLC

\* Processes and inodes are interchangeable; used only without liveness.
Symmetry == Permutations(Proc) \cup Permutations(Inode)
=============================================================================
