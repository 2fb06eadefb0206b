---------------------------- MODULE MCGuiSession ----------------------------
(* Instances of the desktop program for TLC. *)
EXTENDS GuiSession, TLC

Symmetry == Permutations(Handles) \cup Permutations(Profiles)
=============================================================================
