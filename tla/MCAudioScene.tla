---------------------------- MODULE MCAudioScene ----------------------------
(* Small instances of AudioScene: addresses are interchangeable, and so are *)
(* threads, as nothing in the code compares them but for equality.          *)
EXTENDS AudioScene, TLC

SceneSymmetry == Permutations(Scenes)
Symmetry == Permutations(Scenes) \cup Permutations(Apps)
=============================================================================
