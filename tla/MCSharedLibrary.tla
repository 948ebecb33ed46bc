-------------------------- MODULE MCSharedLibrary --------------------------
(* Three objects; the first two name the same library file. *)
EXTENDS SharedLibrary

CONSTANTS o1, o2, o3, f1, f2

ThreeObjects == {o1, o2, o3}
TwoFiles == {f1, f2}
SharedFile == [o \in ThreeObjects |-> IF o = o3 THEN f2 ELSE f1]
=============================================================================
