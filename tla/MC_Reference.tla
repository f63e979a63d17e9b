---------------------------- MODULE MC_Reference ----------------------------
(* Two isolates, two ReferenceHandle objects, two DereferenceHandles.      *)
EXTENDS Reference, TLC

CONSTANTS i1, i2, h1, h2, d1, d2

MCIsolates == {i1, i2}
MCHandles  == {h1, h2}
MCOneShots == {d1, d2}

(* Every kind of value whose typeof the tag set covers; one kind where    *)
(* the run is not about typeof.                                           *)
MCValueKinds == T!SpecKinds
MCOneKind    == {"object"}

MCSymmetry == Permutations(MCIsolates) \cup Permutations(MCHandles)
                \cup Permutations(MCOneShots)

=============================================================================
