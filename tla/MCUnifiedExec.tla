---- MODULE MCUnifiedExec ----
\* UnifiedExec with one id more than the store holds.
EXTENDS UnifiedExec, TLC
CONSTANTS i1, i2, i3, none
ThreeIds == {i1, i2, i3}
\* One id is as good as another: they are only compared and drawn at random.
IdSymmetry == Permutations(ThreeIds)
====
