------------------------------- MODULE MCHeap -------------------------------
EXTENDS SmallMem

MCRegions == {<<1, 57>>, <<4, 14>>}
=============================================================================
