---------------------------- MODULE MCBlockStore ----------------------------
EXTENDS BlockStore

Alike == Permutations(Scans)
=============================================================================
