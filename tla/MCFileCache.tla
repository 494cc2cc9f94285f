---------------------------- MODULE MCFileCache ----------------------------
EXTENDS FileCache, TLC

MCKinds == {"picture", "json"}
MCSymmetry == Permutations(Requests)
=============================================================================
