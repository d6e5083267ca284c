------------------------- MODULE MCOrderedStructure -------------------------
EXTENDS OrderedStructure

IdentitySymmetry == Permutations(Identities)
=============================================================================
