--------------------------- MODULE MCConfigPlane ---------------------------
EXTENDS ConfigPlane, TLC

AllEdits == {"SaveRoute", "DeleteRoute", "SavePart", "DeletePart"}

Symmetry ==
    Permutations(Routes) \cup Permutations(Names) \cup Permutations(Services)
    \cup Permutations(Middlewares) \cup Permutations(Editors)
=============================================================================
