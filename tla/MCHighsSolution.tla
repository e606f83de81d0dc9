-------------------------- MODULE MCHighsSolution --------------------------
EXTENDS MCHighsModel, HighsSolution
=============================================================================
