---------------------------- MODULE MCHighsMilp ----------------------------
EXTENDS MCHighsModel, HighsMilp
=============================================================================
