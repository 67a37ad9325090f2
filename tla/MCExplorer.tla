------------------------------ MODULE MCExplorer ------------------------------
EXTENDS Explorer
=============================================================================
