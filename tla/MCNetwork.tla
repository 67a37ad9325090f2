------------------------------ MODULE MCNetwork ------------------------------
EXTENDS Network
=============================================================================
