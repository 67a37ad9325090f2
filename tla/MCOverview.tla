------------------------------ MODULE MCOverview ------------------------------
EXTENDS Overview
=============================================================================
