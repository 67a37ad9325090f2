------------------------------- MODULE MCCpuTop -------------------------------
EXTENDS CpuTop
=============================================================================
