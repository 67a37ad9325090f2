--------------------------- MODULE MCOverviewSample ---------------------------
EXTENDS OverviewSample
=============================================================================
