----------------------------- MODULE MCKeyDecoder -----------------------------
EXTENDS KeyDecoder
=============================================================================
