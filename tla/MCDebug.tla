------------------------------ MODULE MCDebug ------------------------------
EXTENDS Debug
=============================================================================
