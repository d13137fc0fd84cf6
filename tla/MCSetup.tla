------------------------------ MODULE MCSetup ------------------------------
\* Instance of module Setup for TLC: only the constants of the .cfg files.
EXTENDS Setup
=============================================================================
