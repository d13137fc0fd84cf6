--------------------------- MODULE MCSetupFaults ---------------------------
\* Instance of module SetupFaults for TLC: only the constants of the .cfg file.
EXTENDS SetupFaults
=============================================================================
