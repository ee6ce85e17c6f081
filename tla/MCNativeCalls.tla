--------------------------- MODULE MCNativeCalls ---------------------------
EXTENDS NativeCalls
=============================================================================
