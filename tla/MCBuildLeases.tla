--------------------------- MODULE MCBuildLeases ---------------------------
EXTENDS BuildLeases
=============================================================================
