-------------------------- MODULE MCUserMarkers --------------------------
EXTENDS UserMarkers
=============================================================================
