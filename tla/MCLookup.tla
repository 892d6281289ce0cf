-------------------------------- MODULE MCLookup -------------------------------
EXTENDS MCCollection, Lookup
=============================================================================
