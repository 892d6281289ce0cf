---------------------------- MODULE MCLogCompaction ---------------------------
EXTENDS MCCollection, LogCompaction
=============================================================================
