----------------------------- MODULE MCTransaction ----------------------------
EXTENDS MCCollection, Transaction
=============================================================================
