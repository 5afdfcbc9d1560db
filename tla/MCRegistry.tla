---------------------------- MODULE MCRegistry ------------------------------
EXTENDS Registry
=============================================================================
