------------------------------- MODULE MCPage -------------------------------
EXTENDS Page
=============================================================================
