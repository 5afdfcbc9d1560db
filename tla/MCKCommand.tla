----------------------------- MODULE MCKCommand -----------------------------
EXTENDS KCommand
=============================================================================
