------------------------------ MODULE MCCardLife ------------------------------
EXTENDS CardLife
=============================================================================
