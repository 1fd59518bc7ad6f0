------------------------------ MODULE MCProactive ------------------------------
EXTENDS Proactive

MCUsers == {1, 2}
OneUser == {1}
NoUser  == {}
=============================================================================
