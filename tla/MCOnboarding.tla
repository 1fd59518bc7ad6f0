------------------------------ MODULE MCOnboarding ------------------------------
EXTENDS Onboarding

Names == [german |-> "de"]
=============================================================================
