-------------------------------- MODULE MCStudy --------------------------------
EXTENDS Study
=============================================================================
