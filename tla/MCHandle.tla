------------------------------ MODULE MCHandle ------------------------------
EXTENDS Handle
=============================================================================
