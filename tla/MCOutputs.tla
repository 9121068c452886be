------------------------------- MODULE MCOutputs -------------------------------
EXTENDS Outputs
===============================================================================
