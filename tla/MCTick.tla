-------------------------------- MODULE MCTick --------------------------------
EXTENDS Tick
===============================================================================
