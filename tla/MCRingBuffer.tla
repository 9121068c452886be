----------------------------- MODULE MCRingBuffer -----------------------------
EXTENDS RingBuffer
===============================================================================
