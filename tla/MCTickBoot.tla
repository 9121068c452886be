------------------------------ MODULE MCTickBoot -------------------------------
EXTENDS TickBoot
===============================================================================
