---------------------------- MODULE MCServerSlots ----------------------------
EXTENDS ServerSlots

CONSTANTS c1, c2, c3
=============================================================================
