------------------------------- MODULE MCDisk -------------------------------
EXTENDS Disk

MCPrefix == [a \in Author |-> 0]
=============================================================================
