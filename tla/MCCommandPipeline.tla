-------------------------- MODULE MCCommandPipeline --------------------------
EXTENDS CommandPipeline
CONSTANTS d1, d2
OneDevice == [c \in Cmd |-> d1]
TwoDevices == [c \in Cmd |-> IF c = 3 THEN d2 ELSE d1]
=============================================================================
