------------------------------- MODULE MCFarm -------------------------------
EXTENDS Farm

MCNonces == {[digits |-> 0, value |-> 0], [digits |-> 1, value |-> 10]}
MCExtraNonces == {[digits |-> 0, value |-> 0], [digits |-> 1, value |-> 160]}
MCRandoms == {160}

=============================================================================
