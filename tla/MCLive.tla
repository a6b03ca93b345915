--------------------------------- MODULE MCLive ---------------------------------
EXTENDS LiveSession

CONSTANT s1

MCReadings ==
    {[complete |-> TRUE, signal |-> 100, regime |-> None],
     [complete |-> TRUE, signal |-> -100, regime |-> None]}
MCSectorOf == [s \in Symbols |-> None]
NoCorrelation == {}
=============================================================================
