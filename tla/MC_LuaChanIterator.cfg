\* The channel iterator against channels created and destroyed and
\* chanindex entries released between the calls.
CONSTANTS
    c1 = c1
    c2 = c2
    c3 = c3
    Chans <- MC_Chans
    CHANNELHASHSIZE = 2
    NULL = NULL

SPECIFICATION Spec

INVARIANT IterationExact
