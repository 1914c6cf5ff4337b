\* The nick iterator against nicks arriving and leaving between the calls.
CONSTANTS
    n1 = n1
    n2 = n2
    n3 = n3
    Nicks <- MC_Nicks
    NICKHASHSIZE = 2
    Args <- MC_ArgsIter
    NotTable = NotTable
    MAX_PUSHER = 3
    nickpushercount = 2
    NULL = NULL

SPECIFICATION Spec

INVARIANT TypeOK
INVARIANT IterationExact
INVARIANT PusherMatchesTable
