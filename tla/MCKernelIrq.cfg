\* The shipped boards, one with interrupts shared by instances, one of the Xen
\* driver, and configurations at the limits.
CONSTANTS
    Boards <- AllBoards

SPECIFICATION Spec

INVARIANTS
    ShippedComesUp
    PrivateMemory
    RoutedHasHandler
    HandlersMatch
    FreesRequested
    RegionsMatch
    OwnLineHeard
