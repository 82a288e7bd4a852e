CONSTANTS
    ChatFaults <- AllChatFaults
SPECIFICATION FairChatSpec
INVARIANTS
    ForcedMeansFunded
    SellerHasAuthority
    StopsForAReason
PROPERTIES
    TripShown
    InvoiceWithdrawn
CHECK_DEADLOCK FALSE
