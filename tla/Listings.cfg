SPECIFICATION Spec
CONSTANTS
    l1 = l1
    s1 = s1
    c1 = c1
    c2 = c2
    Listing = {l1}
    Stay = {s1}
    Price = {1, 2}
    Call = {c1, c2}
    MaxViews = 1
    MaxTime = 2
    NULL = NULL
    Terms <- MCTerms
    ListingOf <- MCListingOf
    Net <- MCNet
    Attributes <- MCAttributes
    Query <- MCQuery
SYMMETRY Symmetry
INVARIANTS
    ActiveWasApproved
    ActiveWithoutApprovalNeedsOverlap
    SearchIsExact
    RevenueWasPaid
PROPERTIES
    LostEditNeedsOverlap
