SPECIFICATION Spec
CONSTANTS
    Products = {lamp, bed}
    lamp = lamp
    bed = bed
    Optioned = {bed}
    MaxSessions = 2
    MaxSpent = 5
CHECK_DEADLOCK FALSE
INVARIANTS
    OneVisitor
    ChargedAsShown
    SummaryIsOfTheCart
    DetailsAreOfTheirProduct
