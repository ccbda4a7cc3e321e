SPECIFICATION MeterSpec
CONSTANTS
    Offers <- MCOffers
    MaxUnits = 3
    MaxTotal = 24
CHECK_DEADLOCK FALSE
INVARIANTS
    DebitWithinReservation
PROPERTIES
    UseNeverCheapens
