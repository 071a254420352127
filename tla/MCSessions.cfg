SPECIFICATION Spec
CONSTANTS
    Requests = {r1, r2}
    MaxRev = 2
    TTL = 2
    RefreshBelow = 2
    None = None
SYMMETRY Interchangeable
INVARIANTS
    TypeOK
    RevokedUnlessStraddled
    SecondFactorHeld
PROPERTIES
    TwoFAChangesAuthorised
