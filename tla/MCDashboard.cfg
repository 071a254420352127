SPECIFICATION Spec
CONSTANTS
    lab = lab
    web = web
    r1 = r1
    r2 = r2
    Users = {1, 2}
    Hosts = {lab}
    ServiceIDs = {web}
    Requests = {r1, r2}
    Scenarios <- SmallScenarios
    Scanner = scanner
    Managed = {2}
    MaxClock = 1
    None = None
INVARIANTS
    TypeOK
    RevokedRefused
    AnswerShowsEdit
    KnownUserFound
    IndexAgrees
PROPERTIES
    ClaimsChecked
    StaysCurrent
    Converges
