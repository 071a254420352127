\* Two users with four services between them and a virtual host.
CONSTANTS
    None = None
    t1 = t1
    t2 = t2
    Tabs = {t1, t2}
    Users = {"ann", "bob"}
    Services <- MCServices
    Files <- MCFiles
    AssetRoots <- MCAssetRoots
    Gateway = "g"
    Hosts = {"g", "v"}
    Scenarios <- MCScenarios
CHECK_DEADLOCK FALSE
SPECIFICATION Spec
INVARIANTS TypeOK LogoutForgets
PROPERTIES OnlyOwnServices StickToPage DefaultIsStable RedirectsReturn NavigationEnds
