SPECIFICATION Spec
CONSTANTS
    home = home
    a = a
    b = b
    v1 = v1
    v2 = v2
    Urls <- MCUrls
    Home = home
    Bodies <- MCBodies
    MaxPrefetches = 1
    MaxLoading = 1
    MaxRequests = 2
    MaxNavigations = 2
    MaxBuffer = 1
SYMMETRY Symmetry
INVARIANTS
    CacheWithinLimits
    PageMatchesLocation
PROPERTIES
    LaterPageStays
    PagesAreFresh
CHECK_DEADLOCK FALSE
