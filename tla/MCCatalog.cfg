SPECIFICATION CatalogSpec
CONSTANTS
    u = u
    v = v
    bazaar = bazaar
    market = market
    cheap = cheap
    dear = dear
    Nothing = Nothing
    Url = {u, v}
    Source = {bazaar, market}
    Terms = {cheap}
    PageSize = 2
    Clamp <- ClampedBazaar
    Paginated = {bazaar}
    QueueLimit = 2
    HotRefresh = 2
    HotEligible = 0
    WarmEligible = 0
    ColdSweep = 1
    HighDemandMin = 2
    MaxEvents = 2
PROPERTIES SweepCovers ListedElsewhereStays SweepsComeRound
