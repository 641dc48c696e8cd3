SPECIFICATION Spec
CONSTANTS
    Probe = {p1, p2, p3}
    NoProbe = NoProbe
    MaxFailures = 5
INVARIANTS
    OutageConfirmed
    AbortsAreNoOutage
    OutageIsShown
    PollingGoesOn
PROPERTY BannerRecovers
