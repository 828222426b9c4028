CONSTANTS
    Requests = {"r1", "r2"}
    Bridges = {b1}
    Tokens = {t1}
    Services <- MCServices
    Users <- MCUsers
    Setups <- MCSetups
    Inputs <- MCInputs
    Emails = {"ann", "eve"}
    Trusted = {"lb"}
    None = None
    BridgeTTL = 1
    JtiWindow = 2
    RouteTTL = 1
    TokenTTL = 2
    CodeTTL = 1
    MaxNow = 3
    Calls = {c1, c2}
    Routed <- MCRouted
    Methods = {"GET", "POST"}
    Threshold = 3
    OpenFor = 2
    Keys = {k1, k2, k3}
    Window = 1
    Limit = 2
    MaxDenials = 3
    Values = {v1, v2}
    FailOpen = FALSE
    StaleAfter = 1
    MaxSeen = 2
    NameLists <- MCNameLists
    Jobs = {"worker", "admin"}
    Flights = {f1, f2}
    Asked = {"a"}
    Life = 2
    RenewWithin = 1
    RenewalWindow = 1
    MagicWindow = 0
    BaseDelay = 2
    MaxDelay = 3
    Recheck = 1
    FreshFor = 0
    MissFor = 0
    MaxFailures = 2
    CertNow = 1
    Challenges = {f1, f2}
    PasskeyIds = {p1}
    MaxCount = 2
    Restarts = 1
    MaxUsers = 2
    MaxLogins = 2
    MaxEdits = 1
    Subjects = {f1, f2}
    Addresses = {"ann", "eve"}
SPECIFICATION MCSpec
SYMMETRY Alike
INVARIANTS RestrictedHolds EmailProven CredentialOnce ForgedHopIgnored
           SentOnceAndServed NothingReportedTwice ReputationKept
           CachedCurrent CertificatesKept LoginsApart
