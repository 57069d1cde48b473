SPECIFICATION ComponentsSpec
CONSTANTS
    Installs = {"i1", "i2"}
    Wallets = {"w1", "w2"}
    Txs = {"x1", "x2"}
    Posts = {"p1", "p2"}
    Scanners = {"s1", "s2"}
    NoInstall = "none"
    Transfers <- Moves
    MinDeposit = 2
    Depth = 2
    Chunk = 1
    MaxHeight = 3
    MaxDepositFaults = 1
    AcpJobs = {"j1", "j2", "j3"}
    AcpTargets = {"g1", "g2"}
    TargetOf <- Targets
    Budgeted = {"j3"}
    AcpWorkers = {"a1", "a2"}
    EventCap = 2
    OtherRails = TRUE
    MaxAcpFaults = 1
    ScanCalls = {"c1", "c2", "c3"}
    ScanAuths = {"h1", "h2", "h3"}
    NoScanAuth = "none"
    ScanWalletLimit = 1
    MaxScanFaults = 1
    Stack <- TwoProviders
    Stacks <- Three
    ShadowTier = TRUE
    AllFindings <- ThreeFindings
    Reports <- FewReports
    MaxAttempts = 3
    Ticks = {"t1"}
    PublicReceipt = TRUE
    Advisories = {"g1", "g2"}
    Publishers = {"q1", "q2"}
    MaxDisclosureFaults = 1
    Kernels = {"k1", "k2"}
    Findings = {"f1", "f2"}
    Shadows = {"s1"}
    KernelSetups <- Settings
    MaxKernelFaults = 1
    Repos = {"r1", "r2"}
    Operators = {"o1", "o2"}
    Weeks = {"w1"}
    Generators = {"n1", "n2"}
    Readers = {"b1"}
    MaxClock = 2
    Uploads = {"u1", "u2"}
    Tokens = {"v1"}
    Claims = {"m1", "m2"}
    Ttl = 1
    Retention = 2
    CallLife = 1
    MaxNow = 4
    FleetFeatures = {"a", "b", "c"}
    FleetFindings = {"w", "x", "y", "z"}
    FeatureOf <- Homes
    Seeds = {"s1", "s2"}
    Commands = {"m1", "m2", "m3"}
    Jobs = {"j1", "j2"}
    MaxFleetFaults = 1
    MaxEdits = 1
    Casts <- Scenes
INVARIANTS
    ComponentsTypeOK
    BalanceIsDeposits
    CursorLeavesNothing
    ActiveIsFunded
    DeliveryIsHonest
    BudgetIsAccounted
    ScansArePaidWithinLimit
    GateIsHonest
    RowMatchesComment
    EmbargoIsKept
    OneAdvisory
    WithheldIsNotShown
    SuggestionsAreChecked
    PublicModelIsPublic
    ServedIsPublic
    OneBatchPerToken
    BatchAddsUp
    FleetIsSound
\* Clients, callers, blocks and attempts are finite: all of them end.
CHECK_DEADLOCK FALSE
