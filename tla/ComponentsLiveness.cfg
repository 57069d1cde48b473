SPECIFICATION ComponentsFairSpec
CONSTANTS
    Installs = {"i1"}
    Wallets = {"w1"}
    Txs = {"x1"}
    Posts = {"p1"}
    Scanners = {"s1"}
    NoInstall = "none"
    Transfers <- Moves
    MinDeposit = 2
    Depth = 2
    Chunk = 1
    MaxHeight = 3
    MaxDepositFaults = 1
    AcpJobs = {"j1"}
    AcpTargets = {"g1"}
    TargetOf <- Targets
    Budgeted = {}
    AcpWorkers = {"a1"}
    EventCap = 2
    OtherRails = FALSE
    MaxAcpFaults = 2
    ScanCalls = {"c1"}
    ScanAuths = {"h1"}
    NoScanAuth = "none"
    ScanWalletLimit = 1
    MaxScanFaults = 1
    Stack <- TwoProviders
    Stacks <- Three
    ShadowTier = TRUE
    AllFindings <- NoFindings
    Reports <- NoReports
    MaxAttempts = 2
    Ticks = {"t1"}
    PublicReceipt = TRUE
    Advisories = {"g1", "g2"}
    Publishers = {"q1"}
    MaxDisclosureFaults = 2
    Kernels = {"k1"}
    Findings = {"f1"}
    Shadows = {"s1"}
    KernelSetups <- Settings
    MaxKernelFaults = 1
    Repos = {"r1"}
    Operators = {"o1"}
    Weeks = {"w1"}
    Generators = {"n1"}
    Readers = {"b1"}
    MaxClock = 2
    Uploads = {"u1"}
    Tokens = {"v1"}
    Claims = {"m1"}
    Ttl = 1
    Retention = 2
    CallLife = 1
    MaxNow = 4
    FleetFeatures = {"a"}
    FleetFindings = {"x"}
    FeatureOf <- Homes
    Seeds = {"s1"}
    Commands = {"m1"}
    Jobs = {"j1"}
    MaxFleetFaults = 0
    MaxEdits = 0
    Casts <- OneOfEach
PROPERTIES
    AcpWorkEnds
    ExpiredIsPublished
\* A finished job and a published finding ask for nothing more.
CHECK_DEADLOCK FALSE
