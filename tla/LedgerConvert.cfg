SPECIFICATION MCSpec
CONSTANTS
    seed = seed
    out = out
    into = into
    dustOut = dustOut
    dustIn = dustIn
    skew = skew
    dep = dep
    usd = usd
    usdc = usdc
    fxUSD = fxUSD
    fxUSDC = fxUSDC
    cash = cash
    coins = coins
    equity = equity
    Accounts = {usd, usdc, fxUSD, fxUSDC, cash, coins, equity}
    Currencies = {"USD", "USDC"}
    Currency <- MCCurrency
    Type <- MCType
    TxIDs = {seed, out, into, dustOut, dustIn, skew, dep}
    Content <- MCContent
    Procs = {p1, p2}
    Main = main
    Nobody = nobody
    SystemAccounts <- MCSystemAccounts
    Linked <- MCLinked
    Postgres = FALSE
    MaxFaults = 0
    MaxManual = 0
    MaxSeq = 20
    Scale = 10
    Unit = 2
    Contents <- MCContents
    Portfolios <- MCPortfolios
    MaxTime = 2
    MaxEdits = 1
    MaxAsks = 1
SYMMETRY MCSymmetry
INVARIANTS
    TrialBalance
    ConversionOrder
    ConversionWhole
    BookBalances
    BookAgrees
    FlowsComplete
    RatiosSound
