SPECIFICATION Spec
CONSTANTS
    cash = cash
    equity = equity
    loan = loan
    move = move
    lend = lend
    out = out
    into = into
    usd = usd
    usdc = usdc
    fxUSD = fxUSD
    fxUSDC = fxUSDC
    Accounts = {cash, equity, loan}
    Currencies = {"USD"}
    Currency <- MCCurrency
    Seeds = {seed1, seed2, seed3}
    TxIDs = {seed1, seed2, seed3, lend}
    Content <- MCContent
    Procs = {p1, p2}
    Main = main
    Nobody = nobody
    SystemAccounts <- MCSystemAccounts
    Linked <- MCNoLinks
    Postgres = TRUE
    MaxFaults = 2
    MaxManual = 1
    MaxSeq = 14
SYMMETRY SeedSymmetry
INVARIANTS
    TypeOK
    LegalLog
    ListedIsCounted
    AnsweredIsApplied
    AppliedAtMostTwice
    StartupIdempotent
PROPERTIES
    JournalSpec
