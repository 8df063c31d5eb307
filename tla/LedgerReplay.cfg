SPECIFICATION Spec
CONSTANTS
    cash = cash
    equity = equity
    loan = loan
    move = move
    lend = lend
    out = out
    into = into
    usd = usd
    usdc = usdc
    fxUSD = fxUSD
    fxUSDC = fxUSDC
    Accounts = {cash, equity}
    Currencies = {"USD"}
    Currency <- MCCurrency
    Seeds = {seed1}
    TxIDs = {seed1, move}
    Content <- MCContent
    Procs = {p1, p2}
    Main = main
    Nobody = nobody
    SystemAccounts <- MCSystemAccounts
    Linked <- MCNoLinks
    Postgres = FALSE
    MaxFaults = 0
    MaxManual = 1
    MaxSeq = 14
SYMMETRY SeedSymmetry
INVARIANTS
    ProjectionIsReplay
