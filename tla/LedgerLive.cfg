SPECIFICATION FairSpec
CONSTANTS
    cash = cash
    equity = equity
    loan = loan
    move = move
    lend = lend
    out = out
    into = into
    usd = usd
    usdc = usdc
    fxUSD = fxUSD
    fxUSDC = fxUSDC
    Accounts = {cash, equity, usd, usdc, fxUSD, fxUSDC}
    Currencies = {"USD", "USDC"}
    Currency <- MCCurrency
    Seeds = {seed1}
    TxIDs = {seed1, move, out, into}
    Content <- MCContent
    Procs = {p1, p2}
    Main = main
    Nobody = nobody
    SystemAccounts <- MCTwoCurrencies
    Linked <- MCLinked
    Postgres = TRUE
    MaxFaults = 0
    MaxManual = 0
    MaxSeq = 13
PROPERTIES
    EventuallyApplied
