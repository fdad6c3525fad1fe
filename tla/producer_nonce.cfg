SPECIFICATION Spec
CONSTANTS
    admin = admin
    treasury = treasury
    evm = evm
    shop = shop
    Addr = {admin, treasury, evm, shop}
    Admin = admin
    Treasury = treasury
    EvmUser = evm
    TotalSupply = 300
    AdminAlloc = 100
    EvmFund = 80
    Unsigned = Unsigned
    NoTo = NoTo
    NoHash = NoHash
    Absent = Absent
    Torn = Torn
    MaxBlocks = 2
    MaxSubmissions = 2
    MaxCrashes = 0
    MaxFailures = 0
    NoPayer = NoPayer
    InvoiceAmount = {40}
    TokenName = {"GORR"}
    NoTx = NoTx
    Lifetime = {1}
    InitialLifetime = 1
    TimeMod = 64
    MaxIntents = 0
    MaxTime = 1
    Txs <- MCUnfit
INVARIANTS
    NonceCountsTxs
