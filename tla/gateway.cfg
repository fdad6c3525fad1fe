SPECIFICATION Spec
CONSTANTS
    shop = shop
    cafe = cafe
    alice = alice
    bob = bob
    t1 = t1
    Merchant = {shop, cafe}
    Payer = {alice, bob}
    NoPayer = NoPayer
    InvoiceAmount = {2}
    TxAmount = {1, 2}
    TokenName = {"GORR"}
    TxHash = {t1}
    NoTx = NoTx
    Lifetime = {1, 7}
    InitialLifetime = 1
    TimeMod = 8
    MaxIntents = 2
    MaxTime = 3
SYMMETRY Symmetry
INVARIANTS
    TypeOK
    
PROPERTIES
    IntentsFollowLifecycle
