SPECIFICATION NodeSpec
CONSTANTS
    p1 = p1
    p2 = p2
    admin = admin
    treasury = treasury
    zero = zero
    alice = alice
    Admin = admin
    Treasury = treasury
    Zero = zero
    Procs = {p1, p2}
    Addr = {admin, treasury, zero, alice}
    InitialDb <- MCInitialDb
    InitialMeta <- MCInitialMeta
    Unit = 40
    MaxInt64 = 200
    Senders = {alice}
    Receivers = {treasury}
    Amounts = {1}
    FeeRates = {}
    Methods <- MCMethods
    MaxNonce = 0
    MaxRequests = 2
    MaxRestarts = 1
    BlockTxs <- MCBlockTxs
    MaxBlockTxs = 1
SYMMETRY Symmetry
INVARIANTS
    NodeTypeOK
    NonNegative
    UncontendedExact
    FundsConserved
