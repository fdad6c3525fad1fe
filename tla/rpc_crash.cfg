SPECIFICATION Spec
CONSTANTS
    p1 = p1
    p2 = p2
    admin = admin
    treasury = treasury
    zero = zero
    alice = alice
    Admin = admin
    Treasury = treasury
    Zero = zero
    Procs = {p1}
    Addr = {admin, treasury, zero, alice}
    InitialDb <- MCInitialDbZero
    InitialMeta <- MCInitialMeta
    Unit = 2
    MaxInt64 = 5
    Senders = {admin, alice, zero}
    Receivers = {admin, zero, treasury}
    Amounts <- MCAmounts
    FeeRates <- MCRates
    Methods <- MCAllMethods
    MaxNonce = 1
    MaxRequests = 2
    MaxRestarts = 1
INVARIANTS
    NothingCreated
    FeesDurable
