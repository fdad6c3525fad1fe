SPECIFICATION Spec
CONSTANTS
    p1 = p1
    p2 = p2
    admin = admin
    treasury = treasury
    zero = zero
    alice = alice
    Admin = admin
    Treasury = treasury
    Zero = zero
    Procs = {p1, p2}
    Addr = {admin, treasury, zero, alice}
    InitialDb <- MCInitialDbZero
    InitialMeta <- MCInitialMeta
    Unit = 2
    MaxInt64 = 5
    Senders = {admin, zero}
    Receivers = {admin, treasury}
    Amounts = {1}
    FeeRates = {0, 2500}
    Methods <- MCAllMethods
    MaxNonce = 1
    MaxRequests = 2
    MaxRestarts = 1
SYMMETRY Symmetry
INVARIANTS
    TypeOK
    NonNegative
    
    NonceGapFree
    RecordedWasDebited
