SPECIFICATION Spec
CONSTANTS
    p1 = p1
    p2 = p2
    admin = admin
    treasury = treasury
    zero = zero
    alice = alice
    Admin = admin
    Treasury = treasury
    Zero = zero
    Procs = {p1, p2}
    Addr = {admin, treasury, zero, alice}
    InitialDb <- MCInitialDb
    InitialMeta <- MCInitialMeta
    Unit = 2
    MaxInt64 = 5
    Senders = {alice}
    Receivers = {admin}
    Amounts = {1}
    FeeRates = {0}
    Methods <- MCEth
    MaxNonce = 1
    MaxRequests = 2
    MaxRestarts = 0
INVARIANTS
    EthAppliedOnce
