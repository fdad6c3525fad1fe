SPECIFICATION FairSpec
CONSTANTS
    adm = adm
    tre = tre
    evm = evm
    zer = zer
    Addr = {adm, tre, evm, zer}
    AdminKey = adm
    TreasuryKey = tre
    EvmUser = evm
    Zero = zer
    AdminAlloc = 2
    TreasuryAlloc = 3
    EvmFund = 1
    MaxStarts = 3
    MaxFailures = 1
    MaxBlocks = 2
    MaxTransfers = 1
INVARIANTS
    TypeOK
    WalletsStable
    FundedOnce
    RunsOnWholeChain
PROPERTIES
    GenesisIsFinal
    
