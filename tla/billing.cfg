SPECIFICATION FairSpec
CONSTANTS
    u1 = u1  i1 = i1  w1 = w1  w2 = w2  r1 = r1
    Users = {u1}
    Instances = {i1}
    Workers = {w1, w2}
    Requests = {r1}
    Owner <- OwnedByU1
    Gpus <- OneGpu
    Rates <- OneRate
    Amount <- OneMinute
    Payee <- ForU1
    NoCredits = NoCredits
    HistoryLimit = 2
    MaxMinute = 1
    MaxFaults = 1
INVARIANTS
    PostedOnce
    BalanceIsLedgerSum
    ChargesFollowUse
    ViewExplainsBalance
PROPERTIES
    BankruptIsStopped
