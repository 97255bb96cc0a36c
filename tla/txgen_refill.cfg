\* The workload thread with account_count 2 and two fundings of the initial
\* account, both large enough for setup. The refill of the workload loop
\* debits the initial account without the 42000 check.
CONSTANTS
    InitialAccount = a0
    FreshAccounts = {r1, r2, r3}
    AccountCount = 2
    Fundings = {100000, 200000}
    MaxWait = 2
    MaxTxs = 6
    None = None
SPECIFICATION Spec
SYMMETRY FreshSymmetry
INVARIANT DebitsCovered
\* The thread ends (done or a panic); those end states are not deadlocks.
CHECK_DEADLOCK FALSE
