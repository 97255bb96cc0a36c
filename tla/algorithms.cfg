\* VrfProposer: one caller, as the consensus round manager drives the
\* proposer: three rounds, two authors, 2-bit VRF outputs (0..3, with 3 as
\* U256::MAX) and up to three candidates, so ties, duplicates and all-MAX
\* lists occur.
\* GethTracerUtils: memories up to 100 bytes (three word boundaries and a
\* partial fourth word) and one holding every byte value, gas up to 30
\* (every remainder of the division by 5, and refunds on both sides of the
\* cap), every opcode, and every 2-byte U256.
\* SpecialTransactionGenerator: two calls of up to two transactions of each
\* kind from a start balance of three fees and two ERC20 tokens, in a block
\* of room for two simple or four ERC20 transfers. New receivers are forced
\* below 2 accounts and MAX_TOTAL_ACCOUNTS is 3, so all three receiver
\* choices, drops of poor senders, full blocks, the random % 0 panic and
\* the endless ERC20 loop are all reached (about 10k generator states).
CONSTANTS
    Threads = {t1}
    Authors = {a1, a2}
    MaxRound = 2
    VrfBits = 2
    MaxCandidates = 3
    None = None
    MaxMemoryLen = 100
    MaxGas = 30
    U256Bytes = 2
    TransactionFee = 1
    FewAccounts = 2
    MaxTotalAccounts = 3
    SimpleTxSize = 2
    Erc20TxSize = 1
    StartBalance = 3
    StartErc20Balance = 2
    BlockSizeLimits = {4}
    MaxSimpleTxs = 2
    MaxErc20Txs = 2
    MaxCalls = 2
SPECIFICATION Spec
SYMMETRY AuthorSymmetry

INVARIANTS MemoryWordsRoundTrip GasUsedWithinRefundCap PushCountNeverOverstates ConvertU256Preserves IndexMatchesAccounts NoncesConsecutive
PROPERTIES VoteIsFirstMinimum VoteIsForCurrentRound
