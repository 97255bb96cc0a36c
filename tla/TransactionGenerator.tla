------------------------ MODULE TransactionGenerator ------------------------
(***************************************************************************)
(* The workload thread of the test transaction generator                   *)
(* (src/transactiongen/src/lib.rs, TransactionGenerator::                  *)
(* generate_transactions and stop).                                        *)
(*                                                                         *)
(* The thread waits until the chain funds the initial account, creates     *)
(* account_count accounts funded from it, waits for the last one to be     *)
(* funded, and then sends transactions between random accounts of its own *)
(* SecretStore. It keeps its own record of every account's balance and     *)
(* nonce (balance_map, nonce_map), debited by the 21000 gas of each        *)
(* transaction. U256 arithmetic panics on underflow, which ends the        *)
(* thread. stop() is called from another thread at any time.               *)
(*                                                                         *)
(* Keys are model values: Random.generate gives one not used before. A     *)
(* random index into the store is any account in it. The chain is the     *)
(* environment: a poll of an account's balance may or may not see it.      *)
(***************************************************************************)
EXTENDS Integers, FiniteSets, TLC

CONSTANTS
    InitialAccount,   \* initial_key_pair's address
    FreshAccounts,    \* keys Random.generate can return
    AccountCount,     \* tx_config.account_count
    Fundings,         \* balances the chain may give the initial account
    MaxWait,          \* the 200 polls of the setup wait
    MaxTxs,           \* bound on the transactions of the workload loop
    None              \* Option::None

ASSUME AccountCount \in Nat /\ Fundings \subseteq Nat \ {0}
ASSUME MaxWait \in Nat /\ MaxTxs \in Nat

Gas == 21000

VARIABLES
    gen_state,     \* TransGenState behind the RwLock
    pc,            \* where the generating thread is
    store,         \* the accounts of the thread's SecretStore
    balance_map,   \* the thread's record of balances
    nonce_map,     \* the thread's record of nonces
    last_account,  \* the last account created in setup
    wait_count,    \* polls of the setup wait so far
    tx_n           \* transactions of the workload loop so far

vars == <<gen_state, pc, store, balance_map, nonce_map, last_account,
          wait_count, tx_n>>

Running == gen_state = "Start"

-----------------------------------------------------------------------------

Init ==
    /\ gen_state = "Start"
    /\ pc = "wait_initial"
    /\ store = {InitialAccount}
    /\ balance_map = <<>>
    /\ nonce_map = <<>>
    /\ last_account = None
    /\ wait_count = 0
    /\ tx_n = 0

\* stop(): another thread sets Stop.
Stop ==
    /\ gen_state = "Start"
    /\ gen_state' = "Stop"
    /\ UNCHANGED <<pc, store, balance_map, nonce_map, last_account,
                   wait_count, tx_n>>

\* Lines 190-215: a poll that sees the initial account funded records its
\* balance and nonce 0. A poll that sees nothing sleeps and polls again;
\* this loop does not look at gen_state.
WaitInitialTx(b) ==
    /\ pc = "wait_initial"
    /\ balance_map' = InitialAccount :> b
    /\ nonce_map' = InitialAccount :> 0
    /\ pc' = "setup"
    /\ UNCHANGED <<gen_state, store, last_account, wait_count, tx_n>>

\* Lines 220-223 and 297-300: each iteration first returns on Stop.
StopCheck ==
    /\ pc \in {"setup", "work"}
    /\ ~Running
    /\ pc' = "done"
    /\ UNCHANGED <<gen_state, store, balance_map, nonce_map, last_account,
                   wait_count, tx_n>>

\* Lines 225-244 and 302-318 with the transaction of 245-255 and 349-370:
\* a fresh account r gets an account_count-th of the initial account's
\* recorded balance, and the initial account pays it plus the gas, with
\* U256 subtraction, then its nonce goes up.
FundNewAccount(r) ==
    LET bal == balance_map[InitialAccount]
        x == bal \div AccountCount
    IN
    /\ r \in FreshAccounts \ DOMAIN nonce_map
    /\ store' = store \cup {r}
    /\ IF x + Gas > bal
       THEN /\ pc' = "underflow"
            /\ nonce_map' = nonce_map @@ (r :> 0)
            /\ UNCHANGED balance_map
       ELSE /\ balance_map' = [balance_map EXCEPT ![InitialAccount] = @ - (x + Gas)]
                                 @@ (r :> x)
            /\ nonce_map' = [nonce_map EXCEPT ![InitialAccount] = @ + 1]
                               @@ (r :> 0)
            /\ UNCHANGED pc

\* Setup loop, lines 224-261: one account created while the store has
\* fewer than account_count.
SetupCreate(r) ==
    /\ pc = "setup" /\ Running
    /\ Cardinality(store) < AccountCount
    /\ FundNewAccount(r)
    /\ last_account' = r
    /\ UNCHANGED <<gen_state, wait_count, tx_n>>

\* Setup loop, lines 261-291: poll last_account (unwrap panics on None)
\* until the chain shows it funded or 200 polls have passed.
SetupWait(seen) ==
    /\ pc = "setup" /\ Running
    /\ Cardinality(store) >= AccountCount
    /\ IF last_account = None
       THEN pc' = "unwrap_none" /\ UNCHANGED wait_count
       ELSE IF wait_count < MaxWait /\ ~seen
            THEN wait_count' = wait_count + 1 /\ UNCHANGED pc
            ELSE pc' = "work" /\ UNCHANGED wait_count
    /\ UNCHANGED <<gen_state, store, balance_map, nonce_map, last_account, tx_n>>

\* Workload loop, lines 302-318: the store lost an account, so a new one
\* is funded from the initial account as in setup.
WorkCreate(r) ==
    /\ pc = "work" /\ Running
    /\ Cardinality(store) < AccountCount
    /\ tx_n < MaxTxs
    /\ FundNewAccount(r)
    /\ tx_n' = IF pc' = "underflow" THEN tx_n ELSE tx_n + 1
    /\ UNCHANGED <<gen_state, last_account, wait_count>>

\* Workload loop, lines 320-348 and 349-370: a random sender s and
\* receiver r of the store. A sender below 42000 is removed from the store
\* (the loop ends when the store is empty); otherwise it pays the gas of a
\* zero-value transfer and its nonce goes up.
WorkTransfer(s, r) ==
    /\ pc = "work" /\ Running
    /\ Cardinality(store) >= AccountCount
    /\ s \in store /\ r \in store
    /\ IF balance_map[s] < 2 * Gas
       THEN /\ store' = store \ {s}
            /\ pc' = IF store' = {} THEN "done" ELSE pc
            /\ UNCHANGED <<balance_map, nonce_map, tx_n>>
       ELSE /\ tx_n < MaxTxs
            /\ balance_map' = [balance_map EXCEPT ![s] = @ - Gas]
            /\ nonce_map' = [nonce_map EXCEPT ![s] = @ + 1]
            /\ tx_n' = tx_n + 1
            /\ UNCHANGED <<store, pc>>
    /\ UNCHANGED <<gen_state, last_account, wait_count>>

Next ==
    \/ Stop
    \/ StopCheck
    \/ \E b \in Fundings : WaitInitialTx(b)
    \/ \E r \in FreshAccounts : SetupCreate(r) \/ WorkCreate(r)
    \/ \E seen \in BOOLEAN : SetupWait(seen)
    \/ \E s, r \in store : WorkTransfer(s, r)

Spec == Init /\ [][Next]_vars

-----------------------------------------------------------------------------
(* Properties                                                               *)

\* The generator only debits what its own record says an account holds:
\* the workload loop skips a sender below 42000 (twice the gas) for this
\* reason. No sequence of transfers, removals and refills makes a U256
\* subtraction on balance_map underflow and panic the thread.
DebitsCovered == pc # "underflow"

=============================================================================
