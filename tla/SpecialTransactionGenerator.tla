-------------------- MODULE SpecialTransactionGenerator --------------------
(***************************************************************************)
(* SpecialTransactionGenerator (src/transactiongen/src/lib.rs, lines       *)
(* 397-631): a generator of simple transfers and ERC20 transfers between   *)
(* accounts it creates itself, keeping its own record of every account's   *)
(* balance, nonce and ERC20 balance. Each call of generate_transactions     *)
(* runs two loops drawing random senders, values and receivers until it has *)
(* made the asked-for number of transactions or the block is full.         *)
(*                                                                         *)
(* The code is sequential and its only inputs are the call's arguments and *)
(* random numbers, so it is modelled as an operator: Step(s) is the set of  *)
(* states one loop iteration can lead to, for every random draw, and       *)
(* Reachable the states any sequence of calls reaches from new().          *)
(* Addresses are naturals: Random.generate gives one not used before.      *)
(* Amounts are scaled down with the fee (100000 in the code), and a        *)
(* signed transaction's RLP size is one constant per kind (in the code it  *)
(* varies by a few bytes with the value and the nonce).                    *)
(***************************************************************************)
EXTENDS Integers, Sequences, SequencesExt

CONSTANTS
    TransactionFee,     \* transaction_fee (gas 100000 at gas price 1)
    FewAccounts,        \* below 10 accounts every transfer makes a new one
    MaxTotalAccounts,   \* MAX_TOTAL_ACCOUNTS (100000)
    SimpleTxSize,       \* rlp_bytes().len() of a simple transfer
    Erc20TxSize,        \* rlp_bytes().len() of an ERC20 transfer
    StartBalance,       \* new()'s start_balance
    StartErc20Balance,  \* new()'s start_erc20_balance
    BlockSizeLimits,    \* block_size_limit arguments of a call
    MaxSimpleTxs,       \* num_txs_simple arguments are 0..MaxSimpleTxs
    MaxErc20Txs,        \* num_txs_erc20 arguments are 0..MaxErc20Txs
    MaxCalls            \* calls of generate_transactions explored

ASSUME TransactionFee \in Nat /\ StartBalance \in Nat /\ StartErc20Balance \in Nat
ASSUME BlockSizeLimits \subseteq Nat /\ MaxCalls \in Nat

(***************************************************************************)
(* A generator state: the fields of the struct (accounts, whose domain is  *)
(* the address set, and address_by_index), the next fresh address, where   *)
(* the current call is (phase), its arguments as they count down, and,    *)
(* kept for the properties, every transaction returned so far (sent).      *)
(***************************************************************************)

\* new(), lines 408-449: the start account at index 0.
New ==
    [accounts         |-> 0 :> [balance |-> StartBalance, nonce |-> 0,
                                erc20 |-> StartErc20Balance],
     address_by_index |-> <<0>>,
     fresh            |-> 1,
     phase            |-> "idle",
     limit            |-> 0,
     num_simple       |-> 0,
     num_erc20        |-> 0,
     calls            |-> 0,
     sent             |-> <<>>]

\* Mutation of SwapRemoveAccount: the last slot is popped instead.
SwapRemoveAccountPopsLast(s, i) ==
    LET a == s.address_by_index[i + 1] IN
    [s EXCEPT !.accounts = [x \in DOMAIN @ \ {a} |-> @[x]],
              !.address_by_index = Front(@)]

\* accounts.remove(sender) and address_by_index.swap_remove(i) (lines
\* 479-482 and 571-574): the last address moves into slot i.
SwapRemoveAccount(s, i) ==
    LET idx == s.address_by_index
        a == idx[i + 1]
        n == Len(idx)
    IN [s EXCEPT !.accounts = [x \in DOMAIN @ \ {a} |-> @[x]],
                 !.address_by_index =
                     IF i = n - 1 THEN Front(idx)
                     ELSE [Front(idx) EXCEPT ![i + 1] = idx[n]]]

\* Lines 489-521: the receiver, with the state after choosing it. Below
\* FewAccounts accounts (and within MAX_TOTAL_ACCOUNTS) it is a new empty
\* account, inserted into accounts and address_by_index at once; above, a
\* one-in-ten draw picks between a new one and any listed account.
Receivers(s) ==
    LET n == Len(s.address_by_index)
        fresh == s.fresh
        withNew == [s EXCEPT !.accounts = @ @@ (fresh :> [balance |-> 0,
                                                 nonce |-> 0, erc20 |-> 0]),
                             !.address_by_index = Append(@, fresh),
                             !.fresh = @ + 1]
        newOnes == IF n <= MaxTotalAccounts THEN {<<withNew, fresh>>} ELSE {}
        existing == {<<s, s.address_by_index[j]>> : j \in 1..n}
    IN IF n <= MaxTotalAccounts /\ n < FewAccounts THEN newOnes
       ELSE newOnes \cup existing

\* A transaction is sent (lines 536-546 and 616-626): the limit shrinks by
\* its size, the sender's nonce goes up and the call's count down, and it
\* joins the result.
Send(s, a, size, count) ==
    [s EXCEPT !.limit = @ - size,
              !.accounts[a].nonce = @ + 1,
              !.sent = Append(@, [from |-> a, nonce |-> s.accounts[a].nonce]),
              ![count] = @ - 1]

\* Mutation of SimpleSend: the nonce goes up before the room check.
SimpleSendBumpsOnFullBlock(t, a, v, r) ==
    IF t.limit <= SimpleTxSize
    THEN [t EXCEPT !.phase = "erc20", !.accounts[a].nonce = @ + 1]
    ELSE LET u == Send(t, a, SimpleTxSize, "num_simple")
         IN [u EXCEPT !.accounts[a].balance = @ - v,
                      !.accounts[r].balance = @ + v]

\* Lines 523-547: the transfer of value v from a to r. When the block has
\* no room the simple loop ends (an inserted receiver stays in accounts),
\* otherwise value moves in the record: the fee is not debited.
SimpleSend(t, a, v, r) ==
    IF t.limit <= SimpleTxSize THEN [t EXCEPT !.phase = "erc20"]
    ELSE LET u == Send(t, a, SimpleTxSize, "num_simple")
         IN [u EXCEPT !.accounts[a].balance = @ - v,
                      !.accounts[r].balance = @ + v]

\* A panic ends the thread: random % 0, or an unwrap of an address that
\* accounts does not hold (lines 462-469, 541, 560, 587-588 and 621).
Panic(s) == [s EXCEPT !.phase = "panic"]

\* One iteration of the simple loop, lines 459-547: a random sender; a
\* sender at or below the fee is dropped, otherwise a random value below
\* its balance goes to a receiver.
SimpleStep(s) ==
    LET n == Len(s.address_by_index) IN
    IF n = 0 THEN {Panic(s)}
    ELSE UNION {
        LET a == s.address_by_index[i + 1]
            bal == s.accounts[a].balance
        IN IF a \notin DOMAIN s.accounts THEN {Panic(s)}
           ELSE IF bal <= TransactionFee THEN {SwapRemoveAccount(s, i)}
           ELSE {IF tr[2] \in DOMAIN tr[1].accounts
                 THEN SimpleSend(tr[1], a, v, tr[2]) ELSE Panic(s)
                 : v \in 0..(bal - 1), tr \in Receivers(s)}
        : i \in 0..(n - 1)}

\* One iteration of the ERC20 loop, lines 549-627. A sender with no ERC20
\* balance, or a receiver drawn at the sender's index, continues without
\* changing anything; if the block has no room the call returns.
Erc20Draws(s) ==
    LET n == Len(s.address_by_index) IN
    UNION {
        LET a == s.address_by_index[i + 1]
            acct == s.accounts[a]
        IN IF a \notin DOMAIN s.accounts THEN {Panic(s)}
           ELSE IF acct.balance <= TransactionFee THEN {SwapRemoveAccount(s, i)}
           ELSE IF acct.erc20 = 0 THEN {s}
           ELSE UNION {
               LET r == s.address_by_index[j + 1]
                   u == Send(s, a, Erc20TxSize, "num_erc20")
               IN IF j = i THEN {s}
                  ELSE IF r \notin DOMAIN s.accounts THEN {Panic(s)}
                  ELSE IF s.limit <= Erc20TxSize THEN {[s EXCEPT !.phase = "idle"]}
                  ELSE {[u EXCEPT !.accounts[a].erc20 = @ - v,
                                  !.accounts[r].erc20 = @ + v]}
               : v \in 0..(acct.erc20 - 1), j \in 0..(n - 1)}
        : i \in 0..(n - 1)}

\* The loop goes on from a draw that changed nothing, so only the draws
\* that change the state lead anywhere; when none does, the loop spins
\* forever ("stuck").
Erc20Step(s) ==
    LET moves == Erc20Draws(s) \ {s} IN
    IF Len(s.address_by_index) = 0 THEN {Panic(s)}
    ELSE IF moves = {} THEN {[s EXCEPT !.phase = "stuck"]}
    ELSE moves

\* generate_transactions, lines 452-630: a call with its arguments, the
\* two loops while their counts are positive, and the return.
Step(s) ==
    CASE s.phase = "idle" /\ s.calls < MaxCalls ->
            {[s EXCEPT !.phase = "simple", !.limit = b,
                       !.num_simple = ns, !.num_erc20 = ne, !.calls = @ + 1]
             : b \in BlockSizeLimits, ns \in 0..MaxSimpleTxs,
               ne \in 0..MaxErc20Txs}
      [] s.phase = "simple" /\ s.num_simple = 0 -> {[s EXCEPT !.phase = "erc20"]}
      [] s.phase = "simple" -> SimpleStep(s)
      [] s.phase = "erc20" /\ s.num_erc20 = 0 -> {[s EXCEPT !.phase = "idle"]}
      [] s.phase = "erc20" -> Erc20Step(s)
      [] OTHER -> {}

RECURSIVE Explore(_, _)
Explore(frontier, seen) ==
    IF frontier = {} THEN seen
    ELSE LET next == UNION {Step(t) : t \in frontier} \ seen
         IN Explore(next, seen \cup next)

\* Every state a sequence of up to MaxCalls calls reaches from new().
Reachable == Explore({New}, {New})

-----------------------------------------------------------------------------
(* Properties                                                               *)

\* The transactions of a state's result log sent by a.
SentBy(s, a) == SelectSeq(s.sent, LAMBDA tx : tx.from = a)

\* Every lookup of an index drawn from address_by_index finds its account
\* (the unwraps at lines 464, 469, 497, 538-541, 554, 560, 588 and
\* 618-621 never panic):
\* after any mix of swap_removes of dropped senders and pushes of new
\* receivers, address_by_index lists each account of the map exactly once.
IndexMatchesAccountsCheck ==
    \A s \in Reachable :
        /\ IsInjective(s.address_by_index)
        /\ Range(s.address_by_index) = DOMAIN s.accounts

\* The transactions an account sends, over all calls and both loops, carry
\* the nonces 0, 1, 2, ... in the order they are returned, and its record
\* holds the next one: the generator itself leaves no gap and reuses no
\* nonce. (Whether the chain accepts each one is another matter: the fee
\* is not in the balance record.)
NoncesConsecutiveCheck ==
    \A s \in Reachable :
        \A a \in DOMAIN s.accounts \cup {tx.from : tx \in Range(s.sent)} :
            LET mine == SentBy(s, a) IN
            /\ \A k \in 1..Len(mine) : mine[k].nonce = k - 1
            /\ a \in DOMAIN s.accounts => s.accounts[a].nonce = Len(mine)

=============================================================================
