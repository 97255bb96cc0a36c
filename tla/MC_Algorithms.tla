---------------------------- MODULE MC_Algorithms ----------------------------
(***************************************************************************)
(* The pure choices of the system checked against their references: the   *)
(* VRF proposer's vote, inside the behaviours of its callers, the geth     *)
(* tracer's helper functions and the special transaction generator's      *)
(* reachable states. The latter two are constant formulas that             *)
(* TLC computes once; each is asserted in every state of the run, next to  *)
(* the type of the vote, so that a failing check is reported by name as a  *)
(* violated invariant.                                                      *)
(***************************************************************************)
EXTENDS VrfProposer, GethTracerUtils, SpecialTransactionGenerator, TLC

\* Authors only tell blocks of equal round and output apart.
AuthorSymmetry == Permutations(Authors)

VoteTyped == vote \in Blocks \cup {None}

\* convert_memory loses and repeats no byte at a word boundary, and every
\* word but the last holds 32 bytes (MemoryWordsRoundTripCheck).
MemoryWordsRoundTrip == VoteTyped /\ MemoryWordsRoundTripCheck

\* gas_used charges between four fifths of the gas spent and all of it,
\* so its u64 subtraction never wraps (GasUsedWithinRefundCapCheck).
GasUsedWithinRefundCap == VoteTyped /\ GasUsedWithinRefundCapCheck

\* stack_push_count never shows more pushed items than an opcode pushes,
\* and shows all of them for PUSH, DUP and SWAP
\* (PushCountNeverOverstatesCheck).
PushCountNeverOverstates == VoteTyped /\ PushCountNeverOverstatesCheck

\* convert_u256 keeps every value (ConvertU256PreservesCheck).
ConvertU256Preserves == VoteTyped /\ ConvertU256PreservesCheck

\* SpecialTransactionGenerator's address_by_index lists every account of
\* its map once, after any drops and new receivers
\* (IndexMatchesAccountsCheck).
IndexMatchesAccounts == VoteTyped /\ IndexMatchesAccountsCheck

\* Each account's returned transactions carry consecutive nonces from 0,
\* and its record holds the next (NoncesConsecutiveCheck).
NoncesConsecutive == VoteTyped /\ NoncesConsecutiveCheck
=============================================================================
