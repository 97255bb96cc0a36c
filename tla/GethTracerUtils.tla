--------------------------- MODULE GethTracerUtils ---------------------------
(***************************************************************************)
(* The helper functions of the geth-style tracer                           *)
(* (src/crates/cfxcore/execute-helper/src/observer/geth_tracer/utils.rs):  *)
(* memory split into hex words, gas used after refunds, the number of      *)
(* stack items a vmTrace shows an opcode pushing, and the U256 conversion  *)
(* between the Conflux and revm integer types. Each is a constant-level    *)
(* operator, checked against a reference definition over bounded inputs.  *)
(***************************************************************************)
EXTENDS Integers, Sequences, FiniteSets, SequencesExt

CONSTANTS
    MaxMemoryLen,  \* memory lengths checked are 0..MaxMemoryLen
    MaxGas,        \* spent and refunded gas checked are 0..MaxGas
    U256Bytes      \* width of the U256 conversion (32 bytes in the code)

ASSUME MaxMemoryLen \in Nat /\ MaxGas \in Nat /\ U256Bytes \in Nat \ {0}

MinOf(a, b) == IF a <= b THEN a ELSE b

-----------------------------------------------------------------------------
(* convert_memory                                                           *)

HexChars == <<"0", "1", "2", "3", "4", "5", "6", "7",
              "8", "9", "a", "b", "c", "d", "e", "f">>

\* hex::encode: two lowercase digits per byte, high nibble first.
HexEncode(bytes) ==
    FlattenSeq([i \in DOMAIN bytes |->
                   <<HexChars[(bytes[i] \div 16) + 1], HexChars[(bytes[i] % 16) + 1]>>])

\* Mutation of ConvertMemory: each word ends one byte early.
ConvertMemoryShortWord(data) ==
    LET n == Len(data)
        starts == {idx \in 0..(n - 1) : idx % 32 = 0}
        word(k) == LET idx == 32 * (k - 1)
                   IN HexEncode(SubSeq(data, idx + 1, MinOf(idx + 31, n)))
    IN [k \in 1..Cardinality(starts) |-> word(k)]

\* convert_memory: for idx in (0..len).step_by(32), the bytes
\* data[idx..min(idx + 32, len)], hex-encoded.
ConvertMemory(data) ==
    LET n == Len(data)
        starts == {idx \in 0..(n - 1) : idx % 32 = 0}
        word(k) == LET idx == 32 * (k - 1)
                   IN HexEncode(SubSeq(data, idx + 1, MinOf(idx + 32, n)))
    IN [k \in 1..Cardinality(starts) |-> word(k)]

-----------------------------------------------------------------------------
(* gas_used                                                                 *)

\* Mutation of GasUsed: the refund is capped at a quarter.
GasUsedQuarterCap(spent, refunded) ==
    spent - MinOf(refunded, spent \div 4)

\* spent - min(refunded, spent / 5), in u64.
GasUsed(spent, refunded) ==
    LET refund_quotient == 5
    IN spent - MinOf(refunded, spent \div refund_quotient)

-----------------------------------------------------------------------------
(* stack_push_count                                                         *)

\* The opcodes the match arm listing single pushes names, by value.
SinglePushOps ==
    { \h35, \h54, \h51, \h36,  \* CALLDATALOAD SLOAD MLOAD CALLDATASIZE
      \h10, \h11, \h04, \h05,  \* LT GT DIV SDIV
      \h1d, \h16, \h14, \h34,  \* SAR AND EQ CALLVALUE
      \h15, \h01, \h0a, \h33,  \* ISZERO ADD EXP CALLER
      \h20, \h03, \h30, \h5a,  \* KECCAK256 SUB ADDRESS GAS
      \h02, \h3d, \h19, \h1c,  \* MUL RETURNDATASIZE NOT SHR
      \h1b, \h3b, \h12, \h17,  \* SHL EXTCODESIZE SLT OR
      \h43, \h58, \h42, \h31,  \* NUMBER PC TIMESTAMP BALANCE
      \h47, \h09, \h08, \h48,  \* SELFBALANCE MULMOD ADDMOD BASEFEE
      \h40, \h1a, \h18, \h32,  \* BLOCKHASH BYTE XOR ORIGIN
      \h38, \h06, \h0b, \h45,  \* CODESIZE MOD SIGNEXTEND GASLIMIT
      \h44, \h13, \h3a, \h59,  \* DIFFICULTY SGT GASPRICE MSIZE
      \h3f, \h07, \h46, \h41 } \* EXTCODEHASH SMOD CHAINID COINBASE

PUSH0 == \h5f
PUSH32 == \h7f
DUP1 == \h80
DUP16 == \h8f
SWAP1 == \h90
SWAP16 == \h9f

\* Mutation of StackPushCount: SWAPn is shown as n + 2 items.
StackPushCountSwapOffByOne(step_op) ==
    CASE step_op \in PUSH0..PUSH32  -> 1
      [] step_op \in SWAP1..SWAP16  -> (step_op - SWAP1) + 3
      [] step_op \in DUP1..DUP16    -> (step_op - DUP1) + 2
      [] step_op \in SinglePushOps  -> 1
      [] OTHER                      -> 0

\* stack_push_count: PUSH* push one item, SWAPn and DUPn are shown as
\* n + 1 items as in a parity vmTrace, the listed opcodes push one, and
\* every other opcode none.
StackPushCount(step_op) ==
    CASE step_op \in PUSH0..PUSH32  -> 1
      [] step_op \in SWAP1..SWAP16  -> (step_op - SWAP1) + 2
      [] step_op \in DUP1..DUP16    -> (step_op - DUP1) + 2
      [] step_op \in SinglePushOps  -> 1
      [] OTHER                      -> 0

-----------------------------------------------------------------------------
(* convert_u256                                                             *)

\* Mutation of ToBigEndian: least significant byte first.
ToLittleEndian(u) == [i \in 1..U256Bytes |-> (u \div 256^(i - 1)) % 256]

\* U256::to_big_endian into a U256Bytes-byte buffer: most significant first.
ToBigEndian(u) == [i \in 1..U256Bytes |-> (u \div 256^(U256Bytes - i)) % 256]

\* RU256::from_be_bytes.
FromBeBytes(bytes) ==
    FoldLeft(LAMBDA acc, b : acc * 256 + b, 0, bytes)

\* convert_u256: to_big_endian, then from_be_bytes.
ConvertU256(u) == FromBeBytes(ToBigEndian(u))

-----------------------------------------------------------------------------
(* References and properties                                                *)

\* Memories of every length up to MaxMemoryLen, and one holding each byte.
TestMemories ==
    {[i \in 1..n |-> (7 * i) % 256] : n \in 0..MaxMemoryLen}
        \cup {[i \in 1..256 |-> i - 1]}

\* The byte a pair of hex digits stands for.
HexValue(c) == CHOOSE v \in 0..15 : HexChars[v + 1] = c
HexDecode(chars) ==
    [i \in 1..(Len(chars) \div 2) |->
        16 * HexValue(chars[2 * i - 1]) + HexValue(chars[2 * i])]

\* convert_memory loses and repeats no byte at a word boundary: the words,
\* joined and decoded, are the memory; every word but the last holds 32
\* bytes (64 digits) and none is empty, as geth's logger shows memory.
MemoryWordsRoundTripCheck ==
    \A data \in TestMemories :
        LET m == ConvertMemory(data) IN
        /\ HexDecode(FlattenSeq(m)) = data
        /\ \A k \in DOMAIN m : m[k] # <<>>
        /\ \A k \in 1..(Len(m) - 1) : Len(m[k]) = 64

\* gas_used charges at least four fifths of the gas spent and at most the
\* gas spent (EIP-3529's refund cap), so the u64 subtraction never wraps.
GasUsedWithinRefundCapCheck ==
    \A spent, refunded \in 0..MaxGas :
        LET g == GasUsed(spent, refunded) IN
        /\ 0 <= g /\ g <= spent
        /\ 5 * g >= 4 * spent

\* The number of items each opcode pushes (the yellow paper's alpha),
\* for the instruction set up to Cancun; undefined opcodes push none.
StackOutputs(op) ==
    CASE op \in (PUSH0..PUSH32) \cup {\h01, \h02, \h03, \h04, \h05, \h06,
                \h07, \h08, \h09, \h0a, \h0b} \cup (\h10..\h1d) \cup {\h20}
                \cup {\h30, \h31, \h32, \h33, \h34, \h35, \h36, \h38, \h3a,
                      \h3b, \h3d, \h3f} \cup (\h40..\h4a)
                \cup {\h51, \h54, \h58, \h59, \h5a, \h5c}
                \cup {\hf0, \hf1, \hf2, \hf4, \hf5, \hfa} -> 1
      [] op \in \h80..\h8f -> (op - \h7f) + 1   \* DUPn pushes n + 1
      [] op \in \h90..\h9f -> (op - \h8f) + 1   \* SWAPn leaves n + 1 changed
      [] OTHER            -> 0

\* A vmTrace step never shows more pushed items than the opcode pushes,
\* and shows all of them for PUSH, DUP and SWAP, whose count the doc
\* comment calls the weird cases.
PushCountNeverOverstatesCheck ==
    \A op \in 0..255 :
        /\ StackPushCount(op) <= StackOutputs(op)
        /\ op \in (PUSH0..PUSH32) \cup (DUP1..DUP16) \cup (SWAP1..SWAP16)
               => StackPushCount(op) = StackOutputs(op)

\* convert_u256 keeps the value: byte order is preserved across the two
\* integer types for every U256Bytes-byte value.
ConvertU256PreservesCheck ==
    \A u \in 0..(256^U256Bytes - 1) : ConvertU256(u) = u

=============================================================================
