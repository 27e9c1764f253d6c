-------------------------------- MODULE Calldata --------------------------------
(* What the bot packs into the calldata of a frontrun or a backrun             *)
(* (src/bot/src/utils/tx_builder/sandwich/v2.rs, v3.rs, utils/encode_packed.rs *)
(* and make_mega_sandwich, which strings payloads together), and what the      *)
(* contract (src/contract/src/sandwich.huff) makes of it.                      *)
(*                                                                             *)
(* The two sides share no code.  The bot writes the byte that is jumped to,    *)
(* the place in memory where the contract is to store an amount, and fields    *)
(* whose offsets the contract knows; the contract keeps its place in the       *)
(* calldata in memory between two swaps, and uses memory again that the swap   *)
(* before has written.                                                         *)
(*                                                                             *)
(* A byte is <<what, whose, which>>: the i-th byte of the pool of the k-th     *)
(* swap is <<"pool", k, i>>, the number n is <<"num", 0, n>>.                  *)
EXTENDS Naturals, Sequences, FiniteSets

CONSTANTS
    Shift,          \* byte_shift of an amount: what encode_four_bytes may come to
    MaxSwaps        \* bound: swaps in one transaction

ASSUME CalldataAssumption == Shift \subseteq 0..28 /\ MaxSwaps \in Nat \ {0}

VARIABLES
    tx,             \* the transaction the bot wants
    onTime,         \* whether it is in the block it is meant for
    data,           \* its calldata
    pc,             \* the routine that runs, or how the transaction ended
    at,             \* the place in the calldata it works on
    mem,            \* memory
    calls           \* what has been called, in order, and whether it succeeded

vars == <<tx, onTime, data, pc, at, mem, calls>>
input == <<tx, onTime, data>>
--------------------------------------------------------------------------------
\* Bytes and words.
Num(n) == <<"num", 0, n>>
Zeros(n) == [i \in 1..n |-> Num(0)]
Field(what, k, n) == [i \in 1..n |-> <<what, k, i>>]
Word(bytes) == Zeros(32 - Len(bytes)) \o bytes
Signature(f) == Field(f, 0, 4)

Pool(k) == Field("pool", k, 20)
Token(k) == Field("token", k, 20)
Hash(k) == Field("hash", k, 32)         \* of the pool's tokens and fee
Weth == Field("weth", 0, 20)
This == Field("this", 0, 20)
Block == Field("block", 0, 4)
Limit(flag) == Field(IF flag THEN "min" ELSE "max", 0, 32)

\* callvalue * 100000, and the nine bytes of an amount times 10^13
Value == Field("value", 1, 32)
Times(bytes) == [i \in 1..Len(bytes) |-> <<"scaled", bytes[i][2], bytes[i][3]>>]
--------------------------------------------------------------------------------
\* The bot.

\* A swap: buys with WETH or sells for it, WETH is token 0 or not, what is left out of the
\* amounts, and whether an amount of a single V3 sale fits six bytes.
Swap == [venue : {"V2", "V3"}, buys : BOOLEAN, weth0 : BOOLEAN,
         in : Shift, out : Shift, small : BOOLEAN]

Index(s, x) == CHOOSE i \in DOMAIN s : s[i] = x
V2Labels == <<"v2_output0", "v2_input0", "v2_output1", "v2_input1">>
V3Labels == <<"v3_output1_big", "v3_output0_big", "v3_output1_small", "v3_output0_small",
              "v3_input0", "v3_input1">>
MultiLabels == [multi_call_v2_input |-> 71, multi_call_v2_output |-> 76,
                multi_call_v3_input0 |-> 81, multi_call_v3_input1 |-> 86,
                multi_call_v3_output0 |-> 91, multi_call_v3_output1 |-> 96]

\* SandwichLogicV2::_find_swap_type(_multi): compares WETH with the other token.
V2SwapType(s, multi) ==
    IF multi THEN Num(MultiLabels[IF s.buys THEN "multi_call_v2_input" ELSE "multi_call_v2_output"])
    ELSE LET name == CASE s.buys /\ s.weth0 -> "v2_input0"
                       [] s.buys /\ ~s.weth0 -> "v2_input1"
                       [] ~s.buys /\ s.weth0 -> "v2_output0"
                       [] OTHER -> "v2_output1"
         IN  Num(6 + 5 * (Index(V2Labels, name) - 1))

\* SandwichLogicV3::_find_swap_type(_multi): compares the input with the output.
V3SwapType(s, multi) ==
    LET ascending == s.buys = s.weth0           \* input < output
        side == CASE s.buys /\ ascending -> "input0"
                  [] s.buys /\ ~ascending -> "input1"
                  [] ~s.buys /\ ascending -> "output1"
                  [] OTHER -> "output0"
        single == CASE side = "input0" -> "v3_input0"
                    [] side = "input1" -> "v3_input1"
                    [] side = "output1" -> IF s.small THEN "v3_output1_small" ELSE "v3_output1_big"
                    [] side = "output0" -> IF s.small THEN "v3_output0_small" ELSE "v3_output0_big"
        several == CASE side = "input0" -> "multi_call_v3_input0"
                     [] side = "input1" -> "multi_call_v3_input1"
                     [] side = "output1" -> "multi_call_v3_output1"
                     [] side = "output0" -> "multi_call_v3_output0"
    IN  Num(IF multi THEN MultiLabels[several] ELSE 26 + 5 * (Index(V3Labels, single) - 1))

\* encode_four_bytes: the memory offset, and four bytes of the amount
FourBytes(what, k, shift, isWethInput, isWethToken0) ==
    <<Num((IF isWethInput /\ ~isWethToken0 THEN 32 ELSE 64) - shift)>> \o Field(what, k, 4)

\* create_payload_weth_is_input(_multi), create_payload_weth_is_output(_multi)
V2Payload(s, k, multi) ==
    <<V2SwapType(s, multi)>> \o Pool(k) \o
    CASE s.buys /\ ~multi -> FourBytes("out", k, s.out, TRUE, s.weth0) \o Block
      [] s.buys /\ multi -> FourBytes("in", k, s.in, TRUE, FALSE) \o
                            FourBytes("out", k, s.out, TRUE, s.weth0)
      [] ~s.buys /\ ~multi -> Token(k) \o FourBytes("in", k, s.in, FALSE, s.weth0)
      [] OTHER -> Token(k) \o FourBytes("in", k, s.in, FALSE, FALSE) \o
                  FourBytes("out", k, s.out, TRUE, ~s.weth0)

V3Payload(s, k, multi) ==
    <<V3SwapType(s, multi)>> \o Pool(k) \o
    CASE s.buys /\ ~multi -> Hash(k) \o Block
      [] s.buys /\ multi -> Hash(k) \o FourBytes("in", k, s.in, FALSE, FALSE)
      [] ~s.buys /\ ~multi -> Token(k) \o Field("in", k, IF s.small THEN 6 ELSE 9) \o Hash(k)
      [] OTHER -> Hash(k) \o FourBytes("in", k, s.in, FALSE, FALSE) \o Token(k)

Payload(s, k, multi) == IF s.venue = "V2" THEN V2Payload(s, k, multi) ELSE V3Payload(s, k, multi)

Concat(payload) ==
    LET upTo[k \in 0..Len(payload)] == IF k = 0 THEN <<>> ELSE upTo[k - 1] \o payload[k]
    IN  upTo[Len(payload)]

\* One payload, or several one after the other.  The contract's tests put the check of the
\* block number before them; the bot never does.
Packed(t) ==
    (IF t.checked THEN <<Num(101)>> \o Block ELSE <<>>) \o
    Concat([k \in 1..Len(t.swaps) |-> Payload(t.swaps[k], k, t.multi)])
--------------------------------------------------------------------------------
\* The contract: where the bytes of the calldata lead to, and what is read and written.

\* The gates of MAIN in their order: six bytes before the first one, five for each.
Gates == <<"v2_output0", "v2_input0", "v2_output1", "v2_input1",
           "v3_output1_big", "v3_output0_big", "v3_output1_small", "v3_output0_small",
           "v3_input0", "v3_input1", "seppuku", "recover_eth", "recover_weth",
           "multi_call_v2_input", "multi_call_v2_output",
           "multi_call_v3_input0", "multi_call_v3_input1",
           "multi_call_v3_output0", "multi_call_v3_output1", "check_block_number">>
Gate(byte) ==
    LET n == byte[3]
    IN  IF byte[1] = "num" /\ n >= 6 /\ (n - 6) % 5 = 0 /\ (n - 6) \div 5 < Len(Gates)
        THEN Gates[(n - 6) \div 5 + 1] ELSE "revert"

V2Singles == {"v2_output0", "v2_output1", "v2_input0", "v2_input1"}
V2Multis == {"multi_call_v2_input", "multi_call_v2_output"}
V3Singles == {V3Labels[i] : i \in 1..Len(V3Labels)}
V3Multis == {"multi_call_v3_input0", "multi_call_v3_input1",
             "multi_call_v3_output0", "multi_call_v3_output1"}
Multis == V2Multis \cup V3Multis

\* calldataload; n bytes of the calldata from the a-th of the payload on
Load(a) == SubSeq(data \o Zeros(128), a + 1, a + 32)      \* zeros after its end
Read(a, n) == SubSeq(Load(at + a), 1, n)

\* mstore at a; the first n bytes of memory
Store(m, a, word) == SubSeq(m, 1, a) \o word \o SubSeq(m, a + 33, Len(m))
Bytes(m, n) == SubSeq(m, 1, n)

\* The single routines store what follows the memory offset up to the end of the word, the
\* others four bytes of it.
StoreAmount(m, a, base, masked) ==
    LET word == Load(at + a)
        amount == SubSeq(word, 2, IF masked THEN 5 ELSE 32)
    IN  Store(m, word[1][3] + base, amount \o Zeros(32 - Len(amount)))

Blank == Zeros(249)
StoreAll(m, writes) ==
    LET done[i \in 0..Len(writes)] ==
            IF i = 0 THEN m ELSE Store(done[i - 1], writes[i][1], writes[i][2])
    IN  done[Len(writes)]
--------------------------------------------------------------------------------
Called(to, bytes, ok) == calls' = Append(calls, [to |-> to, data |-> bytes, ok |-> ok])

\* Where each routine that checks it finds the block number.
BlockAt == [v2_input0 |-> 26, v2_input1 |-> 26, v3_input0 |-> 53, v3_input1 |-> 53,
            check_block_number |-> 1]

\* Mutant of WrongBlock: the offset of another routine.
WrongBlockElsewhere ==
    pc \in DOMAIN BlockAt /\ (Read(26, 4) # Block \/ ~onTime)

WrongBlock ==
    pc \in DOMAIN BlockAt /\ (Read(BlockAt[pc], 4) # Block \/ ~onTime)

GetOut ==
    /\ WrongBlock
    /\ pc' = "revert"
    /\ UNCHANGED <<input, at, mem, calls>>

\* multi_call_next: the offset goes to memory, from where the next routine takes it.
Goto(m, n) ==
    /\ at' = n
    /\ IF n = Len(data) THEN pc' = "stop" /\ mem' = m
       ELSE /\ pc' = Gate(Load(n)[1])
            /\ mem' = Store(m, 0, Word(<<Num(n \div 256), Num(n % 256)>>))

CheckBlock ==
    /\ pc = "check_block_number" /\ ~WrongBlock
    /\ Goto(mem, 5)
    /\ UNCHANGED <<input, calls>>
--------------------------------------------------------------------------------
\* V2: transfer the input to the pair, whatever comes of it, and swap.

Pays ==
    CASE pc \in {"v2_input0", "v2_input1"} ->
            [to |-> Weth, len |-> 100,
             mem |-> StoreAll(mem, <<<<0, Signature("transferFrom") \o Zeros(28)>>,
                        <<4, Word(This)>>, <<36, Word(Read(1, 20))>>, <<68, Value>>>>)]
      [] pc = "multi_call_v2_input" ->
            [to |-> Weth, len |-> 100,
             mem |-> StoreAmount(StoreAll(mem, <<<<0, Signature("transferFrom") \o Zeros(28)>>,
                        <<4, Word(This)>>, <<36, Word(Read(1, 20))>>>>), 21, 64, TRUE)]
      [] OTHER ->
            [to |-> Read(21, 20), len |-> 68,
             mem |-> StoreAmount(StoreAll(mem, <<<<0, Signature("transfer") \o Zeros(28)>>,
                        <<4, Word(Read(1, 20))>>>>), 41, 0, pc \in V2Multis)]

V2Transfer ==
    /\ pc \in V2Singles \cup V2Multis /\ ~WrongBlock
    /\ mem' = Pays.mem
    /\ \E ok \in BOOLEAN : Called(Pays.to, Bytes(mem', Pays.len), ok)
    /\ pc' = CASE pc = "v2_output0" -> "swap_output0" [] pc = "v2_output1" -> "swap_output1"
               [] pc = "v2_input0" -> "swap_input0" [] pc = "v2_input1" -> "swap_input1"
               [] pc = "multi_call_v2_input" -> "swap_multi_input"
               [] OTHER -> "swap_multi_output"
    /\ UNCHANGED <<input, at>>

V2Swaps == {"swap_output0", "swap_output1", "swap_input0", "swap_input1",
            "swap_multi_input", "swap_multi_output"}

\* The arguments of swap: the routine that buys token 0 for WETH stores the amount before
\* it clears what follows.
SwapArguments ==
    LET m == Store(mem, 0, Signature("swap") \o Zeros(28))
        zero == Zeros(32)
        tail == <<<<68, Word(This)>>, <<100, Word(<<Num(128)>>)>>>>
        cleared == StoreAll(m, <<<<4, zero>>, <<36, zero>>>>)
    IN  StoreAll(
            CASE pc = "swap_output0" -> StoreAll(m, <<<<4, Value>>, <<36, zero>>>>)
              [] pc = "swap_output1" -> StoreAll(m, <<<<4, zero>>, <<36, Value>>>>)
              [] pc = "swap_input0" -> StoreAmount(cleared, 21, 0, FALSE)
              [] pc = "swap_input1" -> Store(StoreAmount(Store(m, 4, zero), 21, 0, FALSE), 36, zero)
              [] pc = "swap_multi_input" -> StoreAmount(cleared, 26, 0, TRUE)
              [] pc = "swap_multi_output" -> StoreAmount(cleared, 46, 0, TRUE),
            tail)

\* Mutant of Cleaned: what another kind of swap has written is left.
CleanedLess(m) ==
    IF pc \in V3Multis THEN StoreAll(m, [i \in 1..5 |-> <<<<4, 36, 68, 100, 164>>[i], Zeros(32)>>])
    ELSE StoreAll(m, [i \in 1..3 |-> <<<<36, 68, 100>>[i], Zeros(32)>>])

\* "clean memory", before the next swap
Cleaned(m) ==
    LET places == CASE pc \in V2Swaps -> <<36, 68, 100>>
                    [] pc = "multi_call_v3_input1" -> <<4, 68, 100, 132, 164, 180, 196, 217>>
                    [] OTHER -> <<4, 36, 68, 100, 132, 164, 180, 196, 217>>
    IN  StoreAll(m, [i \in 1..Len(places) |-> <<places[i], Zeros(32)>>])

\* Mutant of PayloadLength: a V3 sale one byte longer than it is.
PayloadLengthLong ==
    CASE pc = "swap_multi_input" -> 31
      [] pc = "swap_multi_output" -> 51
      [] pc \in {"multi_call_v3_input0", "multi_call_v3_input1"} -> 58
      [] pc \in {"multi_call_v3_output0", "multi_call_v3_output1"} -> 79

\* The length of the payload, which the next one starts after.
PayloadLength ==
    CASE pc = "swap_multi_input" -> 31
      [] pc = "swap_multi_output" -> 51
      [] pc \in {"multi_call_v3_input0", "multi_call_v3_input1"} -> 58
      [] pc \in {"multi_call_v3_output0", "multi_call_v3_output1"} -> 78

\* Mutant of V2Swap: the result of a swap that is not the last one is dropped.
V2SwapAnyway ==
    /\ pc \in V2Swaps
    /\ \E ok \in BOOLEAN :
          /\ Called(Read(1, 20), Bytes(SwapArguments, 164), ok)
          /\ IF pc \in {"swap_multi_input", "swap_multi_output"}
             THEN Goto(Cleaned(SwapArguments), at + PayloadLength)
             ELSE pc' = "stop" /\ mem' = SwapArguments /\ UNCHANGED at
    /\ UNCHANGED input

V2Swap ==
    /\ pc \in V2Swaps
    /\ \E ok \in BOOLEAN :
          /\ Called(Read(1, 20), Bytes(SwapArguments, 164), ok)
          /\ \/ ok /\ pc \in {"swap_multi_input", "swap_multi_output"}
                /\ Goto(Cleaned(SwapArguments), at + PayloadLength)
             \/ /\ ~ok \/ pc \notin {"swap_multi_input", "swap_multi_output"}
                /\ pc' = IF ok THEN "stop" ELSE "revert"
                /\ mem' = SwapArguments /\ UNCHANGED at
    /\ UNCHANGED input
--------------------------------------------------------------------------------
\* V3: swap, and pay when the pool calls back.

ZeroForOne == pc \in {"v3_input0", "v3_output1_small", "v3_output1_big",
                      "multi_call_v3_input0", "multi_call_v3_output1"}
HashAt == CASE pc \in {"v3_output0_small", "v3_output1_small"} -> 47
            [] pc \in {"v3_output0_big", "v3_output1_big"} -> 50
            [] OTHER -> 21
InputToken == CASE pc \in {"multi_call_v3_output0", "multi_call_v3_output1"} -> Read(58, 20)
                [] pc \in V3Singles \ {"v3_input0", "v3_input1"} -> Read(21, 20)
                [] OTHER -> Weth

V3Amount(m) ==
    CASE pc \in V3Multis -> StoreAmount(m, 53, 32, TRUE)
      [] pc \in {"v3_input0", "v3_input1"} -> Store(m, 68, Value)
      [] pc \in {"v3_output0_small", "v3_output1_small"} -> Store(m, 68, Word(Read(41, 6)))
      [] OTHER -> Store(m, 68, Word(Times(Read(41, 9))))

V3Arguments ==
    LET m == StoreAll(mem, <<<<0, Signature("v3swap") \o Zeros(28)>>, <<4, Word(This)>>>>)
        flagged == IF ZeroForOne THEN Store(m, 36, Word(<<Num(1)>>)) ELSE m
    IN  StoreAll(V3Amount(flagged),
            <<<<100, Limit(ZeroForOne)>>, <<132, Word(<<Num(160)>>)>>, <<164, Word(<<Num(53)>>)>>,
              <<196, <<Num(IF ZeroForOne THEN 1 ELSE 0)>> \o InputToken \o Zeros(11)>>,
              <<217, Read(HashAt, 32)>>>>)

\* uniswap_v3_callback, in a frame of its own: the last 53 bytes are what swap was given.
\* The pool is told by its hash, and paid what it says in the token it was told.
Callback(k, bytes) ==
    LET given == SubSeq(bytes, 197, 249)
    IN  [valid |-> SubSeq(given, 22, 53) = Hash(k),
         to |-> SubSeq(given, 2, 21),
         data |-> Signature("transfer") \o Word(Pool(k)) \o
                  Field(IF given[1] = Num(1) THEN "delta0" ELSE "delta1", k, 32)]

\* The pool that is called is that of some swap; it calls back, or refuses.
V3Swap ==
    /\ pc \in V3Singles \cup V3Multis /\ ~WrongBlock
    /\ \E k \in 1..Len(tx.swaps), ok \in BOOLEAN :
          /\ Read(1, 20) = Pool(k)
          /\ LET bytes == Bytes(V3Arguments, 249)
                 back == Callback(k, bytes)
                 through == ok /\ back.valid
             IN  /\ calls' = calls \o
                        <<[to |-> Pool(k), data |-> bytes, ok |-> through]>> \o
                        (IF through THEN <<[to |-> back.to, data |-> back.data, ok |-> TRUE]>>
                         ELSE <<>>)
                 /\ \/ through /\ pc \in V3Multis
                       /\ Goto(Cleaned(V3Arguments), at + PayloadLength)
                    \/ /\ ~through \/ pc \in V3Singles
                       /\ pc' = IF through THEN "stop" ELSE "revert"
                       /\ mem' = V3Arguments /\ UNCHANGED at
    /\ UNCHANGED input
--------------------------------------------------------------------------------
\* The swaps of one recipe or of a batch: what does not occur is left at one value.
Recipes(multi) ==
    {s \in Swap : /\ s.venue = "V3" => s.out = 0
                  /\ s.small => s.venue = "V3" /\ ~s.buys /\ ~multi
                  /\ ~multi /\ s.venue = "V3" => s.in = 0
                  /\ ~multi /\ s.venue = "V2" => (IF s.buys THEN s.in = 0 ELSE s.out = 0)}

\* A recipe's own frontrun or backrun, or that of a batch, which buys or sells throughout.
Transactions ==
    [multi : {FALSE}, checked : {FALSE}, swaps : {<<s>> : s \in Recipes(FALSE)}] \cup
    [multi : {TRUE}, checked : BOOLEAN,
     swaps : {w \in UNION {[1..n -> Recipes(TRUE)] : n \in 1..MaxSwaps} :
                \A k \in DOMAIN w : w[k].buys = w[1].buys}]

\* Whether some routine looks at the block number; if none does, it is left at one value.
Guarded == tx.checked \/ (~tx.multi /\ tx.swaps[1].buys)

Init ==
    /\ tx \in Transactions
    /\ onTime \in BOOLEAN /\ (~Guarded => onTime)
    /\ data = Packed(tx)
    /\ pc = Gate(data[1]) /\ at = 0 /\ mem = Blank /\ calls = <<>>

Ended == pc \in {"stop", "revert"} /\ UNCHANGED vars

Next == GetOut \/ CheckBlock \/ V2Transfer \/ V2Swap \/ V3Swap \/ Ended

Spec == Init /\ [][Next]_vars
--------------------------------------------------------------------------------
\* What the transaction is to do, in the terms of the ABI.

Amount(what, k, shift) == Zeros(28 - shift) \o Field(what, k, 4) \o Zeros(shift)
In(s, k) ==
    IF tx.multi \/ (s.venue = "V2" /\ ~s.buys) THEN Amount("in", k, s.in)
    ELSE CASE s.buys -> Value
           [] ~s.buys /\ s.small -> Word(Field("in", k, 6))
           [] ~s.buys /\ ~s.small -> Word(Times(Field("in", k, 9)))
Out(s, k) == IF tx.multi \/ s.buys THEN Amount("out", k, s.out) ELSE Value
Sold(s, k) == IF s.buys THEN Weth ELSE Token(k)
Flag(s) == Num(IF s.buys = s.weth0 THEN 1 ELSE 0)

MeantBy(s, k) ==
    IF s.venue = "V2"
    THEN <<[to |-> Sold(s, k),
            data |-> (IF s.buys THEN Signature("transferFrom") \o Word(This)
                      ELSE Signature("transfer")) \o Word(Pool(k)) \o In(s, k)],
           [to |-> Pool(k),
            data |-> Signature("swap") \o
                     (IF s.buys = s.weth0 THEN Zeros(32) \o Out(s, k) ELSE Out(s, k) \o Zeros(32)) \o
                     Word(This) \o Word(<<Num(128)>>) \o Zeros(32)]>>
    ELSE <<[to |-> Pool(k),
            data |-> Signature("v3swap") \o Word(This) \o Word(<<Flag(s)>>) \o In(s, k) \o
                     Limit(s.buys = s.weth0) \o Word(<<Num(160)>>) \o Word(<<Num(53)>>) \o
                     <<Flag(s)>> \o Sold(s, k) \o Hash(k)],
           [to |-> Sold(s, k),
            data |-> Signature("transfer") \o Word(Pool(k)) \o
                     Field(IF s.buys = s.weth0 THEN "delta0" ELSE "delta1", k, 32)]>>

Meant == Concat([k \in 1..Len(tx.swaps) |-> MeantBy(tx.swaps[k], k)])

\* The transfer to a V2 pair, whose result the contract drops.
Payment(i) == i % 2 = 1 /\ tx.swaps[(i + 1) \div 2].venue = "V2"

\* The amount a single purchase asks of a V2 pair ends with bytes of the block number when
\* it is shifted: its routine does not mask what it loads (see RealValue).
Spilled(i, b) ==
    LET s == tx.swaps[1]
        end == IF s.weth0 THEN 68 ELSE 36
    IN  /\ ~tx.multi /\ s.venue = "V2" /\ s.buys /\ i = 2
        /\ b \in (end - s.out + 1)..end

TypeOK ==
    /\ tx \in Transactions /\ onTime \in BOOLEAN
    /\ pc \in {"stop", "revert", "check_block_number"} \cup
              V2Singles \cup V2Multis \cup V2Swaps \cup V3Singles \cup V3Multis
    /\ at \in 0..Len(data)
    /\ Len(mem) = 249
    /\ \A i \in DOMAIN calls : calls[i].ok \in BOOLEAN /\ Len(calls[i].to) = 20

\* Whatever swaps are strung together, and in whatever order their routines use the same
\* memory, the contract makes the calls the bot means, byte for byte and in this order:
\* the pool, the token, the direction, the amounts and the callback's payment.
AsMeant ==
    LET meant == Meant
    IN  /\ Len(calls) <= Len(meant)
        /\ \A i \in DOMAIN calls :
              /\ calls[i].to = meant[i].to
              /\ Len(calls[i].data) = Len(meant[i].data)
              /\ \A b \in DOMAIN calls[i].data :
                    calls[i].data[b] # meant[i].data[b] => Spilled(i, b)

\* A transaction that succeeds has made every swap, and each swap succeeded: no payload is
\* skipped, cut short or run twice.
AllOrNothing ==
    pc = "stop" => /\ Len(calls) = Len(Meant)
                   /\ \A i \in DOMAIN calls : calls[i].ok \/ Payment(i)

\* A transaction reverts for a swap that fails, or in a block it is not meant for, and for
\* nothing else; and in such a block it makes no call.
RevertsFor ==
    /\ pc = "revert" => \/ calls # <<>> /\ ~calls[Len(calls)].ok
                        \/ Guarded /\ ~onTime
    /\ calls # <<>> /\ Guarded => onTime

\* What EncodedSwapValue::decode says (v2.rs:30): "returns the decoded value after applying
\* byteshift (real value used during swaps)".  The amount asked of a pair is this value.
RealValue ==
    \A i \in DOMAIN calls : calls[i].data = Meant[i].data
================================================================================
