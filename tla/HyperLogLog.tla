---------------------------- MODULE HyperLogLog ----------------------------
(***************************************************************************)
(* HyperLogLog values (redis-stable/src/hyperloglog.c): PFADD, PFCOUNT and *)
(* PFMERGE, with the run-length encoded sparse representation that is      *)
(* edited in place and given up for the dense one, and the cardinality     *)
(* cached in the header.                                                   *)
(*                                                                         *)
(* An element is the register it falls in and the count hllPatLen gives    *)
(* it.  A sparse value is a sequence of opcodes: XZERO takes two bytes,    *)
(* ZERO and VAL one, with limits on their lengths and on the value.  The   *)
(* estimate depends on how many registers hold each count: that histogram  *)
(* stands for the cardinality.  ref is what the registers should be.       *)
(***************************************************************************)
EXTENDS Integers, Sequences, SequencesExt, FiniteSets, FiniteSetsExt

CONSTANTS
    HllKeys,
    Registers,       \* HLL_REGISTERS
    Counts,          \* the counts an element may have, 1..n
    ZeroMaxLen,      \* HLL_SPARSE_ZERO_MAX_LEN (64)
    ValMaxLen,       \* HLL_SPARSE_VAL_MAX_LEN (4)
    ValMaxValue,     \* HLL_SPARSE_VAL_MAX_VALUE (32)
    SparseMaxBytes,  \* server.hll_sparse_max_bytes, without the header
    MaxAdds          \* bound: PFADDs that change a value

VARIABLES hll, ref, adds

hllVars == <<hll, ref, adds>>

Index == 0..(Registers - 1)
NoValue == [enc |-> "none", ops |-> <<>>, regs |-> <<>>, card |-> <<>>]
Zeros == [i \in Index |-> 0]
Histogram(regs) == [c \in Counts \cup {0} |-> Cardinality({i \in Index : regs[i] = c})]
Invalid == <<>>                                  \* HLL_INVALIDATE_CACHE

-----------------------------------------------------------------------------
(* The sparse representation *)

Bytes(ops) == Len(ops) + Cardinality({i \in DOMAIN ops : ops[i].op = "xzero"})
ZeroRun(len) == [op |-> IF len > ZeroMaxLen THEN "xzero" ELSE "zero", len |-> len, v |-> 0]
Val(v, len) == [op |-> "val", len |-> len, v |-> v]

(* The first register opcode i covers, and the opcode of a register *)
First(ops, i) == FoldSeq(LAMBDA o, n : o.len + n, 0, SubSeq(ops, 1, i - 1))
OpcodeOf(ops, index) ==
    CHOOSE i \in DOMAIN ops : First(ops, i) <= index /\ index < First(ops, i) + ops[i].len

(* hllSparseToDense, hllMerge: the registers *)
Decoded(ops) == [r \in Index |-> ops[OpcodeOf(ops, r)].v]

(* createHLLObject; the cached cardinality of the empty value is valid *)
NewHll == [enc |-> "sparse", ops |-> <<[op |-> "xzero", len |-> Registers, v |-> 0]>>,
           regs |-> <<>>, card |-> Histogram(Zeros)]
RegistersOf(h) == IF h.enc = "dense" THEN h.regs ELSE Decoded(h.ops)
Dense(regs, card) == [enc |-> "dense", ops |-> <<>>, regs |-> regs, card |-> card]

(* hllSparseAdd, step 2: what replaces the opcode o whose first register   *)
(* is first; no empty runs                                                 *)
Split(o, first, index, count) ==
    LET part(len) == IF len = 0 THEN <<>>
                     ELSE IF o.op = "val" THEN <<Val(o.v, len)>> ELSE <<ZeroRun(len)>>
    IN part(index - first) \o <<Val(count, 1)>> \o part(first + o.len - 1 - index)

(* Step 4: from opcode p on, up to n times, two VALs of the same value are *)
(* merged if the length allows.                                            *)
Mergeable(o, next) ==
    o.op = "val" /\ next.op = "val" /\ o.v = next.v /\ o.len + next.len <= ValMaxLen
Merged(ops, p, n) ==
    LET at[m \in 0..n] ==        \* the opcodes and the position after m turns
            IF m = 0 THEN [ops |-> ops, p |-> p]
            ELSE LET q == at[m - 1].ops
                     i == at[m - 1].p
                 IN IF i < Len(q) /\ Mergeable(q[i], q[i + 1])
                    THEN [ops |-> SubSeq(q, 1, i - 1) \o <<Val(q[i].v, q[i].len + q[i + 1].len)>>
                                  \o SubSeq(q, i + 2, Len(q)), p |-> i]
                    ELSE [ops |-> q, p |-> i + 1]
    IN at[n].ops

(* hllDenseAdd; the cache is left to the caller *)
DenseAdd(h, index, count) ==
    IF count > h.regs[index] THEN [h EXCEPT !.regs[index] = count] ELSE h

(* hllSparseAdd *)
SparseAdd(h, index, count) ==
    LET i == OpcodeOf(h.ops, index)
        o == h.ops[i]
        first == First(h.ops, i)
        single == o.len = 1 /\ o.op # "xzero"
        seq == IF single THEN <<Val(count, 1)>> ELSE Split(o, first, index, count)
        ops == SubSeq(h.ops, 1, i - 1) \o seq \o SubSeq(h.ops, i + 1, Len(h.ops))
        grows == Bytes(ops) > Bytes(h.ops) /\ Bytes(ops) > SparseMaxBytes
        promoted == DenseAdd(Dense(Decoded(h.ops), h.card), index, count)
    IN IF count > ValMaxValue THEN promoted
       ELSE IF o.op = "val" /\ o.v >= count THEN h
       ELSE IF grows THEN promoted
       ELSE [h EXCEPT !.ops = Merged(ops, IF i > 1 THEN i - 1 ELSE 1, 5), !.card = Invalid]

-----------------------------------------------------------------------------
Init ==
    /\ hll = [k \in HllKeys |-> NoValue]
    /\ ref = [k \in HllKeys |-> Zeros]
    /\ adds = 0

Existing(k) == IF hll[k].enc = "none" THEN NewHll ELSE hll[k]

(* The variant that leaves it to the sparse code to invalidate the cache. *)
UpdatedKeepsCache(old, new) == new

(* pfaddCommand: the cache is invalid if anything changed *)
Updated(old, new) == IF new = old THEN new ELSE [new EXCEPT !.card = Invalid]

PfAdd(k, index, count) ==
    LET old == Existing(k)
        new == IF old.enc = "dense" THEN DenseAdd(old, index, count) ELSE SparseAdd(old, index, count)
    IN /\ adds < MaxAdds /\ adds' = adds + 1
       /\ hll' = [hll EXCEPT ![k] = Updated(hll[k], new)]
       /\ ref' = [ref EXCEPT ![k][index] = Max({@, count})]

(* pfcountCommand of one key: the cached cardinality, or the computed one  *)
(* that is cached                                                          *)
PfCount(k) ==
    /\ hll[k].enc # "none" /\ hll[k].card = Invalid
    /\ hll' = [hll EXCEPT ![k].card = Histogram(RegistersOf(hll[k]))]
    /\ UNCHANGED <<ref, adds>>

(* hllMerge *)
MaxRegisters(ks) == [i \in Index |-> Max({0} \cup {RegistersOf(hll[k])[i] :
                                       k \in {j \in ks : hll[j].enc # "none"}})]

(* pfmergeCommand: the target counts too, and becomes dense *)
PfMerge(k, from) ==
    /\ hll' = [hll EXCEPT ![k] = Dense(MaxRegisters({k, from}), Invalid)]
    /\ ref' = [ref EXCEPT ![k] = [i \in Index |-> Max({@[i], ref[from][i]})]]
    /\ UNCHANGED adds

Next ==
    \/ \E k \in HllKeys, index \in Index, count \in Counts : PfAdd(k, index, count)
    \/ \E k \in HllKeys : PfCount(k)
    \/ \E k, from \in HllKeys : PfMerge(k, from)

Spec == Init /\ [][Next]_hllVars

-----------------------------------------------------------------------------
(* Whatever was split, merged and promoted, the registers hold the highest *)
(* count of the elements added, and the opcodes cover the registers, in    *)
(* the bytes allowed.                                                      *)
HllExact ==
    \A k \in HllKeys : LET h == hll[k] IN
        /\ h.enc = "sparse" =>
            /\ First(h.ops, Len(h.ops) + 1) = Registers
            /\ Bytes(h.ops) <= SparseMaxBytes
            /\ \A i \in DOMAIN h.ops :
                /\ h.ops[i].op = "zero" => h.ops[i].len <= ZeroMaxLen
                /\ h.ops[i].op = "val" => h.ops[i].len <= ValMaxLen /\ h.ops[i].v <= ValMaxValue
        /\ h.enc # "none" => RegistersOf(h) = ref[k]

(* A cardinality that is cached and valid is the one PFCOUNT would compute *)
(* now.                                                                    *)
CardinalityFresh ==
    \A k \in HllKeys :
        hll[k].card # Invalid /\ hll[k].enc # "none" => hll[k].card = Histogram(RegistersOf(hll[k]))
=============================================================================
