------------------------------- MODULE MCData -------------------------------
(***************************************************************************)
(* The TLC instance of the data of a server: the commands on strings,      *)
(* hashes, sets and lists, and the structures that hold data.  A behaviour *)
(* is one of these, as part says; the others stay where they began.        *)
(***************************************************************************)
EXTENDS HllKeyspace

VARIABLES
    part,
    z,
    zl, list, harmed,
    d, canResize, scan, iter,
    is, members

(* Keyspace: two keys of a database and one of another; numbers 0 and 1,   *)
(* texts of one or two characters.  HyperLogLog (in the cfg): runs of      *)
(* registers longer than one opcode holds, counts above what the sparse    *)
(* encoding holds, and more opcodes than its bytes.                        *)
MCKeys == {<<0, "a">>, <<0, "b">>, <<1, "a">>}
MCMixes == {{}, {"key", "string"}, {"key", "hash"}, {"key", "set"}, {"key", "list"}}
MCSetElements == {1, 2, -1}
MCElements == {1, -1}
FieldSymmetry == Permutations(Fields)

(* Three elements, scores -inf, 0 and inf, a sorted set packed up to two   *)
(* elements; the strings "-" and "+" of lexicographic ranges are among the *)
(* elements' texts.  The sources of ZUNIONSTORE and ZINTERSTORE overlap    *)
(* with infinite scores, or are disjoint and too many to be packed.        *)
Z == INSTANCE SortedSet WITH
        Count <- 3, Inf <- 1, MaxLevel <- 2, MinText <- 2, MaxText <- 1,
        MaxEntries <- 2, LongElements <- {3},
        Sources <- {<<<<-1, 1>>, <<1, 1>>>>, <<<<0>>, [e \in {2, 3} |-> 1]>>}, Weights <- {-1, 1}

(* Strings whose entries are just below and above the length a one byte    *)
(* field holds, integers of both encodings.                                *)
L == INSTANCE Ziplist WITH
        BigLen <- 8, Wide <- 3, MaxShort <- 5, LengthMax <- 3, MaxEntries <- 4,
        Items <- {[str |-> TRUE, len |-> 5, v |-> 9], [str |-> TRUE, len |-> 7, v |-> 1],
                  [str |-> FALSE, len |-> 0, v |-> 1], [str |-> FALSE, len |-> 0, v |-> 6]}

(* Keys 2 and 4 share a bucket until the table has four. *)
T == INSTANCE Dict WITH
        Keys <- {1, 2, 4}, KeyHash <- <<0, 1, 2, 3, 5>>, InitialSize <- 1, ForceRatio <- 1,
        MinFill <- 50

(* Values of all three widths and of both signs *)
I == INSTANCE Intset WITH
        Reach <- 6, Narrow <- 1, Middle <- 3, MaxMembers <- 4, ref <- members

zipVars == <<zl, list, harmed>>
dictVars == <<d, canResize, scan, iter>>
hllVars == <<hll, ref, adds>>
intsetVars == <<is, members>>
allVars == <<part, vars, z, zipVars, dictVars, hllVars, intsetVars>>

DataInit ==
    /\ part \in {"keyspace", "zset", "ziplist", "dict", "hll", "intset"}
    /\ Init /\ Z!Init /\ L!Init /\ T!Init /\ H!Init /\ I!Init
    /\ part = "keyspace" <=> mix # {}

DataNext ==
    /\ \/ part = "keyspace" /\ Next /\ UNCHANGED <<z, zipVars, dictVars, hllVars, intsetVars>>
       \/ part = "zset" /\ Z!Next /\ UNCHANGED <<vars, zipVars, dictVars, hllVars, intsetVars>>
       \/ part = "ziplist" /\ L!Next /\ UNCHANGED <<vars, z, dictVars, hllVars, intsetVars>>
       \/ part = "dict" /\ T!Next /\ UNCHANGED <<vars, z, zipVars, hllVars, intsetVars>>
       \/ part = "hll" /\ H!Next /\ UNCHANGED <<vars, z, zipVars, dictVars, intsetVars>>
       \/ part = "intset" /\ I!Next /\ UNCHANGED <<vars, z, zipVars, dictVars, hllVars>>
    /\ UNCHANGED part

DataSpec == DataInit /\ [][DataNext]_allVars

-----------------------------------------------------------------------------
(* SortedSet: the skip list's links, spans and backward links are those of *)
(* the elements in order, the dictionary has the same scores, and ranks,   *)
(* counts and ranges by score, rank and text are read from it exactly.     *)
SortedSetExact == part = "zset" => Z!SortedSetExact

(* SortedSet: the commands implement SortedSetSpec, a map to scores.       *)
ImplementsSortedSet == Z!ImplementsSortedSet

(* Ziplist, Intset, HyperLogLog: the packed bytes decode to what was       *)
(* stored, from both ends and through every change of width or encoding.   *)
EncodingsExact ==
    /\ part = "ziplist" => L!ZiplistExact
    /\ part = "intset" => I!IntsetExact
    /\ part = "hll" => H!HllExact

(* Dict: a key is in the one chain where a lookup goes, SCAN misses no key *)
(* that stayed, but for steep changes of size, and a safe iterator sees    *)
(* each key that stayed, once.                                             *)
TraversalsExact == part = "dict" => T!EachKeyOnce /\ T!ScanComplete /\ T!IteratorExact

(* Dict: what the comment of dictScan promises, SCAN misses no key that    *)
(* stayed, whatever the size did.                                          *)
ScanAlwaysComplete == part = "dict" => T!ScanAlwaysComplete
=============================================================================
