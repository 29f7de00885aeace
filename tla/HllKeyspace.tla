---------------------------- MODULE HllKeyspace ----------------------------
(***************************************************************************)
(* The keys of a server that hold HyperLogLog values, beside those of      *)
(* Keyspace.                                                               *)
(***************************************************************************)
EXTENDS Keyspace

CONSTANTS
    HllKeys, Registers, Counts, ZeroMaxLen, ValMaxLen, ValMaxValue, SparseMaxBytes, MaxAdds

VARIABLES hll, ref, adds

H == INSTANCE HyperLogLog

(* HyperLogLog: a cardinality cached as valid is the one of the registers. *)
CardinalityFresh == H!CardinalityFresh
=============================================================================
