------------------------- MODULE MCSentinelElection -------------------------
(***************************************************************************)
(* The TLC instances of the elections: three Sentinels through one epoch,  *)
(* or two Sentinels, with two slaves to choose from, through two epochs.   *)
(* A behaviour is one of these, as long says.                              *)
(***************************************************************************)
EXTENDS SentinelElection, TLC

CONSTANTS t1, t2, b

VARIABLE long    \* whether this is the instance with two epochs

Pair == {t1, t2}
Three == Servers \cup {b}
Sym == Permutations(Sentinels)

E == INSTANCE SentinelElection WITH Sentinels <- Pair, Servers <- Three, MaxEpoch <- 2

ASSUME LongAssumption == E!ElectionAssumption

MCInit == \/ long = FALSE /\ ElInit
          \/ long = TRUE /\ E!ElInit

MCNext == /\ \/ ~long /\ ElNext
             \/ long /\ E!ElNext
          /\ UNCHANGED long

MCSpec == MCInit /\ [][MCNext]_<<long, elVars>>
=============================================================================
