---------------------------- MODULE SortedSetSpec ----------------------------
(***************************************************************************)
(* What a sorted set promises, whatever its encoding: it is a map from     *)
(* elements to scores, none of them NaN.  A step gives one element a score *)
(* (ZADD, ZINCRBY), removes elements that are next to each other in the    *)
(* order of scores first, elements second (ZREM, ZREMRANGEBY...), or       *)
(* replaces the whole by what other keys hold (ZUNIONSTORE, ZINTERSTORE).  *)
(***************************************************************************)
EXTENDS Integers, FiniteSets

CONSTANTS Elements, ScoreValues, Combinations

VARIABLE scores

Less(f, d, e) == f[d] < f[e] \/ (f[d] = f[e] /\ d < e)
IsInterval(f, S) == \A d \in S, e \in S, x \in DOMAIN f : Less(f, d, x) /\ Less(f, x, e) => x \in S

Init == scores = [e \in {} |-> 0]

Assign(e, s) == scores' = [x \in DOMAIN scores \cup {e} |-> IF x = e THEN s ELSE scores[x]]

RemoveInterval(S) ==
    /\ IsInterval(scores, S)
    /\ scores' = [x \in DOMAIN scores \ S |-> scores[x]]

Store == scores' \in Combinations

Next ==
    \/ \E e \in Elements, s \in ScoreValues : Assign(e, s)
    \/ \E S \in SUBSET DOMAIN scores : RemoveInterval(S)
    \/ Store

Spec == Init /\ [][Next]_scores
=============================================================================
