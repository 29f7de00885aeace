--------------------------- MODULE MCTransactions ---------------------------
(* Two keys of different databases, and the commands clients send them. *)
EXTENDS Transactions, TLC
CONSTANTS c1, c2, k1, k2
MCDbOf == k1 :> 0 @@ k2 :> 1
Cmd(n, k) == [name |-> n, key |-> k, val |-> 1]
AllCommands == {Cmd("set", k1), Cmd("get", k1), Cmd("flushdb", k2), Cmd("bad", k1)}
Symmetry == Permutations({c1, c2})
=============================================================================
