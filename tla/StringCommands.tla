--------------------------- MODULE StringCommands ---------------------------
(***************************************************************************)
(* The commands of redis-stable/src/t_string.c and bitops.c that write.    *)
(* The bytes they are given are such that no operation makes a digit of a  *)
(* byte that is none: SETRANGE writes a letter, SETBIT sets the first bit. *)
(***************************************************************************)
EXTENDS Dataset

Length(s) == IF IsNumber(s) THEN 1 ELSE -s

(* setGenericCommand: SET with NX, XX (or ALWAYS) and EX, SETNX, SETEX,    *)
(* PSETEX                                                                  *)
SetCommand(D, k, s, cond, expire) ==
    IF (cond = "NX" /\ Has(D, k)) \/ (cond = "XX" /\ ~Has(D, k)) THEN Unchanged(D)
    ELSE LET E == SetKey(D, k, String(s))
         IN Changed(IF expire THEN SetExpire(E, k) ELSE E, {k})

(* getsetCommand *)
GetsetCommand(D, k, s) ==
    IF ~OfType(D, k, "string") THEN Unchanged(D) ELSE Changed(SetKey(D, k, String(s)), {k})

(* msetGenericCommand *)
MsetCommand(D, k1, s1, k2, s2, nx) ==
    IF nx /\ (Has(D, k1) \/ Has(D, k2)) THEN Unchanged(D)
    ELSE Changed(SetKey(SetKey(D, k1, String(s1)), k2, String(s2)), {k1, k2})

(* incrDecrCommand: not for what is not a number, and not past its end. *)
IncrbyCommand(D, k, n) ==
    LET old == IF Has(D, k) THEN D.val[k].content ELSE 0
    IN IF ~OfType(D, k, "string") THEN Unchanged(D)
       ELSE IF ~IsNumber(old) \/ old + n \notin 0..MaxNumber THEN Unchanged(D)
       ELSE Changed(Put(D, k, String(old + n)), {k})

(* incrbyfloatCommand, replicated as SET with the final value *)
IncrbyfloatCommand(D, k, n) ==
    LET old == IF Has(D, k) THEN D.val[k].content ELSE 0
    IN IF ~OfType(D, k, "string") THEN Unchanged(D)
       ELSE IF ~IsNumber(old) \/ old + n \notin 0..MaxNumber THEN Unchanged(D)
       ELSE RewrittenAs(Changed(Put(D, k, String(old + n)), {k}), <<"SET", k, old + n, "ALWAYS", FALSE>>)

(* appendCommand *)
AppendCommand(D, k, s) ==
    IF ~OfType(D, k, "string") THEN Unchanged(D)
    ELSE IF ~Has(D, k) THEN Changed(Put(D, k, String(s)), {k})
    ELSE LET n == Length(D.val[k].content) + Length(s)
         IN IF n > MaxLength THEN Unchanged(D) ELSE Changed(Put(D, k, String(-n)), {k})

(* setrangeCommand, with one byte *)
SetrangeCommand(D, k, offset) ==
    LET old == IF Has(D, k) THEN Length(D.val[k].content) ELSE 0
        n == IF old > offset + 1 THEN old ELSE offset + 1
    IN IF ~OfType(D, k, "string") \/ offset + 1 > MaxLength THEN Unchanged(D)
       ELSE Changed(Put(D, k, String(-n)), {k})

(* setbitCommand, in the first byte *)
SetbitCommand(D, k) ==
    LET old == IF Has(D, k) THEN Length(D.val[k].content) ELSE 0
        n == IF old > 1 THEN old ELSE 1
    IN IF ~OfType(D, k, "string") THEN Unchanged(D) ELSE Changed(Put(D, k, String(-n)), {k})

(* bitopCommand (NOT, XOR): dirty goes up whether or not there was a       *)
(* target to delete.                                                       *)
BitopCommand(D, dst, srcs) ==
    LET lens == {Length(D.val[k].content) : k \in {s \in srcs : Has(D, s)}}
        n == CHOOSE m \in lens : \A l \in lens : l <= m
    IN IF \E k \in srcs : ~OfType(D, k, "string") THEN Unchanged(D)
       ELSE IF lens # {} THEN Changed(SetKey(D, dst, String(-n)), {dst})
       ELSE Changed(Delete(D, dst), IF Has(D, dst) THEN {dst} ELSE {})
=============================================================================
