----------------------------- MODULE RatArith -----------------------------
(***************************************************************************)
(* Exact rationals <<num, den>> (den > 0) standing for the floats of the   *)
(* code and of the store's aggregate columns, and the ORDER BY of the      *)
(* store over rows whose columns are rationals.                            *)
(***************************************************************************)
EXTENDS Integers, Sequences

Rat(a, b) == <<a, b>>
RatLt(r, s) == r[1] * s[2] < s[1] * r[2]
RatLe(r, s) == r[1] * s[2] <= s[1] * r[2]
RatEq(r, s) == r[1] * s[2] = s[1] * r[2]
One == Rat(1, 1)
Zero == Rat(0, 1)

(***************************************************************************)
(* ORDER BY terms, each [field, desc]: r1 sorts strictly before r2 when    *)
(* the first term on which their values Val(row, field) differ puts it    *)
(* first.  Rows equal on every term may come back in either order.         *)
(***************************************************************************)
SortsBefore(r1, r2, terms, Val(_, _)) ==
    LET RECURSIVE Decide(_)
        Decide(ts) ==
            IF ts = <<>> THEN FALSE
            ELSE LET t == Head(ts)
                     a == Val(r1, t.field)
                     b == Val(r2, t.field)
                 IN  IF RatEq(a, b) THEN Decide(Tail(ts))
                     ELSE IF t.desc THEN RatLt(b, a) ELSE RatLt(a, b)
    IN  Decide(terms)

=============================================================================
