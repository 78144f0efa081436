----------------------------- MODULE Selection ------------------------------
(***************************************************************************)
(* The filtered comprehension of the code, `[x for x in s if x in T]`, as  *)
(* a recursive function: SelectSeq of the standard module is opaque to the *)
(* provers, and what is selected here is always told by membership.        *)
(***************************************************************************)
EXTENDS Naturals, Sequences

Select(s, T) ==
    LET upTo[n \in 0 .. Len(s)] ==
            IF n = 0 THEN <<>>
            ELSE IF s[n] \in T THEN Append(upTo[n - 1], s[n])
            ELSE upTo[n - 1]
    IN  upTo[Len(s)]
=============================================================================
