------------------------------ MODULE Recency ------------------------------
(***************************************************************************)
(* Lists without repetition, of the pages of a trace by their last use:    *)
(* the most recently used page is the first.                               *)
(***************************************************************************)
EXTENDS Integers, Sequences

Elements(s) == {s[k] : k \in DOMAIN s}

\* The elements of s that are in P, in the order they have in s.
Among(s, P) ==
  LET among[k \in 0..Len(s)] ==
        IF k = 0 THEN <<>>
        ELSE IF s[k] \in P THEN Append(among[k - 1], s[k]) ELSE among[k - 1]
  IN among[Len(s)]

Without(s, page) == Among(s, Elements(s) \ {page})

\* The list after a use of the page.
Used(s, page) == <<page>> \o Without(s, page)
=============================================================================
