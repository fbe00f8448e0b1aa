------------------------------ MODULE BestFit ------------------------------
(***************************************************************************)
(* What HW4's malloc and free promise, without levels, links or headers in *)
(* memory: a pool of PoolUnits units in which every chunk is one header    *)
(* unit followed by its data units, allocation takes the free chunk of the *)
(* smallest sufficient size that became free first, and a released chunk   *)
(* is joined at once with the free chunks next to it.                      *)
(***************************************************************************)
EXTENDS Integers, FiniteSetsExt

CONSTANT PoolUnits  \* size of the pool

VARIABLES
  free,    \* the free chunks
  older,   \* pairs of free chunks of one size, of which the first became
           \* free before the second
  used,    \* the chunks handed out
  mapped,  \* the pool exists
  report   \* the size last printed for malloc(0)

vars == <<free, older, used, mapped, report>>

Chunk(a, s) == [at |-> a, len |-> s]
End(c)      == c.at + 1 + c.len

\* A new pool is one free chunk.
Pool == IF mapped THEN free ELSE {Chunk(0, PoolUnits - 1)}

Init ==
  /\ free = {} /\ older = {}
  /\ used = {}
  /\ mapped = FALSE
  /\ report = 0

\* The chunks gone are not free any more, and those of new become free now.
Change(gone, new) ==
  LET left == Pool \ gone
  IN /\ free'  = left \cup new
     /\ older' = {p \in older : p[1] \in left /\ p[2] \in left}
                   \cup {p \in left \X new : p[1].len = p[2].len}

\* Chunk c is taken for n units; a rest that can hold a header and data
\* becomes a free chunk.
Take(c, n) ==
  IF c.len - n >= 2
  THEN /\ Change({c}, {Chunk(c.at + 1 + n, c.len - n - 1)})
       /\ used' = used \cup {Chunk(c.at, n)}
  ELSE /\ Change({c}, {})
       /\ used' = used \cup {c}

\* n units are asked for; when no free chunk has as many nothing is taken.
Allocate(n) ==
  /\ mapped' = TRUE
  /\ UNCHANGED report
  /\ \/ \E c \in Pool :
          /\ c.len >= n
          /\ \A d \in Pool : d.len >= n => c.len <= d.len
          /\ \A d \in Pool : <<d, c>> \notin older
          /\ Take(c, n)
     \/ /\ \A c \in Pool : c.len < n
        /\ Change({}, {}) /\ UNCHANGED used

\* The free chunks next to c, with c itself, become one free chunk.
Release(c) ==
  /\ mapped /\ c \in used
  /\ used' = used \ {c}
  /\ UNCHANGED <<mapped, report>>
  /\ LET beside == {x \in free : End(x) = c.at \/ x.at = End(c)}
         start  == Min({x.at : x \in beside \cup {c}})
         end    == Max({End(x) : x \in beside \cup {c}})
     IN Change(beside, {Chunk(start, end - start - 1)})

\* malloc(0): the size of the largest free chunk is reported and the pool
\* given back.
EndOfTest ==
  /\ Pool # {}
  /\ report' = Max({c.len : c \in Pool})
  /\ mapped' = FALSE /\ used' = {} /\ free' = {} /\ older' = {}

\* The debug request maps the pool when there is none.
Touch ==
  /\ mapped' = TRUE
  /\ Change({}, {})
  /\ UNCHANGED <<used, report>>

Next ==
  \/ \E n \in 1..PoolUnits : Allocate(n)
  \/ \E c \in used : Release(c)
  \/ EndOfTest
  \/ Touch

Spec == Init /\ [][Next]_vars
=============================================================================
