--------------------------- MODULE MCDataPackages ---------------------------
(* Instances of DataPackages for TLC.                                       *)
EXTENDS DataPackages, TLC

CONSTANTS a, b, v1, v2, v3, p1, p2, p3, p4

Keys == [x \in {v1, v2, v3, p1, p2, p3, p4} |-> IF x \in {p2, p3} THEN NoKey ELSE x]
New(x, up) == [who |-> x, ver |-> 1, up |-> up]

\* Both machines numbered their rows from 1: village 1 of a is not village 1 of
\* b, and neither project 1 has a code.
InUse == (a :> [villages |-> <<New(v1, None), New(v3, None)>>,
                projects |-> <<New(p3, 1), New(p1, 2)>>])
      @@ (b :> [villages |-> <<New(v2, None)>>, projects |-> <<New(p2, 1)>>])

\* A project that the validation rejects is entered on a, and on b the one that
\* a has too, each in village 1.
ByHand == (a :> {<<p4, 1>>}) @@ (b :> {<<p1, 1>>})
\* Bound: a finishes its export before b works on a confirm, or the other way
\* round.  They touch different machines and only the edits, of which there is
\* one, are timed: the order of their steps makes no difference to either.
ExportsApart ==
  (\E m \in Machines : export[m].busy) => \A c \in Clients : job[c] = NoJob

ParentsFirst == {<<"villages", "projects">>}
Symmetry == Permutations(Clients)
=============================================================================
