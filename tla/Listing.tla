------------------------------ MODULE Listing ------------------------------
(***************************************************************************)
(* What the lists of the console have in common, whichever section shows   *)
(* them: a page of a sequence, a set of ticked rows, a histogram.          *)
(***************************************************************************)
EXTENDS Naturals, FiniteSets, Sequences

(* The rows of page p of list s, size rows to a page.                      *)
PageOf(s, p, size) ==
  LET last == IF p * size < Len(s) THEN p * size ELSE Len(s)
  IN  SubSeq(s, (p - 1) * size + 1, last)

(* How many pages a list of n rows has.                                    *)
Pages(n, size) == (n + size - 1) \div size

(* A tick box was clicked: x joins or leaves the ticked rows.              *)
Toggled(S, x) == IF x \in S THEN S \ {x} ELSE S \union {x}

(* The box over the list was clicked.  The sections compare sizes only,    *)
(* not members.                                                            *)
ToggledAll(S, rows) ==
  IF Cardinality(S) = Cardinality(rows) THEN {} ELSE rows

(* The numbers of a set as an increasing sequence.                         *)
Ascending(S) ==
  [n \in 1..Cardinality(S) |-> CHOOSE x \in S : Cardinality({y \in S : y < x}) = n - 1]

(* The numbers of a set as a decreasing sequence.                          *)
Descending(S) ==
  [n \in 1..Cardinality(S) |-> CHOOSE x \in S : Cardinality({y \in S : y > x}) = n - 1]

(* How many of xs fall into each of the bands, a band being [min, max).    *)
Histogram(xs, score, bands) ==
  [b \in DOMAIN bands |->
     Cardinality({x \in xs : bands[b].min <= score[x] /\ score[x] < bands[b].max})]

(* The sum of a sequence of numbers.                                       *)
Total(counts) ==
  LET upto[i \in 0..Len(counts)] == IF i = 0 THEN 0 ELSE upto[i - 1] + counts[i]
  IN  upto[Len(counts)]
=============================================================================
