------------------------------ MODULE UboGraph ------------------------------
(***************************************************************************)
(* ubo_graph: the in-memory ownership graph of db_client.py and the        *)
(* calculation of beneficial owners that ubo_service.py makes from it.     *)
(*                                                                         *)
(* The graph grows, node by node and edge by edge; a calculation reads it  *)
(* without an await and changes nothing, so it is an operator on the       *)
(* state.  Percentages are integers: an edge holds tenths of its target,   *)
(* and 100% of an entity is Whole, fine enough for every path to be exact. *)
(***************************************************************************)
EXTENDS Naturals, Sequences, FiniteSetsExt, SequencesExt

CONSTANTS
  Persons, Companies, Trusts,   \* node ids, by NodeType
  Shares,                       \* the tenths an edge may hold
  MaxDepth,                     \* max_depth of a calculation
  MaxEdges                      \* bound on the size of the graph

VARIABLES
  nodes,      \* _nodes
  edges       \* _edges, with the adjacency that _incoming keeps of them

vars == <<nodes, edges>>

Entities == Companies \cup Trusts
Nodes == Persons \cup Entities

ASSUME GraphAssumption ==
  /\ Persons \cap Entities = {} /\ Companies \cap Trusts = {}
  /\ Shares \subseteq 0 .. 10
  /\ MaxDepth \in Nat \ {0}
  /\ MaxEdges \in Nat

\* The edges the graph is given: a trustee edge comes from a person and holds 0.
Edge ==
  [source : Nodes, target : Entities, type : {"OWNS_SHARES", "CONTROLS"}, share : Shares]
    \cup [source : Persons, target : Trusts, type : {"IS_TRUSTEE_OF"}, share : {0}]

TypeOK ==
  /\ nodes \subseteq Nodes
  /\ edges \subseteq Edge

-----------------------------------------------------------------------------
(* The store *)

AddNode(n) ==
  /\ nodes' = nodes \cup {n}
  /\ UNCHANGED edges

\* Two edges of one type between the same nodes would be merged in Neo4j.
Parallel(e, f) == e.source = f.source /\ e.target = f.target /\ e.type = f.type

AddEdge(e) ==
  /\ Cardinality(edges) < MaxEdges
  /\ \A f \in edges : ~Parallel(e, f)
  /\ edges' = edges \cup {e}
  /\ UNCHANGED nodes

Init == nodes = {} /\ edges = {}

Next ==
  \/ \E n \in Nodes \ nodes : AddNode(n)
  \/ \E e \in Edge : AddEdge(e)

Spec == Init /\ [][Next]_vars

-----------------------------------------------------------------------------
(* The calculation *)

Whole == 10 ^ MaxDepth

\* The edges into x that a walk follows: those whose source is known.
Incoming(x) == {e \in edges : e.target = x /\ e.source \in nodes}

\* Bug: the trustee edge counts with the percentage it carries.
StoredTenths(e) == e.share

\* "IS_TRUSTEE_OF edges represent 100% effective control".
Tenths(e) == IF e.type = "IS_TRUSTEE_OF" THEN 10 ELSE e.share

\* Where a walk has got to: a person ends it.
Reached(walk) == Last(walk).source

\* Bug: the walk stops one layer early.
ShallowWalks(x) ==
  LET walks[d \in 1 .. MaxDepth] ==
        IF d = 1
        THEN {<<e>> : e \in Incoming(x)}
        ELSE UNION {{Append(w, e) : e \in Incoming(Reached(w))} :
                      w \in {v \in walks[d - 1] : Reached(v) \notin Persons}}
  IN  UNION {walks[d] : d \in 1 .. MaxDepth - 1}

\* All the walks upstream from x, of at most MaxDepth edges; nothing keeps a walk
\* from going round a cross-holding.
Walks(x) ==
  LET walks[d \in 1 .. MaxDepth] ==
        IF d = 1
        THEN {<<e>> : e \in Incoming(x)}
        ELSE UNION {{Append(w, e) : e \in Incoming(Reached(w))} :
                      w \in {v \in walks[d - 1] : Reached(v) \notin Persons}}
  IN  UNION {walks[d] : d \in 1 .. MaxDepth}

UboPaths(x) == {w \in Walks(x) : Reached(w) \in Persons}

\* Bug: the last edge of the path is left out of the product.
EffectiveOfEntities(walk) ==
  FoldLeft(LAMBDA pct, e : (pct * Tenths(e)) \div 10, Whole, Front(walk))

\* The product of the percentages along a walk.
Effective(walk) == FoldLeft(LAMBDA pct, e : (pct * Tenths(e)) \div 10, Whole, walk)

\* What the trusts that hold shares of x directly pass on to their trustee p.
Deemed(x, p) ==
  MapThenSumSet(LAMBDA ht : (ht[1].share * Whole) \div 10,
    {ht \in Incoming(x) \X edges :
       /\ ht[1].type = "OWNS_SHARES" /\ ht[1].source \in Trusts
       /\ ht[2] \in Incoming(ht[1].source) /\ ht[2].type = "IS_TRUSTEE_OF"
       /\ ht[2].source = p})

TotalOwnership(x, p) ==
  MapThenSumSet(Effective, {w \in UboPaths(x) : Reached(w) = p}) + Deemed(x, p)

\* The persons a calculation lists.
Owners(x) == {Reached(w) : w \in UboPaths(x)} \cup {p \in Persons : Deemed(x, p) > 0}

-----------------------------------------------------------------------------
(* Properties *)

\* What p holds of x through at most d layers, in 10^d-ths, as an equation over the
\* registers of x and of its holders: no paths.
Holding(p) ==
  LET held[d \in 0 .. MaxDepth, x \in Entities] ==
        IF d = 0
        THEN 0
        ELSE MapThenSumSet(
               LAMBDA e : Tenths(e) * (IF e.source = p THEN 10 ^ (d - 1)
                                       ELSE IF e.source \in Persons THEN 0
                                       ELSE held[d - 1, e.source]),
               Incoming(x))
  IN  held

\* The sum over the paths that the walk finds, cross-holdings and diamonds included,
\* is the ownership that the registers imply, plus what a trustee is deemed to hold.
OwnershipMatchesRegisters ==
  \A x \in nodes \cap Entities, p \in Persons :
    TotalOwnership(x, p) = Holding(p)[MaxDepth, x] + Deemed(x, p)

\* Shares alone, of which no entity has issued more than there are.
SoundRegisters ==
  /\ \A e \in edges : e.type = "OWNS_SHARES"
  /\ \A x \in Entities : MapThenSumSet(Tenths, {e \in edges : e.target = x}) <= 10

\* Then the persons found own no more of an entity than there is, however its
\* holders hold each other.
SharesConserved ==
  SoundRegisters =>
    \A x \in nodes \cap Entities : MapThenSumSet(LAMBDA p : TotalOwnership(x, p), Owners(x)) <= Whole

\* "the trustee is deemed to control the trust's ownership percentage", also of
\* entities the trust holds through others.
TrusteesControlTrusts ==
  \A e \in edges :
    e.type = "IS_TRUSTEE_OF" /\ {e.source, e.target} \subseteq nodes =>
      \A x \in nodes \cap Entities :
        MapThenSumSet(Effective, {w \in Walks(x) : Reached(w) = e.target /\ Len(w) < MaxDepth})
          <= TotalOwnership(x, e.source)

\* BeneficialOwner, which a calculation builds of each owner it found, takes a
\* total_ownership_percentage of at most 100.
OwnersFitTheirModel ==
  \A x \in nodes \cap Entities : \A p \in Owners(x) : TotalOwnership(x, p) <= Whole
=============================================================================
