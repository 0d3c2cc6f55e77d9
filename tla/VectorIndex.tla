------------------------------ MODULE VectorIndex ------------------------------
(***************************************************************************)
(* The HNSW index of Sifa (sifa/index/hnsw.py) and retrieval from it       *)
(* (sifa/retrieval/two_tower.py): keys are added one by one, with a level  *)
(* drawn at random, and linked on every layer to the nearest nodes a       *)
(* search of the layer finds; a node with too many links drops those to    *)
(* the farthest; a key added again gets a new vector and keeps its links.  *)
(*                                                                         *)
(* A vector is a point of a line on which no two distances are the same,   *)
(* so that no comparison is a tie.  Queries are points as well.            *)
(***************************************************************************)
EXTENDS Naturals, Integers, Sequences, FiniteSets, Functions

CONSTANTS
  Point,      \* where vectors may be
  Query,      \* where vectors that are searched for may be
  TopLevel,   \* bound: levels drawn are 0..TopLevel
  M,          \* HnswConfig.m
  Ef,         \* ef_construction and ef_search
  MaxNodes,   \* bound: keys added
  MaxMoves    \* bound: keys added again

Gap(p, q) == IF p < q THEN q - p ELSE p - q

ASSUME IndexAssumption ==
  /\ Point \subseteq Nat /\ Query \subseteq Point
  /\ TopLevel \in Nat /\ MaxNodes \in Nat /\ MaxMoves \in Nat
  /\ M \in Nat \ {0, 1} /\ Ef \in Nat /\ Ef >= M
  /\ \A p, q, r, s \in Point :
       p < q /\ r < s /\ Gap(p, q) = Gap(r, s) => p = r /\ q = s

VARIABLES
  nodes,      \* in the order they were added: point, level, and links on each layer
  entry,      \* the node every search begins with; 0 when there is none
  moves       \* bound: keys added again

indexVars == <<nodes, entry, moves>>

Node == DOMAIN nodes
Layer(n) == 0..nodes[n].level
Limit(layer) == IF layer = 0 THEN 2 * M ELSE M

IndexTypeOK ==
  /\ Len(nodes) <= MaxNodes /\ entry \in Node \cup {0} /\ (entry = 0 <=> nodes = << >>)
  /\ \A n \in Node :
       /\ nodes[n].point \in Point /\ nodes[n].level \in 0..TopLevel
       /\ nodes[n].links \in [Layer(n) -> SUBSET (Node \ {n})]
  /\ \A m, n \in Node : nodes[m].point = nodes[n].point => m = n
  /\ moves \in 0..MaxMoves

IndexInit == nodes = << >> /\ entry = 0 /\ moves = 0

-----------------------------------------------------------------------------
\* _neighbours
Neighbours(n, layer) == IF layer \in Layer(n) THEN nodes[n].links[layer] ELSE {}
Away(p, n) == Gap(p, nodes[n].point)
Nearest(p, S) == CHOOSE n \in S : \A m \in S : Away(p, n) <= Away(p, m)
Nearer(p, S, n) == {m \in S : Away(p, m) < Away(p, n)}
ByDistance(p, S) ==
  [i \in 1..Cardinality(S) |-> CHOOSE n \in S : Cardinality(Nearer(p, S, n)) = i - 1]
FirstFew(s, k) == SubSeq(s, 1, IF k < Len(s) THEN k ELSE Len(s))

\* _greedy_descend: to the nearest neighbour, if it is nearer.
Closer(p, n, layer) ==
  LET near == Neighbours(n, layer)
  IN IF near # {} /\ Away(p, Nearest(p, near)) < Away(p, n) THEN Nearest(p, near) ELSE n

\* No node comes twice, so that as many steps as there are nodes are enough.
Descend(p, n, layer) ==
  LET walk[i \in 0..Len(nodes)] == IF i = 0 THEN n ELSE Closer(p, walk[i - 1], layer)
  IN walk[Len(nodes)]

\* The ef nearest of those found and the fresh neighbours, taken in any order: a neighbour
\* is left out when there are ef nearer ones.
Closest(p, S, ef) == {n \in S : Cardinality(Nearer(p, S, n)) < ef}

\* _search_layer: the nearest of the frontier is expanded, unless it is farther than the
\* farthest that was found, or there is none.
Expanded(p, layer, ef, s) ==
  LET n == Nearest(p, s.frontier)
      fresh == Neighbours(n, layer) \ s.visited
      better == Closest(p, s.found \cup fresh, ef)
  IN IF s.frontier = {} \/ \A m \in s.found : Away(p, m) < Away(p, n) THEN s
     ELSE [visited |-> s.visited \cup fresh, found |-> better,
           frontier |-> (s.frontier \ {n}) \cup (better \cap fresh)]

\* No node is expanded twice, so that as many steps as there are nodes are enough.
SearchLayer(p, from, layer, ef) ==
  LET after[i \in 0..Len(nodes)] ==
        IF i = 0 THEN [visited |-> {from}, found |-> {from}, frontier |-> {from}]
        ELSE Expanded(p, layer, ef, after[i - 1])
  IN after[Len(nodes)].found

-----------------------------------------------------------------------------
Top == nodes[entry].level

\* Where the search of a layer begins, for a vector that is to be linked from level down.
Begins(p, level) ==
  LET from[layer \in 0..Top] ==
        IF layer = Top THEN entry
        ELSE IF layer + 1 > level THEN Descend(p, from[layer + 1], layer + 1)
        ELSE Nearest(p, SearchLayer(p, from[layer + 1], layer + 1, Ef))
  IN from

\* _select_neighbours
Chosen(p, layer, level) ==
  FirstFew(ByDistance(p, SearchLayer(p, Begins(p, level)[layer], layer, Ef)), M)

\* The links of a layer: a function g from nodes to their neighbours.

\* Mutant of Unlinked: only one side of the link is dropped.
UnlinkedOneWay(g, m, n) == [g EXCEPT ![m] = @ \ {n}]

Unlinked(g, m, n) == [g EXCEPT ![m] = @ \ {n}, ![n] = @ \ {m}]

IsCrowded(g, n, layer) == Cardinality(g[n]) > Limit(layer)

Farthest(at, n, S) == CHOOSE m \in S : \A l \in S : Gap(at[n], at[l]) <= Gap(at[n], at[m])

\* _prune: one link too many, and the longest is dropped.
Pruned(g, at, n, layer) ==
  IF IsCrowded(g, n, layer) THEN Unlinked(g, n, Farthest(at, n, g[n])) ELSE g

\* The new node x is linked to one of those chosen, which is pruned.
Linked(g, at, x, n, layer) ==
  Pruned([g EXCEPT ![x] = @ \cup {n}, ![n] = @ \cup {x}], at, n, layer)

\* What add() makes of a layer, with the new node last: layers do not touch each other.
WithLinks(p, layer, level) ==
  LET x == Len(nodes) + 1
      at == [n \in 1..x |-> IF n = x THEN p ELSE nodes[n].point]
      chosen == Chosen(p, layer, level)
      joined[k \in 0..Len(chosen)] ==
        IF k = 0 THEN [n \in 1..x |-> IF n = x THEN {} ELSE Neighbours(n, layer)]
        ELSE Linked(joined[k - 1], at, x, chosen[k], layer)
  IN joined[Len(chosen)]

NewNode(p, level) == [point |-> p, level |-> level, links |-> [layer \in 0..level |-> {}]]

HigherEntry(x, level) == IF entry = 0 \/ level > Top THEN x ELSE entry

\* add() of a new key: linked on the layers that it shares with the entry.
Grown(p, level) == Append(nodes, NewNode(p, level))

Shared(level) == 0..(IF level < Top THEN level ELSE Top)

Joined(p, level) ==
  LET graph == [layer \in Shared(level) |-> WithLinks(p, layer, level)]
      links(n) == [layer \in 0..Grown(p, level)[n].level |->
                     IF layer \in Shared(level) THEN graph[layer][n]
                     ELSE Grown(p, level)[n].links[layer]]
  IN [n \in 1..(Len(nodes) + 1) |-> [Grown(p, level)[n] EXCEPT !.links = links(n)]]

Add(p, level) ==
  /\ Len(nodes) < MaxNodes /\ \A n \in Node : nodes[n].point # p
  /\ nodes' = IF entry = 0 THEN Grown(p, level) ELSE Joined(p, level)
  /\ entry' = HigherEntry(Len(nodes) + 1, level)
  /\ UNCHANGED moves

\* add() of a key that is there.
Move(n, p) ==
  /\ moves < MaxMoves /\ \A m \in Node : nodes[m].point # p
  /\ nodes' = [nodes EXCEPT ![n].point = p]
  /\ moves' = moves + 1
  /\ UNCHANGED entry

IndexNext ==
  \E p \in Point :
    \/ \E level \in 0..TopLevel : Add(p, level)
    \/ \E n \in Node : Move(n, p)

IndexSpec == IndexInit /\ [][IndexNext]_indexVars

-----------------------------------------------------------------------------
\* search(), which looks for as many as it is asked for at least.
Search(p, k, ef) ==
  IF entry = 0 THEN << >>
  ELSE FirstFew(ByDistance(p, SearchLayer(p, Begins(p, 0)[0], 0, IF ef < k THEN k ELSE ef)), k)

\* brute_force()
BruteForce(p, k) == FirstFew(ByDistance(p, Node), k)

Overshoot(k, blocked) == k + Cardinality(blocked)

\* Retriever.retrieve: the k best that were not seen, in the order they were found, which is
\* that of their distances; asked for with the least ef_search there may be.
Retrieve(p, k, blocked) ==
  FirstFew(ByDistance(p, Range(Search(p, Overshoot(k, blocked), 1)) \ blocked), k)

\* Links are kept on both sides, on layers both nodes have: no search walks off a layer.
LinksAreMutual ==
  \A n \in Node : \A layer \in Layer(n) : \A m \in nodes[n].links[layer] :
    layer \in Layer(m) /\ n \in nodes[m].links[layer]

\* No node has more links than its layer allows.
LinksAreBounded ==
  \A n \in Node : \A layer \in Layer(n) : Cardinality(nodes[n].links[layer]) <= Limit(layer)

\* Every search begins on the highest layer there is, or nodes of that layer are missed.
EntryIsOnTop == \A n \in Node : nodes[n].level <= Top

\* While a node may have links to all others, a search for all there is finds it all, nearest first, as
\* brute force does, also after keys got new vectors under their old links.
SearchForAllIsExact ==
  Len(nodes) <= 2 * M + 1 =>
    \A p \in Query : Search(p, Len(nodes), 1) = BruteForce(p, Len(nodes))

\* ... and whatever a user has seen, retrieval fills the feed with what is left: seen items
\* take nobody's place.
RetrievalSkipsTheSeen ==
  Len(nodes) <= 2 * M + 1 =>
    \A p \in Query : \A blocked \in SUBSET Node :
      LET k == Len(nodes) - Cardinality(blocked)
      IN Range(Retrieve(p, k, blocked)) = Node \ blocked

\* The index: links on both sides and within the limits, an entry on top, and from it every
\* node is found that there is room to link.
IndexIsNavigable ==
  /\ IndexTypeOK /\ LinksAreMutual /\ LinksAreBounded /\ EntryIsOnTop
  /\ SearchForAllIsExact /\ RetrievalSkipsTheSeen

=============================================================================
