------------------------------- MODULE Regions -------------------------------
(***************************************************************************)
(* BuildRegionGraphPass and the walk of the printer: the graph of module   *)
(* Cfg is cut into regions, the regions of a conditional are folded into   *)
(* one, and what is left is printed                                        *)
(* (src/src/regions/functions_for_regions.py, src/src/code_printer.py).    *)
(*                                                                         *)
(* A region is a number, in the order of creation.  It runs from `start'   *)
(* to `end', which are nodes of the graph or, in a region folded from      *)
(* others (`of' = "region"), regions.  A Python exception in the middle of *)
(* an update leaves the empty sequence, Failed, in place of the regions.   *)
(*                                                                         *)
(* Kernels with loops (find_loops) are not covered: Fold waits for a graph *)
(* without back edges.                                                     *)
(***************************************************************************)
EXTENDS Cfg

VARIABLES
  regions,         \* region -> [type, of, start, end, parent, children]
  starts_regions,  \* node -> the region that starts there
  ends_regions,    \* node -> the region that ends there
  q,               \* nodes that wait for their region
  visited,         \* nodes that have one; later, regions the fold has entered
  calls,           \* stack of calls of process_region_graph_dfs: [region, next, result]
  improve_cfg,     \* the region that is printed, 0 before it is known
  phase            \* "cfg", "make", "fold", "folded", or the exception

rvars == <<regions, starts_regions, ends_regions, q, visited, calls, improve_cfg, phase>>

Failed == <<>>

Region(type, of, start, end) ==
  [type |-> type, of |-> of, start |-> start, end |-> end, parent |-> <<>>, children |-> <<>>]

------------------------------------------------------------------------------
(***************************************************************************)
(* Updates of the lists of a region; list.index and list.remove raise      *)
(* ValueError when the element is missing.                                 *)
(***************************************************************************)
Add(R, r, list, x) == IF R = Failed THEN Failed ELSE [R EXCEPT ![r][list] = Append(@, x)]

Connect(R, p, c) == Add(Add(R, p, "children", c), c, "parent", p)

Replace(R, r, list, old, new) ==
  IF R = Failed \/ ~Contains(R[r][list], old) THEN Failed
  ELSE [R EXCEPT ![r][list][SelectInSeq(R[r][list], LAMBDA x : x = old)] = new]

Drop(R, r, list, x) ==
  IF R = Failed \/ ~Contains(R[r][list], x) THEN Failed
  ELSE [R EXCEPT ![r][list] = RemoveFirst(@, x)]

New(R, region) == IF R = Failed THEN Failed ELSE Append(R, region)

------------------------------------------------------------------------------
(***************************************************************************)
(* make_region_graph_from_cfg: breadth first through the nodes.  A node    *)
(* with one parent and at most one child prolongs the linear region of its *)
(* parent; every other node is a region of its own, made once all of its   *)
(* parents have theirs.                                                    *)
(***************************************************************************)
loops == {children[b][1] : b \in back_edges}

Special(n) == n \in loops \/ n \in back_edges
InLine(n) == ~Special(n) /\ Len(parent[n]) = 1 /\ Len(children[n]) <= 1

StartRegions ==
  /\ phase = "cfg"
  /\ regions' = <<Region("LINEAR", "node", 1, 1)>>
  /\ starts_regions' = (1 :> 1) /\ ends_regions' = (1 :> 1)
  /\ visited' = {1}
  /\ q' = <<children[1][1]>>
  /\ phase' = "make"
  /\ UNCHANGED <<calls, improve_cfg>>

\* The children not visited yet are queued, the others become children of region r at once.
Later(n, seen) == SelectSeq(children[n], LAMBDA c : c \notin seen)
\* Mutant: they are forgotten.
ToVisited_none(R, n, r, seen) == R

ToVisited(R, n, r, seen) ==
  FoldLeft(LAMBDA S, c : IF c \in seen THEN Connect(S, r, starts_regions[c]) ELSE S, R, children[n])

\* The region that the parent p of n ends, or the one its first sibling ends.
parent_region(n, p) ==
  IF p \in DOMAIN ends_regions THEN ends_regions[p] ELSE ends_regions[children[parent[n][1]][1]]

\* A region of its own for node n, below the regions of its parents.
Own(n, type) ==
  LET r == Len(regions) + 1
      R == Append(regions, Region(type, "node", n, n))
      seen == visited \cup {n}
  IN  /\ regions' = ToVisited(FoldLeft(LAMBDA S, p : IF p \in seen THEN Connect(S, parent_region(n, p), r) ELSE S,
                                       R, parent[n]),
                              n, r, seen)
      /\ starts_regions' = (n :> r) @@ starts_regions
      /\ ends_regions' = (n :> r) @@ ends_regions
      /\ visited' = seen
      /\ q' = Tail(q) \o Later(n, seen)

\* The linear region of the parent, which now ends at n.
Prolong(n) ==
  LET p == parent[n][1]
      r == ends_regions[p]
      seen == visited \cup {n}
  IN  /\ regions' = ToVisited([regions EXCEPT ![r].end = n], n, r, seen)
      /\ ends_regions' = [m \in (DOMAIN ends_regions \ {p}) \cup {n} |-> IF m = n THEN r ELSE ends_regions[m]]
      /\ visited' = seen
      /\ q' = Tail(q) \o Later(n, seen)
      /\ UNCHANGED starts_regions

\* A node some of whose parents have no region yet: it waits for them, but leaves a region
\* without neighbours behind.
Waits(n) == ~Special(n) /\ ~InLine(n) /\ \E p \in Range(parent[n]) : p \notin visited

MakeRegion ==
  /\ phase = "make" /\ q # <<>>
  /\ LET n == Head(q)
     IN  \/ /\ n \in visited
            /\ q' = Tail(q)
            /\ UNCHANGED <<regions, starts_regions, ends_regions, visited>>
         \/ /\ n \notin visited /\ Waits(n)
            /\ regions' = Append(regions, Region("BASIC", "node", n, n))
            /\ starts_regions' = (n :> Len(regions) + 1) @@ starts_regions
            /\ ends_regions' = (n :> Len(regions) + 1) @@ ends_regions
            /\ q' = Tail(q)
            /\ UNCHANGED visited
         \/ /\ n \notin visited /\ Special(n)
            /\ Own(n, IF n \in loops THEN "START_LOOP" ELSE "BACK_EDGE")
         \/ /\ n \notin visited /\ InLine(n)
            /\ IF regions[ends_regions[parent[n][1]]].type = "LINEAR" THEN Prolong(n) ELSE Own(n, "LINEAR")
         \/ /\ n \notin visited /\ ~Waits(n) /\ ~Special(n) /\ ~InLine(n)
            /\ Own(n, "BASIC")
  /\ UNCHANGED <<calls, improve_cfg, phase>>

------------------------------------------------------------------------------
(***************************************************************************)
(* Folding a conditional.                                                  *)
(***************************************************************************)
Child(R, r, i) == R[r].children[i]
First(R, r) == IF R[r].children = <<>> THEN 0 ELSE R[r].children[1]

check_if(R, r) ==
  /\ R[r].type = "BASIC" /\ Len(R[r].children) = 2
  /\ \/ First(R, Child(R, r, 1)) = Child(R, r, 2)
     \/ First(R, Child(R, r, 2)) = Child(R, r, 1)

check_if_else(R, r) ==
  /\ R[r].type = "BASIC" /\ Len(R[r].children) = 2
  /\ First(R, Child(R, r, 1)) # 0
  /\ First(R, Child(R, r, 1)) = First(R, Child(R, r, 2))

\* A region between two branches and the end they share with an enclosing conditional.
\* Mutant: the shared end does not learn of it.
create_new_region_unknown(R, prev_1, prev_2, next) ==
  LET new == Len(R) + 1
      dropped == Drop(Drop(R, prev_1, "children", next), prev_2, "children", next)
      made == New(dropped, Region("LINEAR", R[next].of, R[next].start, R[next].start))
  IN  Add(Connect(Connect(made, prev_1, new), prev_2, new), new, "children", next)

create_new_region(R, prev_1, prev_2, next) ==
  LET new == Len(R) + 1
      dropped == Drop(Drop(R, prev_1, "children", next), prev_2, "children", next)
      moved == Drop(Replace(dropped, next, "parent", prev_1, new), next, "parent", prev_2)
      made == New(moved, Region("LINEAR", R[next].of, R[next].start, R[next].start))
  IN  Add(Connect(Connect(made, prev_1, new), prev_2, new), new, "children", next)

\* The region takes the place of prev_child below `before' and of prev_parent above `next'.
add_parent_and_child(R, before, next, region, prev_child, prev_parent) ==
  LET below == Add(Replace(R, before, "children", prev_child, region), region, "parent", before)
  IN  IF next = 0 THEN below
      ELSE Add(Replace(below, next, "parent", prev_parent, region), region, "children", next)

\* A linear region from `from' to `to' takes the place of `child' below `above', if there is
\* one, and of `last' above `next', if there is one.
Line(R, from, to, above, child, last, next) ==
  LET r == Len(R) + 1
      made == New(R, Region("LINEAR", "region", from, to))
      placed == IF above = 0 THEN made
                ELSE Add(Replace(made, above, "children", child, r), r, "parent", above)
  IN  IF next = 0 THEN placed
      ELSE Add(Replace(placed, next, "parent", last, r), r, "children", next)

\* join_regions: the folded region with its linear neighbours.
join(R, before, curr, next) ==
  LET above == IF R[before].parent = <<>> THEN 0 ELSE R[before].parent[1]
      region == Len(R) + 1
      two == Line(R, before, curr, above, before, curr, next)
      alone == Len(R[curr].parent) = 1
  IN  CASE R[before].type # "BASIC" /\ two # Failed /\ next # 0 /\ alone /\ R[next].type # "BASIC" ->
             Line(two, before, next, above, region, next, First(two, next))
        [] R[before].type = "BASIC" /\ next # 0 /\ alone ->
             Line(R, curr, next, before, curr, next, First(R, next))
        [] R[before].type = "BASIC" /\ (next = 0 \/ ~alone) -> R
        [] OTHER -> two

\* What join_regions returns: `before', or the newest region when `before' was the first.
\* Mutant: always `before'.
join_result_before(R, before, joined) == before

join_result(R, before, joined) ==
  IF R[before].type # "BASIC" /\ R[before].parent = <<>> THEN Len(joined) ELSE before

\* Both statements are folded to a region of the given type that starts at r and ends at `end',
\* a region of R or the region that create_new_region makes.
\* The result is the regions and the value the code returns.
Statement(R, type, r, end) ==
  LET before == R[r].parent[1]
      region == Len(R) + 1
      next == First(R, end)
      folded == add_parent_and_child(New(R, Region(type, "region", r, end)), before, next, region, r, end)
      joined == join(folded, before, region, next)
  IN  IF R = Failed \/ folded = Failed \/ joined = Failed THEN [regions |-> Failed, result |-> 0]
      ELSE [regions |-> joined, result |-> join_result(folded, before, joined)]

\* The branch is the child with one parent, the end is the other one.
process_if_statement_region(R, r) ==
  LET a == Child(R, r, 1)
      b == Child(R, r, 2)
      child0 == IF Len(R[a].parent) = 1 THEN a ELSE b
      child1 == IF Len(R[b].parent) > 1 THEN b ELSE a
  IN  IF Len(R[child1].parent) <= 2 THEN Statement(R, "IF_STATEMENT", r, child1)
      ELSE Statement(create_new_region(R, r, child0, child1), "IF_STATEMENT", r, Len(R) + 1)

process_if_else_statement_region(R, r) ==
  LET child0 == Child(R, r, 1)
      end == First(R, child0)
  IN  IF Len(R[end].parent) <= 2 THEN Statement(R, "IF_ELSE_STATEMENT", r, end)
      ELSE Statement(create_new_region(R, child0, Child(R, r, 2), end), "IF_ELSE_STATEMENT", r, Len(R) + 1)

------------------------------------------------------------------------------
(***************************************************************************)
(* process_region_graph_dfs: depth first, a conditional is folded when all *)
(* that follows it has been.  The list of children may change while it is  *)
(* iterated: the iterator keeps its position, not its element.             *)
(***************************************************************************)
Call(r) == [region |-> r, next |-> 1, result |-> r]

StartFold ==
  /\ phase = "make" /\ q = <<>>
  /\ back_edges = {}
  /\ calls' = <<Call(starts_regions[1])>>
  /\ visited' = {starts_regions[1]}
  /\ phase' = "fold"
  /\ UNCHANGED <<regions, starts_regions, ends_regions, q, improve_cfg>>

Current == Last(calls)
Exhausted == Current.next > Len(regions[Current.region].children)

NextChild ==
  LET c == regions[Current.region].children[Current.next]
      moved == [calls EXCEPT ![Len(calls)].next = @ + 1]
  IN  /\ phase = "fold" /\ ~Exhausted
      /\ calls' = IF c \in visited THEN moved ELSE Append(moved, Call(c))
      /\ visited' = visited \cup {c}
      /\ UNCHANGED <<regions, starts_regions, ends_regions, q, improve_cfg, phase>>

\* The call on top returns: its caller takes over the result, or it is what will be printed.
Return(result) ==
  /\ calls' = IF Len(calls) = 1 THEN <<>> ELSE [Front(calls) EXCEPT ![Len(calls) - 1].result = result]
  /\ improve_cfg' = IF Len(calls) = 1 THEN result ELSE improve_cfg
  /\ phase' = IF Len(calls) = 1 THEN "folded" ELSE phase

Fold(statement) ==
  /\ regions' = statement.regions
  /\ IF statement.regions # Failed THEN Return(statement.result)
     ELSE phase' = "ValueError" /\ UNCHANGED <<calls, improve_cfg>>

FoldReturn ==
  /\ phase = "fold" /\ Exhausted
  /\ LET r == Current.region
     IN  \/ check_if(regions, r) /\ Fold(process_if_statement_region(regions, r))
         \/ ~check_if(regions, r) /\ check_if_else(regions, r) /\ Fold(process_if_else_statement_region(regions, r))
         \/ ~check_if(regions, r) /\ ~check_if_else(regions, r) /\ Return(Current.result) /\ UNCHANGED regions
  /\ UNCHANGED <<starts_regions, ends_regions, q, visited>>

------------------------------------------------------------------------------
(***************************************************************************)
(* create_opencl_body: the nodes the printer visits, in the order of the   *)
(* printed text, each with the conditions around it: <<node, TRUE>> in the *)
(* then-branch of the if printed for the node, <<node, FALSE>> in its      *)
(* else-branch.  A walk beyond the last node raises IndexError, here the   *)
(* visit of node 0.                                                        *)
(***************************************************************************)
Visit(n) == [node |-> n, when |-> {}]
Under(n, b, out) == [i \in DOMAIN out |-> [out[i] EXCEPT !.when = @ \cup {<<n, b>>}]]

Successor(n) == IF n = 0 \/ children[n] = <<>> THEN 0 ELSE children[n][1]

\* From node n to the end of a linear region.
visits(n, end) ==
  LET walk[m \in Nodes \cup {0}] ==
        IF m = 0 \/ m = end THEN <<Visit(m)>> ELSE <<Visit(m)>> \o walk[Successor(m)]
  IN  walk[n]

first_node(r) ==
  LET n == IF r.start = 1 THEN Successor(1) ELSE r.start
  IN  IF n # 0 /\ instruction[n] = "change_mask" THEN Successor(n) ELSE n

make_output_from_region(region) ==
  LET out[r \in DOMAIN regions] ==
        LET R == regions[r]
            line[c \in DOMAIN regions \cup {0}] ==
              CASE c = 0     -> <<Visit(0)>>
                [] c = R.end -> out[c]
                [] OTHER     -> out[c] \o line[First(regions, c)]
            branch(i) == out[regions[R.start].children[i]]
            condition == regions[R.start].start
        IN  CASE R.type = "LINEAR" /\ R.of = "node"   -> visits(first_node(R), R.end)
              [] R.type = "LINEAR" /\ R.of = "region" -> line[R.start]
              [] R.type = "IF_STATEMENT"              -> Under(condition, TRUE, branch(1))
              [] R.type = "IF_ELSE_STATEMENT"         -> Under(condition, TRUE, branch(1)) \o Under(condition, FALSE, branch(2))
              [] OTHER                                -> <<>>
  IN  out[region]

RegionInit ==
  /\ regions = <<>> /\ starts_regions = <<>> /\ ends_regions = <<>>
  /\ q = <<>> /\ visited = {} /\ calls = <<>> /\ improve_cfg = 0
  /\ phase = "cfg"

RegionNext == StartRegions \/ MakeRegion \/ StartFold \/ NextChild \/ FoldReturn

RegionStep == RegionNext /\ UNCHANGED vars

\* The kernel is complete: the last instruction is in the graph, and so are all labels.
Assembled ==
  /\ instruction[last_node] = "s_endpgm"
  /\ \A l \in Labels : from_node[l] # <<>> => to_node[l] # 0

------------------------------------------------------------------------------
(***************************************************************************)
(* Properties.                                                             *)
(***************************************************************************)
Live == {starts_regions[n] : n \in DOMAIN starts_regions}
NodesOf(r) == {v.node : v \in Range(visits(regions[r].start, regions[r].end))}

\* No instruction is unreachable.
NoDeadCode ==
  \A n \in Nodes \ {1} : \E p \in Range(parent[n]) : p < n

\* Before any folding the regions are the graph again: every instruction lies in one of them,
\* and there is an edge between two of them where there is one from the end of the first to
\* the start of the second.
RegionsMirrorGraph ==
  (phase = "make" /\ q = <<>> /\ NoDeadCode) =>
    /\ \A n \in Nodes : Cardinality({r \in Live : n \in NodesOf(r)}) = 1
    /\ \A r, s \in Live :
         LET edge == regions[s].start \in Range(children[regions[r].end])
         IN  /\ s \in Range(regions[r].children) <=> edge
             /\ r \in Range(regions[s].parent) <=> edge

\* Folding never misses a region where it expects one.
NoRegionException == phase # "ValueError"
==============================================================================
