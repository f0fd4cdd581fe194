-------------------------------- MODULE Loops --------------------------------
(***************************************************************************)
(* process_region_graph for kernels with loops: find_loops looks for the   *)
(* regions of the loops before any conditional is folded, and the printer  *)
(* writes them as do-while, with break                                     *)
(* (src/src/regions/functions_for_regions.py, src/src/code_printer.py).    *)
(*                                                                         *)
(* process_loop walks through the nodes of the loop for the variables it   *)
(* assigns.  The walk is modelled, it need not end; the variables it makes *)
(* (make_var_for_loop) are not.                                            *)
(* `operands[1] == instruction' compares a Val with a string and is always *)
(* false, so q_loops only ever holds the starts of loops.                  *)
(***************************************************************************)
EXTENDS Regions

VARIABLES
  q_loops,    \* stack of the loops whose end has not been met
  curr_loop,  \* the loop that contains the region at hand, 0 for None
  body,       \* the loop whose body is being reduced, <<>> if there is none
  curr_node   \* the node that the walk through a loop has come to, 0 if there is none

lvars == <<q_loops, curr_loop, body, curr_node>>

Raise(exception) ==
  /\ phase' = exception
  /\ UNCHANGED <<regions, starts_regions, ends_regions, q, visited, calls, improve_cfg, lvars>>

\* find_loops starts with the loop that is closed first.
StartLoops ==
  /\ phase = "make" /\ q = <<>> /\ back_edges # {}
  /\ LET start == starts_regions[children[Min(back_edges)][1]]
     IN  /\ q_loops' = <<start>> /\ curr_loop' = start
         /\ q' = <<regions[start].children[1]>>
         /\ visited' = {start}
  /\ phase' = "loops"
  /\ UNCHANGED <<regions, starts_regions, ends_regions, calls, improve_cfg, body, curr_node>>

Unvisited(R, c, seen) == SelectSeq(R[c].children, LAMBDA d : d \notin seen)

------------------------------------------------------------------------------
check_loop(R, start, end) ==
  /\ Len(R[start].children) = 1
  /\ Len(R[Child(R, start, 1)].children) = 1
  /\ First(R, Child(R, start, 1)) = end

\* The loop region takes the place of its start below what precedes it, and of its end above
\* what follows it.
Enclosed(R, start, end) ==
  IF Len(R[end].children) < 2 THEN Failed
  ELSE add_parent_and_child(New(R, Region("LOOP", "region", start, end)),
                            R[start].parent[1], Child(R, end, 2), Len(R) + 1, start, end)

\* Then the walk through the nodes of the loop begins.
process_loop(start, end) ==
  /\ regions' = Enclosed(regions, start, end)
  /\ IF regions' = Failed THEN phase' = "ValueError" /\ UNCHANGED curr_node
     ELSE phase' = "vars" /\ curr_node' = regions[start].start
  /\ UNCHANGED <<q, visited, body>>

\* The next region of the walk, c, has been dealt with.
Walked(c, R) ==
  /\ visited' = visited \cup {c}
  /\ q' = Tail(q) \o Unvisited(R, c, visited \cup {c})

\* get_one_loop_region: the loops that end c closes are popped, the last of them is its loop; if
\* it closes none, the loop at hand is taken for it.
Closes(c, l) == children[regions[c].start][1] = regions[l].start
Unclosed(c) == SelectInSeq(Reverse(q_loops), LAMBDA l : ~Closes(c, l))
StillOpen(c) ==
  IF Unclosed(c) = 0 THEN <<>> ELSE SubSeq(q_loops, 1, Len(q_loops) + 1 - Unclosed(c))
LoopOf(c) == IF StillOpen(c) = q_loops THEN curr_loop ELSE q_loops[Len(StillOpen(c)) + 1]

MeetBackEdge(c) ==
  LET start == LoopOf(c)
  IN  CASE instruction[regions[c].start] = "s_branch" -> Raise("IndexError")
        [] instruction[regions[c].start] # "s_branch" /\ curr_loop = 0 -> Raise("AttributeError")
        [] OTHER ->
             /\ q_loops' = StillOpen(c)
             /\ curr_loop' = IF StillOpen(c) = <<>> THEN 0 ELSE Last(StillOpen(c))
             /\ IF check_loop(regions, start, c)
                THEN process_loop(start, c)
                ELSE /\ body' = [start |-> start, end |-> c, q |-> <<start>>, visited |-> {}]
                     /\ phase' = IF Len(regions[c].children) < 2 THEN "IndexError" ELSE "reduce"
                     /\ UNCHANGED <<regions, q, visited, curr_node>>
             /\ UNCHANGED <<starts_regions, ends_regions, calls, improve_cfg>>

WalkLoops ==
  /\ phase = "loops" /\ q # <<>>
  /\ LET c == Head(q)
     IN  IF c \in visited
         THEN /\ q' = Tail(q)
              /\ UNCHANGED <<regions, starts_regions, ends_regions, visited, calls, improve_cfg, phase, lvars>>
         ELSE IF regions[c].type = "BACK_EDGE" THEN MeetBackEdge(c)
         ELSE /\ Walked(c, regions)
              /\ IF regions[c].type = "START_LOOP"
                 THEN curr_loop' = c /\ q_loops' = Append(q_loops, c)
                 ELSE UNCHANGED <<curr_loop, q_loops>>
              /\ UNCHANGED <<regions, starts_regions, ends_regions, calls, improve_cfg, phase, body, curr_node>>

\* The node that the walk of process_loop stops at: the branch back of the loop at hand.
\* Mutant: what follows the loop.
stop_node_after == regions[Child(regions, Head(q), 2)].start
stop_node == regions[Head(q)].start

\* The walk goes from a node to its first child, which is the label when the node is the branch
\* back of another loop.
WalkNodes ==
  /\ phase = "vars"
  /\ IF curr_node = stop_node
     THEN Walked(Head(q), regions) /\ phase' = "loops" /\ body' = <<>> /\ curr_node' = 0
     ELSE /\ IF children[curr_node] = <<>> THEN phase' = "IndexError" /\ UNCHANGED curr_node
             ELSE curr_node' = children[curr_node][1] /\ UNCHANGED phase
          /\ UNCHANGED <<q, visited, body>>
  /\ UNCHANGED <<regions, starts_regions, ends_regions, calls, improve_cfg, q_loops, curr_loop>>

------------------------------------------------------------------------------
(***************************************************************************)
(* process_control_structures_in_loop: breadth first through the body; a   *)
(* branch to what follows the loop becomes a break, until the body is one  *)
(* region.  The result of preprocess_if_and_if_else is dropped.            *)
(***************************************************************************)
after == Child(regions, body.end, 2)

\* The branch of c that stays in the loop.
\* Mutant: the branch that leaves it.
Stays_after(c) == IF Child(regions, c, 2) = after THEN Child(regions, c, 2) ELSE Child(regions, c, 1)

Stays(c) == IF Child(regions, c, 2) = after THEN Child(regions, c, 1) ELSE Child(regions, c, 2)

MakesBreak(c) ==
  /\ regions[c].type = "BASIC" /\ Len(regions[c].children) = 2
  /\ after \in Range(regions[c].children)

\* Mutant: what follows the loop keeps the break among its parents.
Broken_onesided(c) ==
  LET cut == Drop([regions EXCEPT ![c].type = "BREAK_REGION"], c, "children", after)
  IN  IF cut = Failed THEN Failed ELSE join(cut, cut[c].parent[1], c, Stays(c))

Broken(c) ==
  LET cut == Drop(Drop([regions EXCEPT ![c].type = "BREAK_REGION"], c, "children", after), after, "parent", c)
  IN  IF cut = Failed THEN Failed ELSE join(cut, cut[c].parent[1], c, Stays(c))

\* The reduction of the body ends, and with it the visit of the end of the loop.
Leave ==
  /\ phase' = "loops" /\ Walked(body.end, regions) /\ body' = <<>>
  /\ UNCHANGED <<regions, curr_node>>

Enter(c, R) ==
  /\ regions' = R
  /\ phase' = IF R = Failed THEN "ValueError" ELSE phase
  /\ body' = IF R = Failed THEN body
             ELSE [body EXCEPT !.visited = @ \cup {c},
                               !.q = Tail(@) \o Unvisited(R, c, body.visited \cup {c})]
  /\ UNCHANGED <<q, visited, curr_node>>

\* No region is left although the body is not reduced.
Stuck == phase' = "IndexError" /\ UNCHANGED <<regions, q, visited, body, curr_node>>

Reduce ==
  /\ phase = "reduce"
  /\ LET c == Head(body.q)
         unit == check_loop(regions, body.start, body.end)
     IN  CASE First(regions, body.start) = after -> Leave
           [] First(regions, body.start) # after /\ body.q = <<>> -> Stuck
           [] First(regions, body.start) # after /\ body.q # <<>> /\ c \in body.visited ->
                body' = [body EXCEPT !.q = Tail(@)] /\ UNCHANGED <<regions, q, visited, phase, curr_node>>
           [] OTHER ->
                \/ unit /\ process_loop(body.start, body.end)
                \/ ~unit /\ MakesBreak(c) /\ Enter(c, Broken(c))
                \/ /\ ~unit /\ ~MakesBreak(c)
                   /\ IF check_if(regions, c) \/ check_if_else(regions, c)
                      THEN phase' = "TypeError" /\ UNCHANGED <<regions, q, visited, body, curr_node>>
                      ELSE Enter(c, regions)
  /\ UNCHANGED <<starts_regions, ends_regions, calls, improve_cfg, q_loops, curr_loop>>

------------------------------------------------------------------------------
(***************************************************************************)
(* The fold that follows, with the case of a loop.  A loop that is still   *)
(* open when the walk ends is popped and looked at as the end of a loop.   *)
(***************************************************************************)
FoldLoops ==
  /\ phase = "loops" /\ q = <<>>
  /\ IF q_loops # <<>>
     THEN Raise(IF Len(q_loops) > 1 THEN "IndexError" ELSE "AttributeError")
     ELSE /\ calls' = <<Call(starts_regions[1])>>
          /\ visited' = {starts_regions[1]}
          /\ phase' = "fold"
          /\ UNCHANGED <<regions, starts_regions, ends_regions, q, improve_cfg, lvars>>

ReturnLoop ==
  /\ phase = "fold" /\ Exhausted
  /\ regions[Current.region].type = "LOOP"
  /\ LET r == Current.region
         before == regions[r].parent[1]
         joined == join(regions, before, r, First(regions, r))
     IN  Fold([regions |-> joined, result |-> IF joined = Failed THEN 0 ELSE join_result(regions, before, joined)])
  /\ UNCHANGED <<starts_regions, ends_regions, q, visited>>

FoldStep ==
  /\ \/ StartRegions \/ MakeRegion \/ StartFold \/ NextChild \/ ReturnLoop
     \/ FoldReturn /\ regions[Current.region].type # "LOOP"
  /\ UNCHANGED lvars

LoopsInit == RegionInit /\ q_loops = <<>> /\ curr_loop = 0 /\ body = <<>> /\ curr_node = 0

LoopsNext == StartLoops \/ WalkLoops \/ WalkNodes \/ Reduce \/ FoldLoops \/ FoldStep

LoopsStep == LoopsNext /\ UNCHANGED vars

------------------------------------------------------------------------------
(***************************************************************************)
(* The printed text as a tree, and the flow of control through it.  A      *)
(* statement is known by its node, a condition by its branch: every one of *)
(* them is printed as what holds when the branch is not taken, and an if   *)
(* runs its body then, while break and do-while negate it.                 *)
(***************************************************************************)
Item(kind, n) == [kind |-> kind, node |-> n, body |-> <<>>, other |-> <<>>]

\* What is executed: not labels, jumps and the end of the program.
Visible(n) == instruction[n] \in {"plain", "s_br", "s_nbr"}

text(region) ==
  LET out[r \in DOMAIN regions] ==
        LET R == regions[r]
            line[c \in DOMAIN regions \cup {0}] ==
              CASE c = 0     -> <<Item("statement", 0)>>
                [] c = R.end -> out[c]
                [] OTHER     -> out[c] \o line[First(regions, c)]
            branch(i) == out[regions[R.start].children[i]]
            condition == regions[R.start].start
            nodes == visits(first_node(R), R.end)
        IN  CASE R.type = "LINEAR" /\ R.of = "node" ->
                   SelectSeq([i \in DOMAIN nodes |-> Item("statement", nodes[i].node)], LAMBDA s : Visible(s.node))
              [] R.type = "LINEAR" /\ R.of = "region" -> line[R.start]
              [] R.type = "IF_STATEMENT" -> <<[Item("if", condition) EXCEPT !.body = branch(1)]>>
              [] R.type = "IF_ELSE_STATEMENT" ->
                   <<[Item("if", condition) EXCEPT !.body = branch(1), !.other = branch(2)]>>
              [] R.type = "LOOP" -> <<[Item("loop", regions[R.end].start) EXCEPT !.body = branch(1)]>>
              [] R.type = "BREAK_REGION" -> <<Item("break", R.start)>>
              [] OTHER -> <<>>
  IN  out[region]

\* if (!(...)) break, and do ... while (!(...)).
\* Mutant: the break lacks the negation.
BreakFlow_unnegated(n, next, break) == {<<n, FALSE, break>>, <<n, TRUE, next>>}
BreakFlow(n, next, break) == {<<n, TRUE, break>>, <<n, FALSE, next>>}

WhileFlow(n, again, next) == {<<n, TRUE, again>>, <<n, FALSE, next>>}

RECURSIVE Entry(_, _), Flow(_, _, _)

\* The first statement of a text that goes on with `next'.
Entry(txt, next) ==
  CASE txt = <<>> -> next
    [] txt # <<>> /\ txt[1].kind = "loop" -> Entry(txt[1].body, txt[1].node)
    [] OTHER -> txt[1].node

\* <<n, taken, m>>: from n, as a branch taken or not, control goes to m; 0 is the end.
Flow(txt, next, break) ==
  IF txt = <<>> THEN {}
  ELSE LET s == txt[1]
           k == Entry(Tail(txt), next)
           step == CASE s.kind = "statement" -> {<<s.node, FALSE, k>>}
                     [] s.kind = "if" -> {<<s.node, FALSE, Entry(s.body, k)>>, <<s.node, TRUE, Entry(s.other, k)>>}
                                          \cup Flow(s.body, k, break) \cup Flow(s.other, k, break)
                     [] s.kind = "loop" -> WhileFlow(s.node, Entry(s.body, s.node), k) \cup Flow(s.body, s.node, k)
                     [] s.kind = "break" -> BreakFlow(s.node, k, break)
       IN  step \cup Flow(Tail(txt), next, break)

\* The same of the graph.
Target(n) ==
  IF n \in back_edges THEN children[n][1]
  ELSE to_node[CHOOSE l \in Labels : n \in Range(from_node[l])]

Reached(n) ==
  LET reach[m \in Nodes] ==
        CASE Visible(m) -> m
          [] children[m] = <<>> -> 0
          [] OTHER -> reach[children[m][1]]
  IN  reach[n]

GraphFlow ==
  LET visible == {n \in Nodes : Visible(n)}
  IN  {<<n, FALSE, Reached(n + 1)>> : n \in visible}
        \cup {<<n, TRUE, Reached(Target(n))>> : n \in {v \in visible : instruction[v] # "plain"}}

\* The flow of control through the printed text is the flow of control through the graph.
FlowAgrees ==
  LET printed == text(improve_cfg)
  IN  Entry(printed, 0) = Reached(1) /\ Flow(printed, 0, 0) = GraphFlow

RECURSIVE Written(_)
Written(txt) ==
  IF txt = <<>> THEN {} ELSE {txt[1].node} \cup Written(txt[1].body) \cup Written(txt[1].other) \cup Written(Tail(txt))

FlowPrinted == phase = "folded" => FlowAgrees

\* Whatever the program: if none of its statements and branches is lost in the text, control
\* flows through the text as through the graph.  A graph that does not fold may cost code, but
\* what is written is never written wrong.
CompleteIsRight ==
  (phase = "folded" /\ {n \in Nodes : Visible(n)} = Written(text(improve_cfg))) => FlowAgrees

\* The walk finds every region where it expects one.
NoLoopException == phase \notin {"ValueError", "IndexError", "AttributeError", "TypeError"}
==============================================================================
