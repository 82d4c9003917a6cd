------------------------------- MODULE RbTree -------------------------------
(***************************************************************************)
(* The red-black tree of apps/msg/rbtree.c.  An operation is a sequence of *)
(* stores in program order, and between two of them a lookup that takes no *)
(* lock may look at the tree: the notes at the head of the file promise    *)
(* that it never meets a loop.  Each iteration of a rebalancing loop reads *)
(* the tree and queues the stores it makes; Store performs them up to the  *)
(* next one a lookup can see.                                              *)
(* The two mirrored halves of the C functions are one definition here, for *)
(* side d of the parent and the opposite side Opp(d).                      *)
(*                                                                         *)
(* rbtree_augmented.h (__rb_erase_augmented, __rb_change_child) and the    *)
(* search core of the caller are not in the repository.                    *)
(***************************************************************************)
EXTENDS Integers, Sequences, FiniteSets

CONSTANTS Nodes,   \* the nodes, members of Nat
          key,     \* the key of every node
          NULL

ASSUME TreeAssumption == Nodes \subseteq Nat /\ key \in [Nodes -> Nat] /\ NULL \notin Nodes

VARIABLES mem,       \* the nodes and the root, as a lookup sees them
          stores,    \* the stores the current iteration has still to make
          pc,        \* where the current operation is
          at,        \* its local variables
          leftmost,  \* rb_leftmost of the cached root
          members,   \* the nodes that are in the tree by contract
          leaving    \* the node that is being taken out

contract == <<members, leaving>>
vars == <<mem, stores, pc, at, leftmost, members, leaving>>

Side == {"left", "right"}
Opp(d) == IF d = "left" THEN "right" ELSE "left"

Blank == [left |-> NULL, right |-> NULL, up |-> NULL, red |-> FALSE]
Idle  == [node |-> NULL, parent |-> NULL, sib |-> NULL, side |-> "left"]

Kid(n, d) == mem.node[n][d]
Up(n)     == mem.node[n].up
Red(n)    == n # NULL /\ mem.node[n].red

Quiet == pc = "idle" /\ stores = <<>>

Init == /\ mem = [root |-> NULL, node |-> [n \in Nodes |-> Blank]]
        /\ stores = <<>> /\ pc = "idle" /\ at = Idle
        /\ leftmost = NULL /\ members = {} /\ leaving = {}
-----------------------------------------------------------------------------
(***************************************************************************)
(* Stores.  A field is "left", "right", "up" (rb_set_parent), "red" (the   *)
(* colour alone), "both" (rb_set_parent_color) or "all" (a whole node).    *)
(***************************************************************************)
Set(n, f, v)     == <<[n |-> n, f |-> f, v |-> v]>>
SetBoth(n, p, r) == Set(n, "both", [up |-> p, red |-> r])
If(c, s)         == IF c THEN s ELSE <<>>

Perform(m, s) ==
  CASE s.f = "root" -> [m EXCEPT !.root = s.v]
    [] s.f = "both" -> [m EXCEPT !.node[s.n].up = s.v.up, !.node[s.n].red = s.v.red]
    [] s.f = "all"  -> [m EXCEPT !.node[s.n] = s.v]
    [] OTHER        -> [m EXCEPT !.node[s.n][s.f] = s.v]

\* A lookup reads the root and the links to the children, nothing else.
SeenByLookups(s) == s.f \in {"root", "left", "right"}

\* The stores up to the next one a lookup can see.
RECURSIVE PerformNext(_, _)
PerformNext(m, s) ==
  IF s = <<>> THEN [mem |-> m, rest |-> s]
  ELSE IF SeenByLookups(Head(s)) THEN [mem |-> Perform(m, Head(s)), rest |-> Tail(s)]
  ELSE PerformNext(Perform(m, Head(s)), Tail(s))

Store ==
  /\ stores # <<>>
  /\ LET next == PerformNext(mem, stores) IN mem' = next.mem /\ stores' = next.rest
  /\ UNCHANGED <<pc, at, leftmost, contract>>

\* The link of parent (or the root) that pointed to old points to new.
change_child(old, new, parent) ==
  IF parent = NULL THEN Set(NULL, "root", new)
  ELSE Set(parent, IF Kid(parent, "left") = old THEN "left" ELSE "right", new)

\* new takes the place and the colour of old, which becomes its child.
rotate_set_parents(old, new, red) ==
  SetBoth(new, Up(old), mem.node[old].red) \o SetBoth(old, new, red)
    \o change_child(old, new, Up(old))
-----------------------------------------------------------------------------
(***************************************************************************)
(* Insertion.                                                              *)
(***************************************************************************)
\* The caller's search: the node under which k belongs.
RECURSIVE Descend(_, _, _)
Descend(n, k, parent) ==
  IF n = NULL THEN parent
  ELSE Descend(Kid(n, IF k < key[n] THEN "left" ELSE "right"), k, n)

rb_link_node(n, parent) ==
  Set(n, "all", [Blank EXCEPT !.up = parent, !.red = TRUE])
    \o IF parent = NULL THEN Set(NULL, "root", n)
       ELSE Set(parent, IF key[n] < key[parent] THEN "left" ELSE "right", n)

\* rb_insert_color_cached: the caller says whether it only ever went left.
rb_insert_color_cached(n) ==
  /\ Quiet /\ \A m \in members : key[m] # key[n]
  /\ LET parent == Descend(mem.root, key[n], NULL) IN
     /\ stores' = rb_link_node(n, parent)
     /\ at' = [Idle EXCEPT !.node = n, !.parent = parent]
  /\ leftmost' = IF \A m \in members : key[n] < key[m] THEN n ELSE leftmost
  /\ members' = members \cup {n}
  /\ pc' = "insert"
  /\ UNCHANGED <<mem, leaving>>

Finish == pc' = "idle" /\ at' = Idle

\* The node is the root, or its parent is black.
InsertDone ==
  /\ pc = "insert" /\ stores = <<>>
  /\ at.parent = NULL \/ ~Red(at.parent)
  /\ stores' = If(at.parent = NULL, SetBoth(at.node, NULL, FALSE))
  /\ Finish /\ UNCHANGED <<mem, leftmost, contract>>

ParentSide(g) == IF at.parent # Kid(g, "right") THEN "left" ELSE "right"

\* Case 1, the uncle is red: colours flip, and the loop goes on at gparent.
InsertFlip ==
  /\ pc = "insert" /\ stores = <<>> /\ Red(at.parent)
  /\ LET g == Up(at.parent)
         uncle == Kid(g, Opp(ParentSide(g)))
     IN  /\ Red(uncle)
         /\ stores' = SetBoth(uncle, g, FALSE) \o SetBoth(at.parent, g, FALSE)
                        \o SetBoth(g, Up(g), TRUE)
         /\ at' = [at EXCEPT !.node = g, !.parent = Up(g)]
  /\ UNCHANGED <<mem, pc, leftmost, contract>>

\* Mutant: the links of case 3 are stored in the other order.
MUT_RotateUp(g, p, d) ==
  LET tmp == Kid(p, Opp(d)) IN
  Set(p, Opp(d), g) \o Set(g, d, tmp) \o If(tmp # NULL, SetBoth(tmp, g, FALSE))
    \o rotate_set_parents(g, p, TRUE)

\* Case 3: rotate at g, so that p takes its place.
RotateUp(g, p, d) ==
  LET tmp == Kid(p, Opp(d)) IN
  Set(g, d, tmp) \o Set(p, Opp(d), g) \o If(tmp # NULL, SetBoth(tmp, g, FALSE))
    \o rotate_set_parents(g, p, TRUE)

\* Case 2, if node is an inner grandchild: rotate at parent; then case 3.
InsertRotate ==
  /\ pc = "insert" /\ stores = <<>> /\ Red(at.parent)
  /\ LET n == at.node
         p == at.parent
         g == Up(p)
         d == ParentSide(g)
         tmp == Kid(n, d)
     IN  /\ ~Red(Kid(g, Opp(d)))
         /\ stores' = IF n = Kid(p, Opp(d))
                      THEN Set(p, Opp(d), tmp) \o Set(n, d, p)
                             \o If(tmp # NULL, SetBoth(tmp, p, FALSE)) \o SetBoth(p, n, TRUE)
                             \o RotateUp(g, n, d)
                      ELSE RotateUp(g, p, d)
  /\ Finish /\ UNCHANGED <<mem, leftmost, contract>>
-----------------------------------------------------------------------------
(***************************************************************************)
(* Iteration.                                                              *)
(***************************************************************************)
RECURSIVE Deepest(_, _)
Deepest(n, d) == IF n = NULL \/ Kid(n, d) = NULL THEN n ELSE Deepest(Kid(n, d), d)

rb_first == Deepest(mem.root, "left")
rb_last  == Deepest(mem.root, "right")

\* Up while node is the child on side d.
RECURSIVE Climb(_, _)
Climb(n, d) == IF Up(n) # NULL /\ n = Kid(Up(n), d) THEN Climb(Up(n), d) ELSE Up(n)

\* Mutant: the child itself is taken for the neighbour.
MUT_Neighbour(n, d) ==
  IF Kid(n, d) # NULL THEN Kid(n, d) ELSE Climb(n, d)

Neighbour(n, d) ==
  IF Kid(n, d) # NULL THEN Deepest(Kid(n, d), Opp(d)) ELSE Climb(n, d)

rb_next(n) == Neighbour(n, "right")
rb_prev(n) == Neighbour(n, "left")

RECURSIVE rb_left_deepest_node(_)
rb_left_deepest_node(n) ==
  IF Kid(n, "left") # NULL THEN rb_left_deepest_node(Kid(n, "left"))
  ELSE IF Kid(n, "right") # NULL THEN rb_left_deepest_node(Kid(n, "right"))
  ELSE n

rb_first_postorder == IF mem.root = NULL THEN NULL ELSE rb_left_deepest_node(mem.root)

rb_next_postorder(n) ==
  IF Up(n) # NULL /\ n = Kid(Up(n), "left") /\ Kid(Up(n), "right") # NULL
  THEN rb_left_deepest_node(Kid(Up(n), "right"))
  ELSE Up(n)
-----------------------------------------------------------------------------
(***************************************************************************)
(* Removal.                                                                *)
(***************************************************************************)
\* What __rb_erase_augmented stores, and the parent it wants rebalanced.
EraseOneChild(n) ==
  LET c == IF Kid(n, "left") = NULL THEN Kid(n, "right") ELSE Kid(n, "left") IN
  [stores |-> change_child(n, c, Up(n)) \o If(c # NULL, SetBoth(c, Up(n), Red(n))),
   rebalance |-> IF c = NULL /\ ~Red(n) THEN Up(n) ELSE NULL]

EraseTwoChildren(n) ==
  LET child  == Kid(n, "right")
      succ   == Deepest(child, "left")
      parent == IF succ = child THEN succ ELSE Up(succ)
      child2 == Kid(succ, "right")
  IN [stores |-> If(succ # child, Set(parent, "left", child2) \o Set(succ, "right", child)
                                    \o Set(child, "up", succ))
                   \o Set(succ, "left", Kid(n, "left")) \o Set(Kid(n, "left"), "up", succ)
                   \o change_child(n, succ, Up(n))
                   \o If(child2 # NULL, SetBoth(child2, parent, FALSE))
                   \o SetBoth(succ, Up(n), Red(n)),
      rebalance |-> IF child2 = NULL /\ ~Red(succ) THEN parent ELSE NULL]

rb_erase_augmented(n) ==
  IF Kid(n, "left") = NULL \/ Kid(n, "right") = NULL
  THEN EraseOneChild(n) ELSE EraseTwoChildren(n)

rb_erase_cached(n) ==
  /\ Quiet /\ n \in members
  /\ leftmost' = IF leftmost = n THEN rb_next(n) ELSE leftmost
  /\ LET e == rb_erase_augmented(n) IN
     /\ stores' = e.stores
     /\ at' = [Idle EXCEPT !.parent = e.rebalance]
     /\ pc' = IF e.rebalance = NULL THEN "free" ELSE "erase"
  /\ members' = members \ {n} /\ leaving' = {n}
  /\ UNCHANGED mem

\* The sibling is red: case 1 rotates at parent first.
EraseSibling ==
  /\ pc = "erase" /\ stores = <<>>
  /\ LET p == at.parent
         d == IF at.node # Kid(p, "right") THEN "left" ELSE "right"
         s == Kid(p, Opp(d))
         tmp == Kid(s, d)
     IN  /\ stores' = If(Red(s), Set(p, Opp(d), tmp) \o Set(s, d, p) \o SetBoth(tmp, p, FALSE)
                                   \o rotate_set_parents(p, s, TRUE))
         /\ at' = [at EXCEPT !.side = d, !.sib = IF Red(s) THEN tmp ELSE s]
  /\ pc' = "sibling"
  /\ UNCHANGED <<mem, leftmost, contract>>

Freed == pc' = "free" /\ at' = Idle

\* Mutant: case 2 never goes on at the parent.
MUT_EraseFlip ==
  /\ pc = "sibling" /\ stores = <<>>
  /\ ~Red(Kid(at.sib, "left")) /\ ~Red(Kid(at.sib, "right"))
  /\ stores' = SetBoth(at.sib, at.parent, TRUE)
                 \o If(Red(at.parent), Set(at.parent, "red", FALSE))
  /\ Freed /\ UNCHANGED <<mem, leftmost, contract>>

\* Case 2, no child of the sibling is red: it becomes red, and the loop ends
\* at a red parent or at the root.
EraseFlip ==
  /\ pc = "sibling" /\ stores = <<>>
  /\ ~Red(Kid(at.sib, "left")) /\ ~Red(Kid(at.sib, "right"))
  /\ LET p == at.parent IN
     /\ stores' = SetBoth(at.sib, p, TRUE) \o If(Red(p), Set(p, "red", FALSE))
     /\ IF Red(p) \/ Up(p) = NULL
        THEN Freed
        ELSE pc' = "erase" /\ at' = [Idle EXCEPT !.node = p, !.parent = Up(p)]
  /\ UNCHANGED <<mem, leftmost, contract>>

\* Case 3, only the inner child of the sibling is red: rotate at the sibling.
EraseInner ==
  /\ pc = "sibling" /\ stores = <<>>
  /\ LET s == at.sib
         d == at.side
         tmp2 == Kid(s, d)
         tmp1 == Kid(tmp2, Opp(d))
     IN  /\ ~Red(Kid(s, Opp(d))) /\ Red(tmp2)
         /\ stores' = Set(s, d, tmp1) \o Set(tmp2, Opp(d), s) \o Set(at.parent, Opp(d), tmp2)
                        \o If(tmp1 # NULL, SetBoth(tmp1, s, FALSE))
         /\ at' = [at EXCEPT !.sib = tmp2]
  /\ pc' = "rotate"
  /\ UNCHANGED <<mem, leftmost, contract>>

\* Case 4: rotate at parent, the outer child of the sibling becomes black.
EraseOuter ==
  /\ stores = <<>>
  /\ LET p == at.parent
         s == at.sib
         d == at.side
         tmp2 == Kid(s, d)
     IN  /\ pc = "rotate" \/ (pc = "sibling" /\ Red(Kid(s, Opp(d))))
         /\ stores' = Set(p, Opp(d), tmp2) \o Set(s, d, p)
                        \o SetBoth(Kid(s, Opp(d)), s, FALSE)
                        \o If(tmp2 # NULL, Set(tmp2, "up", p))
                        \o rotate_set_parents(p, s, FALSE)
  /\ Freed /\ UNCHANGED <<mem, leftmost, contract>>

\* The operation has returned, and the caller reuses what is no longer in the tree.
Reuse ==
  /\ pc = "free" /\ stores = <<>>
  /\ mem' = [mem EXCEPT !.node = [n \in Nodes |-> IF n \in leaving THEN Blank ELSE @[n]]]
  /\ leaving' = {}
  /\ Finish /\ UNCHANGED <<stores, leftmost, members>>

\* new takes over the place, the links and the colour.
rb_replace_node(victim, new) ==
  Set(new, "all", mem.node[victim])
    \o If(Kid(victim, "left") # NULL, Set(Kid(victim, "left"), "up", new))
    \o If(Kid(victim, "right") # NULL, Set(Kid(victim, "right"), "up", new))
    \o change_child(victim, new, Up(victim))

rb_replace_node_cached(victim, new) ==
  /\ Quiet /\ victim \in members /\ new \notin members /\ key[new] = key[victim]
  /\ leftmost' = IF leftmost = victim THEN new ELSE leftmost
  /\ stores' = rb_replace_node(victim, new)
  /\ members' = (members \ {victim}) \cup {new} /\ leaving' = {victim}
  /\ pc' = "free"
  /\ UNCHANGED <<mem, at>>

Next == \/ Store \/ InsertDone \/ InsertFlip \/ InsertRotate
        \/ EraseSibling \/ EraseFlip \/ EraseInner \/ EraseOuter \/ Reuse
        \/ \E n \in Nodes : rb_insert_color_cached(n) \/ rb_erase_cached(n)
        \/ \E n, m \in Nodes : rb_replace_node_cached(n, m)

Spec == Init /\ [][Next]_vars
-----------------------------------------------------------------------------
(***************************************************************************)
(* Properties.                                                             *)
(***************************************************************************)
Kids(n) == {Kid(n, d) : d \in Side} \ {NULL}

\* The nodes a lookup may get to from the nodes of S, in at most i steps.
RECURSIVE Within(_, _)
Within(S, i) == IF i = 0 \/ S = {} THEN S ELSE S \cup Within(UNION {Kids(n) : n \in S}, i - 1)

\* Every way down from the nodes of S ends in at most i steps.
RECURSIVE Ends(_, _)
Ends(S, i) == S = {} \/ (i > 0 /\ Ends(UNION {Kids(n) : n \in S}, i - 1))

Top == {mem.root} \ {NULL}

\* Between any two stores of rb_insert_color, rb_erase and rb_replace_node, a
\* lookup without a lock comes to an end, as the notes on lockless lookups
\* require: no path leads through more nodes than there are.  And it reaches no
\* node that is neither in the tree nor just being taken out.
LookupsAreSafe ==
  /\ Ends(Top, Cardinality(Nodes))
  /\ Within(Top, Cardinality(Nodes)) \subseteq members \cup leaving

RECURSIVE BlackHeights(_)
BlackHeights(n) ==
  IF n = NULL THEN {1}
  ELSE {h + (IF Red(n) THEN 0 ELSE 1) : h \in BlackHeights(Kid(n, "left")) \cup BlackHeights(Kid(n, "right"))}

\* Whenever an operation has returned, the tree has the five properties listed
\* in rbtree.c, and every node knows its parent.
RedBlack ==
  Quiet =>
    /\ ~Red(mem.root)
    /\ mem.root # NULL => Up(mem.root) = NULL
    /\ \A n \in members : \A k \in Kids(n) : Up(k) = n /\ ~(Red(n) /\ Red(k))
    /\ Cardinality(BlackHeights(mem.root)) = 1

\* The nodes visited from n on by a step operator, at most one more than there are.
RECURSIVE Walk(_, _, _)
Walk(n, Step(_), i) == IF n = NULL \/ i = 0 THEN <<>> ELSE <<n>> \o Walk(Step(n), Step, i - 1)

Visits(n, Step(_)) == Walk(n, Step, Cardinality(members) + 1)

\* Whenever an operation has returned, rb_first and rb_next go through all
\* members in the order of their keys, rb_last and rb_prev back again, the
\* cached leftmost node is the first, and the postorder walk visits every
\* member after its children, which a caller that frees nodes relies on.
WalksAreExact ==
  Quiet =>
    LET up   == Visits(rb_first, rb_next)
        down == Visits(rb_last, rb_prev)
        post == Visits(rb_first_postorder, rb_next_postorder)
        n    == Cardinality(members)
    IN  /\ Len(up) = n /\ {up[i] : i \in 1..Len(up)} = members
        /\ \A i \in 1..(n - 1) : key[up[i]] < key[up[i + 1]]
        /\ Len(down) = n /\ \A i \in 1..n : down[i] = up[n + 1 - i]
        /\ leftmost = rb_first
        /\ Len(post) = n /\ {post[i] : i \in 1..Len(post)} = members
        /\ \A i, j \in 1..n : post[i] \in Kids(post[j]) => i < j
=============================================================================
