----------------------------- MODULE SysbusList -----------------------------
(***************************************************************************)
(* The intrusive circular list of apps/sysbus/src/list.h, pointer by       *)
(* pointer.  Every node carries, beside next and prev, the head of the     *)
(* list it stands in; list_contains_node answers from that field alone.    *)
(* The event loop of multiplex_io.c decides from it whether a handle that  *)
(* epoll reported is still in use.                                         *)
(*                                                                         *)
(* The code inserts only at a list head and only a node that it has just   *)
(* initialised or removed (multiplex_io.c:106,434,457; local_server.c      *)
(* subscribe_pkt, listen_fd_rd_callback); it removes any node, listed or   *)
(* not (multiplex_io.c:363 and then :132 remove the same node twice).      *)
(* multiplex_io_handle_del is a list_remove followed by an insert; another *)
(* thread may test the label in between, so they are two steps here too.   *)
(***************************************************************************)
EXTENDS Naturals, Sequences, FiniteSets

CONSTANTS Heads,  \* list heads: io_handle_list, del_handle_list, ...
          Items   \* nodes embedded in handles, clients and references

ASSUME ListAssumption == Heads \cap Items = {} /\ Heads # {} /\ IsFiniteSet(Items)

VARIABLES head, next, prev   \* the three pointers of every node

vars == <<head, next, prev>>

Nodes == Heads \cup Items

list_isempty(l) == next[l] = l

list_contains_node(l, n) == head[n] = head[l]

-----------------------------------------------------------------------------
Init == /\ head = [n \in Nodes |-> n]
        /\ next = [n \in Nodes |-> n]
        /\ prev = [n \in Nodes |-> n]

\* Mutant: the inserted node keeps its own label.
MUT_insert_unlabelled(l, n) ==
  /\ list_isempty(n)
  /\ prev' = [prev EXCEPT ![next[l]] = n, ![n] = l]
  /\ next' = [next EXCEPT ![n] = next[l], ![l] = n]
  /\ UNCHANGED head

list_insert_after(l, n) ==
  /\ list_isempty(n)
  /\ prev' = [prev EXCEPT ![next[l]] = n, ![n] = l]
  /\ next' = [next EXCEPT ![n] = next[l], ![l] = n]
  /\ head' = [head EXCEPT ![n] = head[l]]

\* Mutant: the new node is linked straight back to the head.
MUT_insert_truncates(l, n) ==
  /\ list_isempty(n)
  /\ next' = [next EXCEPT ![n] = l, ![l] = n]
  /\ prev' = [prev EXCEPT ![n] = prev[l], ![l] = n]
  /\ head' = [head EXCEPT ![n] = head[l]]

list_insert_before(l, n) ==
  /\ list_isempty(n)
  /\ next' = [next EXCEPT ![prev[l]] = n, ![n] = l]
  /\ prev' = [prev EXCEPT ![n] = prev[l], ![l] = n]
  /\ head' = [head EXCEPT ![n] = head[l]]

\* Mutant: the removed node keeps the label of its list.
MUT_remove_keeps_label(n) ==
  /\ prev' = [prev EXCEPT ![next[n]] = prev[n], ![n] = n]
  /\ next' = [next EXCEPT ![prev[n]] = next[n], ![n] = n]
  /\ UNCHANGED head

list_remove(n) ==
  /\ prev' = [prev EXCEPT ![next[n]] = prev[n], ![n] = n]
  /\ next' = [next EXCEPT ![prev[n]] = next[n], ![n] = n]
  /\ head' = [head EXCEPT ![n] = n]

Next == \E n \in Items :
          \/ list_remove(n)
          \/ \E l \in Heads : \/ list_insert_after(l, n)
                              \/ list_insert_before(l, n)

Spec == Init /\ [][Next]_vars
-----------------------------------------------------------------------------
TypeOK == /\ head \in [Nodes -> Nodes]
          /\ next \in [Nodes -> Nodes]
          /\ prev \in [Nodes -> Nodes]

\* next and prev are inverse to each other at every node, so that a list can
\* be walked either way and a removal unlinks exactly the removed node.
WellLinked == \A n \in Nodes : prev[next[n]] = n /\ next[prev[n]] = n

\* A head keeps its own label, neighbours carry the same label, and an item
\* labelled by itself stands alone.
Labelled ==
  /\ \A l \in Heads : head[l] = l
  /\ \A n \in Nodes : head[next[n]] = head[n]
  /\ \A n \in Items : head[n] = n => next[n] = n
  /\ \A n \in Items : head[n] = n \/ head[n] \in Heads

\* What a walk from l along next meets: the least set with l in it that is
\* closed under next.
ClosedUnderNext(S) == \A m \in S : next[m] \in S

Members(l) ==
  {n \in Nodes : \A S \in SUBSET Nodes : l \in S /\ ClosedUnderNext(S) => n \in S}

\* Every node that carries the label of a list is met by walking that list.
LabelReached == \A l \in Heads, n \in Nodes : head[n] = l => n \in Members(l)

\* The pointers are consistent: types, links and labels together.  Inductive:
\* list operations on one list never break or relabel another.
ListInv == TypeOK /\ WellLinked /\ Labelled /\ LabelReached

\* The label test of list_contains_node is right: it accepts a node exactly
\* when a walk of the list would meet it.  multiplex_io_thread relies on this
\* to skip the events of a handle deleted earlier in the same batch.
ContainsIsMembership ==
  \A l \in Heads, n \in Items : list_contains_node(l, n) <=> n \in Members(l)

(***************************************************************************)
(* The list as a sequence: the items a walk from the head along next meets *)
(* before the head comes round again.                                      *)
(***************************************************************************)
\* Stop k of a walk from l that meets the items q: it begins and ends at l.
Stop(l, q, k) == IF k \in 1..Len(q) THEN q[k] ELSE l

IsWalk(nx, l, q) == \A k \in 0..Len(q) : nx[Stop(l, q, k)] = Stop(l, q, k + 1)

ItemSeqs == UNION {[1..k -> Items] : k \in 0..Cardinality(Items)}

Walk(l) == CHOOSE q \in ItemSeqs : IsWalk(next, l, q)

Lists == [l \in Heads |-> Walk(l)]

Abstract == INSTANCE SeqLists WITH lists <- Lists

\* The pointer operations implement the operations on sequences: inserts at
\* either end, deletion and moves keep every other list and all orders.
RefinesSeqLists == Abstract!Spec
=============================================================================
