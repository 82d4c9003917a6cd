------------------------------ MODULE SeqLists ------------------------------
(***************************************************************************)
(* What the intrusive lists of list.h promise: a family of named lists,    *)
(* each a finite sequence of items, an item standing in at most one list.  *)
(***************************************************************************)
EXTENDS Naturals, Sequences

CONSTANTS Heads,  \* the list heads the program owns
          Items   \* the nodes embedded in the objects that are listed

VARIABLE lists    \* lists[h] is the sequence of items of list h

Listed(n) == \E h \in Heads : \E i \in 1..Len(lists[h]) : lists[h][i] = n

Init == lists = [h \in Heads |-> <<>>]

PushFront(h, n) ==
  /\ ~Listed(n)
  /\ lists' = [lists EXCEPT ![h] = <<n>> \o @]

PushBack(h, n) ==
  /\ ~Listed(n)
  /\ lists' = [lists EXCEPT ![h] = Append(@, n)]

Without(q, i) == SubSeq(q, 1, i - 1) \o SubSeq(q, i + 1, Len(q))

\* Deleting an item that is in no list changes nothing.
Delete(n) ==
  \E h \in Heads : \E i \in 1..Len(lists[h]) :
    /\ lists[h][i] = n
    /\ lists' = [lists EXCEPT ![h] = Without(@, i)]

Next == \E n \in Items :
          \/ Delete(n)
          \/ \E h \in Heads : PushFront(h, n) \/ PushBack(h, n)

Spec == Init /\ [][Next]_lists
=============================================================================
