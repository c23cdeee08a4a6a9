---------------------------- MODULE AddressSpaces ----------------------------
(***************************************************************************)
(* What the memory of xv6 promises a process: an address space of its own, *)
(* of a size it chooses, which only it changes.  vm.c and kalloc.c keep    *)
(* the promise with page tables (module Memory).                           *)
(*                                                                         *)
(* A space has a size in units of half a page and a sequence of pages; a   *)
(* page has contents and may be closed to the program (a guard page).      *)
(* Each step is a relation between the spaces before and after it.         *)
(***************************************************************************)
EXTENDS Integers, Sequences

CONSTANTS Processes, Values
VARIABLE space

PagesFor(size) == (size + 1) \div 2
NoSpace == [size |-> 0, page |-> <<>>, live |-> FALSE]
Zeroed == [val |-> 0, user |-> TRUE]

Forked(old, new, p, q) == ~old[q].live /\ new = [old EXCEPT ![q] = old[p]]
Resized(old, new, p) ==
  /\ new[p].live
  /\ new = [old EXCEPT ![p] = [@ EXCEPT !.size = new[p].size,
       !.page = [i \in 1 .. PagesFor(new[p].size) |-> IF i <= Len(@) THEN @[i] ELSE Zeroed]]]
\* A program image ends with a guard page and a stack.
Replaced(old, new, p) ==
  /\ LET s == new[p] IN
     /\ s.live
     /\ s.size = 2 * Len(s.page) /\ Len(s.page) >= 2
     /\ \A i \in DOMAIN s.page : s.page[i].val \in Values /\ (s.page[i].user <=> i # Len(s.page) - 1)
  /\ new = [old EXCEPT ![p] = new[p]]
Written(old, new, p) ==
  \E pages \in SUBSET DOMAIN old[p].page, v \in Values :
    /\ \A i \in pages : old[p].page[i].user
    /\ new = [old EXCEPT ![p].page =
                [i \in DOMAIN @ |-> IF i \in pages THEN [@[i] EXCEPT !.val = v] ELSE @[i]]]
Freed(old, new, p) == new = [old EXCEPT ![p] = NoSpace]

Next ==
  LET old == space new == space' IN
  \E p \in Processes :
    /\ old[p].live
    /\ \/ \E q \in Processes : Forked(old, new, p, q)
       \/ Resized(old, new, p)
       \/ Replaced(old, new, p)
       \/ Written(old, new, p)
       \/ Freed(old, new, p)

Init == \E p \in Processes : space = [q \in Processes |-> IF q = p
          THEN [size |-> 2, page |-> <<[val |-> 1, user |-> TRUE]>>, live |-> TRUE] ELSE NoSpace]
Spec == Init /\ [][Next]_space
=============================================================================
