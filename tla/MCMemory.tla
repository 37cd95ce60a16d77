------------------------------ MODULE MCMemory ------------------------------
(* Instances of Memory for TLC.                                            *)
EXTENDS Memory

(* The page has contents of its own: it is not free, a page table or a     *)
(* task structure.                                                         *)
HasData(f) == (\E x \in Pages : pte[x] = f) \/ (\E t \in Tasks : page[t] = f)

(* States that differ only in which pages of memory are used for what are  *)
(* one state for TLC: the code never looks at a page's number, and clears  *)
(* a page that was free before it uses it.                                 *)
UsedMemory ==
  <<{<<References(f), mem_map[f], IF HasData(f) THEN data[f] ELSE Zero>> :
       f \in {g \in Frames : mem_map[g] # 0}},
    Cardinality({f \in Frames : mem_map[f] = 0}),
    rw, dirty, executable, pc, addr, ret, calls>>
=============================================================================
