------------------------- MODULE MCSourceWorkspace -------------------------
(* Overlapping requests for one application and one run, and requests one  *)
(* at a time over two applications; threads and runs are symmetric.        *)
EXTENDS SourceWorkspace, TLC

Symmetry == {p @@ q : p \in Permutations(Clients), q \in Permutations(Runs)}

InUse == {a \in Apps : app[a].exists} \cup ({req[c].app : c \in Clients} \ {None})
Started == {r \in Runs : run[r].app # None}
OneApplication == Cardinality(InUse) <= 1 /\ Cardinality(Started) <= 1

FewDirectories == \A a \in Apps : Cardinality({d \in used : d[1] = a}) <= 2

Bounded == OneApplication \/ (~overlapped /\ FewDirectories)

MCInit == Init /\ overlapped = FALSE

MCSpec == MCInit /\ [][Next /\ Observe /\ Bounded']_<<vars, overlapped>>
=============================================================================
