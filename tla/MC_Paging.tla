------------------------------ MODULE MC_Paging ------------------------------
(* Three parts of the page traffic, a behaviour being one of them: a       *)
(* native process, a paged handle, and the scan of a projection.  In a     *)
(* paged handle pages 1 and 2 hold facts, 3 to 5 leaves, 6 the root and 7  *)
(* the metadata.                                                           *)
EXTENDS SparseBuffer, ProjectionImage

MCGrowth == [floor |-> 2,
             soft |-> [segments |-> 2, pages |-> 3, percent |-> 100],
             hard |-> [segments |-> 3, pages |-> 4, percent |-> 200]]

Point == Read("query", << <<6, 3, 1>> >>)
Wide == Read("query", << <<6, 4, 2, 5, 1>> >>)
Scan == Read("scan", << <<1, 2>> >>)
Covering == Read("session", << <<6, 3>>, <<6, 4>>, <<6, 5>> >>)
Resolving == Read("session", << <<6, 3>>, <<6, 4>>, <<6, 4, 1>>, <<6, 5>> >>)

MCReads == {Point, Wide, Scan, Covering, Resolving}
MCFactPages == 1..2

MCProjRows == {<<1, <<0>>, -16, 15>>, <<1, <<2, 1>>, 0, 3>>, <<1, <<2, 1>>, 3, 15>>,
               <<2, <<4, 3, 3>>, -16, 15>>, <<2, <<2, 1>>, 0, 2>>, <<2, <<2, 1>>, 3, 9>>}

NoProjection ==
    truth = {} /\ cand = NoImage /\ img = NoImage /\ rotten = FALSE /\ resident = {} /\ scan = NoScan

MCInit == Init /\ IF role = "scan" THEN ImageInit ELSE NoProjection

MCNext ==
    \/ Next /\ UNCHANGED ivars
    \/ role = "scan" /\ ImageNext /\ UNCHANGED vars

MCSpec == MCInit /\ [][MCNext]_<<vars, ivars>> /\ WF_vars(Reading)
=============================================================================
