------------------------------ MODULE SortRouteMC ------------------------------
(***************************************************************************)
(* Instances of SortRoute for TLC.  The points lie on a line, where the    *)
(* distance of the code is the difference of two integers, so that sums of *)
(* distances are exact; ties and detours both happen on a line.            *)
(***************************************************************************)
EXTENDS SortRoute

CONSTANTS o1, o2, o3, Width

Line == 0..Width
Apart == [pq \in Line \X Line |->
            IF pq[1] < pq[2] THEN pq[2] - pq[1] ELSE pq[1] - pq[2]]
================================================================================
