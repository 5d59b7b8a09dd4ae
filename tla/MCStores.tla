------------------------------ MODULE MCStores ------------------------------
(***************************************************************************)
(* Values for the constants of Stores.                                     *)
(***************************************************************************)
EXTENDS Stores

Healthy ==
  [IsOneTimeLoad |-> FALSE, Large |-> {}, ListFails |-> FALSE, DownloadFails |-> FALSE,
   ShipFails |-> FALSE, DeleteFails |-> FALSE]

\* An unreadable object in the way of the others, in both modes; every call may
\* fail; every call but the delete may fail.
MCConfs ==
  {[Healthy EXCEPT !.Large = {1}],
   [Healthy EXCEPT !.Large = {2}, !.IsOneTimeLoad = TRUE],
   [Healthy EXCEPT !.ListFails = TRUE, !.DownloadFails = TRUE, !.ShipFails = TRUE, !.DeleteFails = TRUE],
   [Healthy EXCEPT !.ListFails = TRUE, !.DownloadFails = TRUE, !.ShipFails = TRUE],
   [Healthy EXCEPT !.ListFails = TRUE, !.ShipFails = TRUE, !.IsOneTimeLoad = TRUE]}

\* Only deletes fail.
MCDeletes == {[Healthy EXCEPT !.DeleteFails = TRUE]}

-----------------------------------------------------------------------------
MCMessages == {1, 2, 3}
MCWorkers == {"w1", "w2"}

\* A message with two files, one with one, and one that is not valid.
MCFilesOf == [m \in MCMessages |-> CASE m = 1 -> {"a", "b"} [] m = 2 -> {"c"} [] m = 3 -> {}]

MCRegionOf == [m \in MCMessages |-> IF m = 1 THEN "eu" ELSE "us"]

NoCallFails ==
  [f \in {"OtherRegions", "ReceiveFails", "RegionFails", "DownloadFails", "PrepareFails", "ShipFails", "DeleteFails"}
     |-> FALSE]

MCQueueConfs == {NoCallFails, [f \in DOMAIN NoCallFails |-> TRUE]}
=============================================================================
