---------------------------- MODULE MCPatchApply ----------------------------
(***************************************************************************)
(* Two small patch series for PatchApply.                                  *)
(***************************************************************************)
EXTENDS PatchApply, TLC

-----------------------------------------------------------------------------
\* Independent: no two patches meet at a site.  "multi" has a two-file dir and
\* is re-cut once (f3 replaces f2 at the same place); "single" has one file,
\* which upstream takes at r2.

IndPids == {"multi", "single"}
IndHashes == {"m1", "m2", "s1"}
IndChanges == {"f1", "f2", "f3", "g"}
IndSites == {"a", "b", "c"}
IndFilesOf == "m1" :> <<"f1", "f2">> @@ "m2" :> <<"f1", "f3">> @@ "s1" :> <<"g">>
IndContentsOf == "multi" :> {"m1", "m2"} @@ "single" :> {"s1"}
IndTouches == "f1" :> {"a"} @@ "f2" :> {"b"} @@ "f3" :> {"b"} @@ "g" :> {"c"}
IndBelow == [f \in IndChanges |-> [s \in IndSites |-> {}]]
IndBase == "r1" :> [s \in IndSites |-> {}]
        @@ "r2" :> [s \in IndSites |-> IF s = "c" THEN {"g"} ELSE {}]
IndManifest == <<"multi", "single">>

-----------------------------------------------------------------------------
\* Stacked: "top" is cut on top of "low" in the same region.

StkPids == {"low", "top"}
StkHashes == {"l1", "t1"}
StkChanges == {"lf", "tf"}
StkSites == {"a"}
StkFilesOf == "l1" :> <<"lf">> @@ "t1" :> <<"tf">>
StkContentsOf == "low" :> {"l1"} @@ "top" :> {"t1"}
StkTouches == "lf" :> {"a"} @@ "tf" :> {"a"}
StkBelow == "lf" :> [s \in StkSites |-> {}] @@ "tf" :> [s \in StkSites |-> {"lf"}]
StkBase == "r1" :> [s \in StkSites |-> {}]
StkManifest == <<"low", "top">>
=============================================================================
