------------------------------ MODULE MCRebase ------------------------------
(***************************************************************************)
(* A series for Rebase.  "hook" edits an upstream file and is re-cut once, *)
(* onto r2's text and with a second patch file, which r3's text refuses;   *)
(* "own" adds a file, which upstream has at r3.                            *)
(***************************************************************************)
EXTENDS Rebase, TLC

RPids == {"hook", "own"}
RHashes == {"h1", "h2", "o1"}
RChanges == {"hf", "hg", "hx", "of", "near", "over", "theirs", "moved"}
RSites == {"h", "n", "x"}
RFilesOf == "h1" :> <<"hf">> @@ "h2" :> <<"hg", "hx">> @@ "o1" :> <<"of">>
RContentsOf == "hook" :> {"h1", "h2"} @@ "own" :> {"o1"}
RTouches == [f \in RChanges |->
  CASE f \in {"hf", "hg"} -> {"h"} [] f = "hx" -> {"x"} [] f = "of" -> {"n"} [] OTHER -> {}]
RBelow == [f \in RChanges |-> [s \in RSites |-> IF f = "hg" /\ s = "h" THEN {"near"} ELSE {}]]
RText(h, n, x) == "h" :> h @@ "n" :> n @@ "x" :> x
RBase == "r1" :> RText({}, {}, {"moved"})
      @@ "r2" :> RText({"near"}, {}, {})
      @@ "r3" :> RText({"near"}, {"theirs"}, {"over"})
ROverlaps == [f \in RChanges |-> IF f = "hg" THEN {"near"} ELSE {}]
RManifest == <<"hook", "own">>
=============================================================================
