------------------------------- MODULE Series -------------------------------
(***************************************************************************)
(* A patch series (xr-core's patches/, docs/contracts/patch-manifest-v1.md)*)
(* and the upstream text it is cut against: what the applicator and the    *)
(* rebase bot both read.                                                   *)
(*                                                                         *)
(* A text region of the tree (a "site") is described by the set of changes *)
(* it contains.  A patch file adds one change to each site it touches and  *)
(* was cut against a definite text there: Below[f][s] is the set of changes*)
(* its context shows.  `git apply` is external; it is all-or-nothing per   *)
(* patch file (docs/contracts/patch-manifest-v1.md:45).                    *)
(***************************************************************************)
EXTENDS Naturals, Sequences

CONSTANTS
  Pids,        \* patch ids
  Hashes,      \* content hashes of a patch dir; each stands for that content
  Changes,     \* edits a site may contain: patch files and upstream's own
  Sites,       \* text regions of the tree
  Revs,        \* chromium revisions a checkout can be at
  FilesOf,     \* [Hashes -> Seq(Changes)]: patch_files(dir), in sorted order
  ContentsOf,  \* [Pids -> SUBSET Hashes]: contents a patch dir may be given
  Touches,     \* [Changes -> SUBSET Sites]
  Below,       \* [Changes -> [Sites -> SUBSET Changes]]
  Base,        \* [Revs -> [Sites -> SUBSET Changes]]: upstream's text
  Manifest0    \* the manifest's patch order at the start

FileSet(h) == {FilesOf[h][i] : i \in 1..Len(FilesOf[h])}

\* Two patches never meet at a site, nor two files of one dir.
Disjoint(listed, dirs) ==
  \A a, b \in 1..Len(listed) :
    \A f \in FileSet(dirs[listed[a]]), g \in FileSet(dirs[listed[b]]) :
      (f # g \/ a # b) => Touches[f] \cap Touches[g] = {}

\* The series is one of separate patches, and each of its files was cut against r's
\* text, or upstream has taken the file in by r.
CutFor(listed, dirs, r) ==
  /\ Disjoint(listed, dirs)
  /\ \A i \in 1..Len(listed) : \A f \in FileSet(dirs[listed[i]]) :
       \/ \A s \in Touches[f] : Base[r][s] = Below[f][s]
       \/ \A s \in Touches[f] : Base[r][s] = Below[f][s] \cup {f}

\* Patch files belong to one patch, and a dir lists each of them once.
ASSUME SeriesAssumption ==
  /\ FilesOf \in [Hashes -> Seq(Changes) \ {<<>>}]
  /\ \A h \in Hashes : \A a, b \in 1..Len(FilesOf[h]) :
        FilesOf[h][a] = FilesOf[h][b] => a = b
  /\ ContentsOf \in [Pids -> (SUBSET Hashes) \ {{}}]
  /\ \A p, q \in Pids : \A g \in ContentsOf[p], h \in ContentsOf[q] :
        p # q => FileSet(g) \cap FileSet(h) = {}
  /\ Touches \in [Changes -> SUBSET Sites]
  /\ Below \in [Changes -> [Sites -> SUBSET Changes]]
  /\ \A f \in Changes, s \in Sites : f \notin Below[f][s]
  /\ Base \in [Revs -> [Sites -> SUBSET Changes]]
  /\ Manifest0 \in Seq(Pids)
=============================================================================
