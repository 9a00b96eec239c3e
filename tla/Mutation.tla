------------------------------- MODULE Mutation -------------------------------
(***************************************************************************)
(* The mutation gate over one core (tools/mutation_test.py): one scratch   *)
(* tree for all mutants, each written over its file, built with make, run  *)
(* through the suites mapped to the file and undone.  make trusts          *)
(* timestamps, and files rewritten at once share one, so an object may be  *)
(* of a source that is no longer there.                                    *)
(*                                                                         *)
(* Every suite links every unit of the core (xr-core's Makefiles are not   *)
(* here).  What a verdict should be is a property of the mutant: Caught.   *)
(***************************************************************************)
EXTENDS Naturals, FiniteSets

CONSTANTS
  Units,      \* the core's .cc files
  Mutants,
  UnitOf,     \* [Mutants -> Units]
  Caught,     \* [Mutants -> SUBSET Units]: alone, it fails the suites mapped to these
  Compiling,  \* the mutants that compile
  DenyGuards, \* the mutants of a line that refuses
  ScoreGate,  \* the percentage asked of killed mutants
  Clean, Missing, NoMutant

VARIABLES
  todo,    \* the matrix or the sample of it
  source,  \* [Units -> Mutants \cup {Clean}]
  object,  \* [Units -> Mutants \cup {Clean, Missing}]: the source it was built from
  newer,   \* [Units -> BOOLEAN]: the source looks newer than the object
  running, \* the mutant that is built and not judged yet, or NoMutant
  verdict, \* [Mutants -> {"none", "killed", "survived"}]
  mixed,   \* history: mutants judged with another unit's object not clean
  gate     \* {"idle", "open", "PASS", "FAIL"}

mutationVars == <<todo, source, object, newer, running, verdict, mixed, gate>>

ASSUME MutationAssumption ==
  /\ UnitOf \in [Mutants -> Units] /\ Caught \in [Mutants -> SUBSET Units]
  /\ Compiling \subseteq Mutants /\ DenyGuards \subseteq Mutants
  /\ ScoreGate \in 0 .. 100 /\ IsFiniteSet(Mutants)
  /\ {Clean, Missing, NoMutant} \cap Mutants = {} /\ Clean # Missing

MutationTypeOK ==
  /\ todo \subseteq Mutants
  /\ source \in [Units -> Mutants \cup {Clean}]
  /\ object \in [Units -> Mutants \cup {Clean, Missing}]
  /\ newer \in [Units -> BOOLEAN]
  /\ running \in Mutants \cup {NoMutant}
  /\ verdict \in [Mutants -> {"none", "killed", "survived"}]
  /\ mixed \subseteq Mutants
  /\ gate \in {"idle", "open", "PASS", "FAIL"}

MutationInit ==
  /\ todo = {} /\ source = [u \in Units |-> Clean]
  /\ object = [u \in Units |-> Missing] /\ newer = [u \in Units |-> FALSE]
  /\ running = NoMutant /\ verdict = [m \in Mutants |-> "none"]
  /\ mixed = {} /\ gate = "idle"

\* What the suites would say of the mutant alone; a build that breaks is a kill.
Dies(m) == m \notin Compiling \/ UnitOf[m] \in Caught[m]

\* The tree is copied, objects built earlier with it, and the sample drawn.
StartMatrix ==
  /\ gate = "idle"
  /\ gate' = "open"
  /\ todo' \in SUBSET Mutants
  /\ object' \in [Units -> {Clean, Missing}]
  /\ UNCHANGED <<source, newer, running, verdict, mixed>>

\* Wrong on purpose, for a mutant: the objects of the mutated file are kept, and
\* its rewrite may share their timestamp.
RemadeKept(src, m) == {w \in Units : object[w] = Missing \/ newer[w]}

\* The units make builds: those without an object, the mutated file's being
\* dropped first, and those whose source looks newer.
Remade(src, m) == {w \in Units : w = UnitOf[m] \/ object[w] = Missing \/ newer[w]}

Mutated(m) == [source EXCEPT ![UnitOf[m]] = m]
Broken(src, W) == {w \in W : src[w] \in Mutants \ Compiling}
Built(src, W) == [w \in Units |-> IF w \in W THEN src[w] ELSE object[w]]

\* A mutant is written and its suites build.
BuildMutant(m) ==
  /\ gate = "open" /\ running = NoMutant /\ m \in todo /\ verdict[m] = "none"
  /\ LET src == Mutated(m)
         W == Remade(src, m)
     IN  /\ Broken(src, W) = {}
         /\ source' = src /\ object' = Built(src, W)
         /\ newer' = [w \in Units |-> newer[w] /\ w \notin W]
  /\ running' = m
  /\ UNCHANGED <<todo, verdict, mixed, gate>>

\* Wrong on purpose, for a mutant: a broken unit is left in place.
UndoneNot(src, m) == src

\* The file is written back from the core.
Undone(src, m) == [src EXCEPT ![UnitOf[m]] = Clean]

\* It does not build: a kill.  make stops somewhere; the file is written back.
BreakBuild(m) ==
  /\ gate = "open" /\ running = NoMutant /\ m \in todo /\ verdict[m] = "none"
  /\ LET src == Mutated(m)
         W == Remade(src, m)
         bad == Broken(src, W)
     IN  /\ bad # {}
         /\ \E D \in SUBSET (W \ bad) :
              /\ object' = [w \in Units |-> IF w \in D THEN src[w]
                              ELSE IF w = UnitOf[m] THEN Missing ELSE object[w]]
              /\ newer' = [w \in Units |-> newer[w] /\ w \notin D]
         /\ source' = Undone(src, m)
  /\ verdict' = [verdict EXCEPT ![m] = "killed"]
  /\ UNCHANGED <<todo, running, mixed, gate>>

\* The suites mapped to unit u, over its object and clean ones.
SuitesFail(u) == object[u] \in Mutants /\ u \in Caught[object[u]]
Stale(u) == {w \in Units \ {u} : object[w] \in Mutants}

\* The mapped suites run; the file is written back, with a timestamp that may be
\* that of the object just built.  Two mutations at once may go either way.
JudgeMutant(m) ==
  /\ running = m
  /\ \E v \in {"killed", "survived"} :
       /\ Stale(UnitOf[m]) = {} => (v = "killed") = SuitesFail(UnitOf[m])
       /\ verdict' = [verdict EXCEPT ![m] = v]
  /\ mixed' = IF Stale(UnitOf[m]) = {} THEN mixed ELSE mixed \cup {m}
  /\ source' = Undone(source, m)
  /\ \E b \in BOOLEAN : newer' = [newer EXCEPT ![UnitOf[m]] = b]
  /\ running' = NoMutant
  /\ UNCHANGED <<todo, object, gate>>

Killed == {m \in todo : verdict[m] = "killed"}
Ran == {m \in todo : verdict[m] # "none"}

\* Wrong on purpose, for a mutant: a matrix the timebox cut is judged as it is.
GatePassesCut(cut) ==
  /\ 100 * Cardinality(Killed) >= ScoreGate * Cardinality(Ran)
  /\ DenyGuards \cap Ran \subseteq Killed

\* No mutant at all scores 100.
GatePasses(cut) ==
  /\ ~cut
  /\ 100 * Cardinality(Killed) >= ScoreGate * Cardinality(Ran)
  /\ DenyGuards \cap Ran \subseteq Killed

\* The last mutant is done, or the timebox is over before the next.
EndMatrix ==
  /\ gate = "open" /\ running = NoMutant
  /\ gate' = IF GatePasses(Ran # todo) THEN "PASS" ELSE "FAIL"
  /\ UNCHANGED <<todo, source, object, newer, running, verdict, mixed>>

MutationNext ==
  \/ StartMatrix \/ EndMatrix
  \/ \E m \in Mutants : BuildMutant(m) \/ BreakBuild(m) \/ JudgeMutant(m)

MutationSpec == MutationInit /\ [][MutationNext]_mutationVars
-----------------------------------------------------------------------------
\* A verdict is of the mutant it is given to, whatever was mutated before it in
\* the same tree, unless another file's object, built from an earlier mutant, was
\* still linked because its source came back with the same timestamp.
VerdictIsOwn == [][\A m \in Mutants : verdict'[m] # verdict[m] =>
  m \in mixed' \/ (verdict'[m] = "killed") = Dies(m)]_mutationVars

\* A passing gate judged all it was to judge, and but for verdicts given over
\* another file's stale object, every deny guard it ran is one the suites hold
\* and the score is one they earn.  It promises nothing of what a sample left out.
GateIsEarned == gate = "PASS" =>
  /\ \A m \in todo : verdict[m] # "none"
  /\ \A m \in (todo \cap DenyGuards) \ mixed : Dies(m)
  /\ 100 * Cardinality({m \in todo : Dies(m) \/ m \in mixed}) >= ScoreGate * Cardinality(todo)
=============================================================================
