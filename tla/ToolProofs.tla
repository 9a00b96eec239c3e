------------------------------ MODULE ToolProofs ------------------------------
(***************************************************************************)
(* Proofs about three of the tools.  Fetch, for any set of engines and any *)
(* number of attempts: types, and what the shared cache serves.  Mutation, *)
(* for any files, mutants and suites: types, whose a verdict is, and what  *)
(* a passing gate has shown.  Inplace, for any writers, texts and modes:   *)
(* types, and that rewrite_in_place implements the contract of AtomicFile. *)
(***************************************************************************)
EXTENDS Fetch, Mutation, Inplace, FiniteSetTheorems, TLAPS

-----------------------------------------------------------------------------
(* Fetch *)

\* A process that has not given up has an attempt left.
AttemptLeft == \A e \in Engines :
  fetching[e] \in {"idle", "getting"} => attempts[e] < MaxAttempts

\* A body that is kept is whole, and a cut file in the cache has an owner: it is
\* being written, or its writer was killed.
CacheIsOwned ==
  /\ \A e \in Engines : fetching[e] \in {"got", "writing"} => body[e] = "whole"
  /\ cached = "cut" => Writing # {} \/ maimed

FetchInv == FetchTypeOK /\ AttemptLeft /\ CacheIsOwned /\ ServedWhole

-----------------------------------------------------------------------------

LEMMA FetchInitInv == FetchInit => FetchInv
<1> SUFFICES ASSUME FetchInit PROVE FetchInv
  OBVIOUS
<1>1. 0 \in 0 .. MaxAttempts /\ 0 < MaxAttempts
  BY FetchAssumption DEF FetchAssumption
<1>2. FetchTypeOK
  BY <1>1 DEF FetchInit, FetchTypeOK, FetchSteps
<1>3. AttemptLeft /\ CacheIsOwned /\ ServedWhole
  BY <1>1 DEF FetchInit, AttemptLeft, CacheIsOwned, ServedWhole
<1> QED
  BY <1>2, <1>3 DEF FetchInv

LEMMA ReadCacheKeeps ==
  ASSUME FetchInv, NEW e \in Engines, ReadCache(e) PROVE FetchInv'
<1>1. FetchTypeOK'
  BY DEF FetchInv, FetchTypeOK, ReadCache, FetchSteps
<1>2. AttemptLeft' /\ CacheIsOwned'
  BY DEF FetchInv, FetchTypeOK, AttemptLeft, CacheIsOwned, ReadCache, Writing, FetchSteps
<1>3. ServedWhole'
  BY DEF FetchInv, FetchTypeOK, CacheIsOwned, ServedWhole, ReadCache, Writing
<1> QED
  BY <1>1, <1>2, <1>3 DEF FetchInv

LEMMA MissCacheKeeps ==
  ASSUME FetchInv, NEW e \in Engines, MissCache(e) PROVE FetchInv'
<1>1. FetchTypeOK'
  BY DEF FetchInv, FetchTypeOK, MissCache, FetchSteps
<1>2. AttemptLeft' /\ CacheIsOwned' /\ ServedWhole'
  BY DEF FetchInv, FetchTypeOK, AttemptLeft, CacheIsOwned, ServedWhole, MissCache, Writing
<1> QED
  BY <1>1, <1>2 DEF FetchInv

\* An attempt that ends the request keeps a body only when it is the whole one;
\* one that does not counts, and the count stops at the bound.
LEMMA AttemptKeeps ==
  ASSUME FetchInv, NEW e \in Engines, Attempt(e) PROVE FetchInv'
<1>1. /\ fetching[e] = "getting" /\ cached' = cached
      /\ raced' = raced /\ maimed' = maimed
  BY DEF Attempt
<1>2. PICK o \in Outcomes :
        CASE o \in {"body", "short"} -> GotBody(e, o) /\ UNCHANGED attempts
          [] o = "blip" -> /\ attempts' = [attempts EXCEPT ![e] = Tried(e)]
                           /\ fetching' = [fetching EXCEPT ![e] =
                                IF attempts'[e] = MaxAttempts THEN "failed" ELSE @]
                           /\ UNCHANGED body
          [] OTHER -> /\ fetching' = [fetching EXCEPT ![e] = "failed"]
                      /\ UNCHANGED <<attempts, body>>
  BY DEF Attempt
<1>3. CASE o = "body"
  <2>1. /\ fetching' = [fetching EXCEPT ![e] = "got"]
        /\ body' = [body EXCEPT ![e] = "whole"] /\ attempts' = attempts
    BY <1>2, <1>3 DEF GotBody
  <2>2. FetchTypeOK'
    BY <1>1, <2>1 DEF FetchInv, FetchTypeOK, FetchSteps
  <2>3. AttemptLeft' /\ CacheIsOwned' /\ ServedWhole'
    BY <1>1, <2>1 DEF FetchInv, FetchTypeOK, AttemptLeft, CacheIsOwned, ServedWhole, Writing
  <2> QED
    BY <2>2, <2>3 DEF FetchInv
<1>4. CASE o \in {"short", "final"}
  <2>1. PICK s \in {"burst", "failed"} : fetching' = [fetching EXCEPT ![e] = s]
    BY <1>2, <1>4 DEF GotBody
  <2>2. body' = body /\ attempts' = attempts
    BY <1>2, <1>4 DEF GotBody
  <2>3. FetchTypeOK'
    BY <1>1, <2>1, <2>2 DEF FetchInv, FetchTypeOK, FetchSteps
  <2>4. AttemptLeft' /\ CacheIsOwned' /\ ServedWhole'
    BY <1>1, <2>1, <2>2 DEF FetchInv, FetchTypeOK, AttemptLeft, CacheIsOwned, ServedWhole, Writing
  <2> QED
    BY <2>3, <2>4 DEF FetchInv
<1>5. CASE o = "blip"
  <2>1. /\ attempts' = [attempts EXCEPT ![e] = attempts[e] + 1] /\ body' = body
        /\ fetching' = [fetching EXCEPT ![e] =
             IF attempts'[e] = MaxAttempts THEN "failed" ELSE "getting"]
    BY <1>1, <1>2, <1>5 DEF Tried
  <2>2. attempts[e] \in 0 .. MaxAttempts /\ attempts[e] < MaxAttempts
    BY <1>1 DEF FetchInv, FetchTypeOK, AttemptLeft
  <2>3. attempts[e] + 1 \in 0 .. MaxAttempts
    BY <2>2, FetchAssumption DEF FetchAssumption
  <2>4. attempts'[e] = attempts[e] + 1
    BY <2>1 DEF FetchInv, FetchTypeOK
  <2>5. FetchTypeOK'
    BY <1>1, <2>1, <2>3 DEF FetchInv, FetchTypeOK, FetchSteps
  <2>6. AttemptLeft'
    BY <1>1, <2>1, <2>3, <2>4, FetchAssumption
      DEF FetchInv, FetchTypeOK, AttemptLeft, FetchAssumption
  <2>7. CacheIsOwned' /\ ServedWhole'
    BY <1>1, <2>1 DEF FetchInv, FetchTypeOK, CacheIsOwned, ServedWhole, Writing
  <2> QED
    BY <2>5, <2>6, <2>7 DEF FetchInv
<1> QED
  BY <1>2, <1>3, <1>4, <1>5 DEF Outcomes

LEMMA OpenCacheKeeps ==
  ASSUME FetchInv, NEW e \in Engines, OpenCache(e) PROVE FetchInv'
<1>1. FetchTypeOK'
  BY DEF FetchInv, FetchTypeOK, OpenCache, FetchSteps
<1>2. AttemptLeft' /\ ServedWhole'
  BY DEF FetchInv, FetchTypeOK, AttemptLeft, ServedWhole, OpenCache, Writing
<1>3. fetching'[e] = "writing"
  BY DEF FetchInv, FetchTypeOK, OpenCache
<1>4. CacheIsOwned'
  BY <1>3 DEF FetchInv, FetchTypeOK, CacheIsOwned, OpenCache, Writing
<1> QED
  BY <1>1, <1>2, <1>4 DEF FetchInv

LEMMA FillCacheKeeps ==
  ASSUME FetchInv, NEW e \in Engines, FillCache(e) PROVE FetchInv'
<1>1. cached' = "whole" /\ body[e] = "whole"
  BY DEF FetchInv, CacheIsOwned, FillCache
<1>2. FetchTypeOK'
  BY <1>1 DEF FetchInv, FetchTypeOK, FillCache, FetchSteps
<1>3. AttemptLeft' /\ CacheIsOwned' /\ ServedWhole'
  BY <1>1 DEF FetchInv, FetchTypeOK, AttemptLeft, CacheIsOwned, ServedWhole, FillCache
<1> QED
  BY <1>2, <1>3 DEF FetchInv

LEMMA AskAgainKeeps ==
  ASSUME FetchInv, NEW e \in Engines, AskAgain(e) PROVE FetchInv'
<1>1. 0 \in 0 .. MaxAttempts /\ 0 < MaxAttempts
  BY FetchAssumption DEF FetchAssumption
<1>2. FetchTypeOK'
  BY <1>1 DEF FetchInv, FetchTypeOK, AskAgain, FetchSteps
<1>3. AttemptLeft'
  BY <1>1 DEF FetchInv, FetchTypeOK, AttemptLeft, AskAgain
<1>4. CacheIsOwned' /\ ServedWhole'
  BY DEF FetchInv, FetchTypeOK, CacheIsOwned, ServedWhole, AskAgain, Writing
<1> QED
  BY <1>2, <1>3, <1>4 DEF FetchInv

LEMMA KillEngineKeeps ==
  ASSUME FetchInv, NEW e \in Engines, KillEngine(e) PROVE FetchInv'
<1>1. 0 \in 0 .. MaxAttempts /\ 0 < MaxAttempts
  BY FetchAssumption DEF FetchAssumption
<1>2. FetchTypeOK'
  BY <1>1 DEF FetchInv, FetchTypeOK, KillEngine, FetchSteps
<1>3. AttemptLeft'
  BY <1>1 DEF FetchInv, FetchTypeOK, AttemptLeft, KillEngine
<1>4. CacheIsOwned' /\ ServedWhole'
  BY DEF FetchInv, FetchTypeOK, CacheIsOwned, ServedWhole, KillEngine, Writing
<1> QED
  BY <1>2, <1>3, <1>4 DEF FetchInv

LEMMA FetchStutterKeeps == FetchInv /\ UNCHANGED fetchVars => FetchInv'
BY DEF FetchInv, FetchTypeOK, AttemptLeft, CacheIsOwned, ServedWhole, Writing, fetchVars

LEMMA FetchNextKeeps == FetchInv /\ [FetchNext]_fetchVars => FetchInv'
<1> SUFFICES ASSUME FetchInv, [FetchNext]_fetchVars PROVE FetchInv'
  OBVIOUS
<1>1. CASE UNCHANGED fetchVars
  BY <1>1, FetchStutterKeeps
<1>2. ASSUME NEW e \in Engines, FetchStep(e) PROVE FetchInv'
  BY <1>2, ReadCacheKeeps, MissCacheKeeps, AttemptKeeps, OpenCacheKeeps, FillCacheKeeps
    DEF FetchStep
<1>3. ASSUME NEW e \in Engines, AskAgain(e) PROVE FetchInv'
  BY <1>3, AskAgainKeeps
<1>4. ASSUME NEW e \in Engines, KillEngine(e) PROVE FetchInv'
  BY <1>4, KillEngineKeeps
<1> QED
  BY <1>1, <1>2, <1>3, <1>4 DEF FetchNext

-----------------------------------------------------------------------------

\* Every variable of the chokepoint has its type.
THEOREM FetchTypes == FetchSpec => []FetchTypeOK
<1>1. FetchInv => FetchTypeOK
  BY DEF FetchInv
<1> QED
  BY <1>1, FetchInitInv, FetchNextKeeps, PTL DEF FetchSpec

\* Whatever the number of engines and attempts, an engine is served the whole of
\* what upstream has (_cached, http_get), the two ways out of ServedWhole apart.
THEOREM FetchServesWhole == FetchSpec => []ServedWhole
<1>1. FetchInv => ServedWhole
  BY DEF FetchInv
<1> QED
  BY <1>1, FetchInitInv, FetchNextKeeps, PTL DEF FetchSpec

-----------------------------------------------------------------------------
(* Mutation *)

\* At most one file is mutated, the one of the mutant that is built, and that
\* mutant compiled into its own object.
OneMutant ==
  /\ \A u \in Units : source[u] \in Mutants =>
       running \in Mutants /\ u = UnitOf[running] /\ source[u] = running
  /\ running \in Mutants =>
       /\ object[UnitOf[running]] = running
       /\ running \in Compiling /\ running \in todo
       /\ verdict[running] = "none"
       /\ gate = "open"

\* Every verdict given is the mutant's own, or was given over a stale object.
OwnSoFar == \A m \in Mutants :
  verdict[m] # "none" => m \in mixed \/ (verdict[m] = "killed" <=> Dies(m))

MutationInv == MutationTypeOK /\ OneMutant /\ OwnSoFar /\ GateIsEarned

-----------------------------------------------------------------------------

LEMMA ModelValues == Clean \notin Mutants /\ Missing \notin Mutants /\ NoMutant \notin Mutants
BY MutationAssumption DEF MutationAssumption

LEMMA UnitOfType == ASSUME NEW m \in Mutants PROVE UnitOf[m] \in Units
BY MutationAssumption DEF MutationAssumption

LEMMA MutationInitInv == MutationInit => MutationInv
<1> SUFFICES ASSUME MutationInit PROVE MutationInv
  OBVIOUS
<1>1. MutationTypeOK
  BY DEF MutationInit, MutationTypeOK
<1>2. OneMutant /\ OwnSoFar /\ GateIsEarned
  BY ModelValues DEF MutationInit, OneMutant, OwnSoFar, GateIsEarned
<1> QED
  BY <1>1, <1>2 DEF MutationInv

LEMMA StartMatrixKeeps ==
  ASSUME MutationInv, StartMatrix PROVE MutationInv'
<1>1. MutationTypeOK'
  BY DEF MutationInv, MutationTypeOK, StartMatrix
<1>2. gate = "idle" /\ running \notin Mutants
  BY DEF MutationInv, OneMutant, StartMatrix
<1>3. OneMutant'
  BY <1>2 DEF MutationInv, OneMutant, StartMatrix
<1>4. OwnSoFar'
  BY DEF MutationInv, OwnSoFar, StartMatrix, Dies
<1>5. GateIsEarned'
  BY DEF GateIsEarned, StartMatrix
<1> QED
  BY <1>1, <1>3, <1>4, <1>5 DEF MutationInv

\* Between two mutants every source is the original.
LEMMA SourcesAreClean ==
  ASSUME MutationInv, running = NoMutant
  PROVE  \A u \in Units : source[u] = Clean
BY ModelValues DEF MutationInv, MutationTypeOK, OneMutant

\* Writing mutant m over its file leaves one mutant in the tree.
LEMMA MutatedSource ==
  ASSUME MutationInv, running = NoMutant, NEW m \in Mutants
  PROVE  /\ Mutated(m) \in [Units -> Mutants \cup {Clean}]
         /\ Mutated(m)[UnitOf[m]] = m
         /\ \A u \in Units \ {UnitOf[m]} : Mutated(m)[u] = Clean
BY SourcesAreClean, UnitOfType DEF MutationInv, MutationTypeOK, Mutated

LEMMA BuildMutantKeeps ==
  ASSUME MutationInv, NEW m \in Mutants, BuildMutant(m) PROVE MutationInv'
<1> DEFINE src == Mutated(m)
<1> DEFINE W == Remade(src, m)
<1>1. /\ gate = "open" /\ running = NoMutant /\ m \in todo /\ verdict[m] = "none"
      /\ Broken(src, W) = {}
      /\ source' = src /\ object' = Built(src, W)
      /\ newer' = [w \in Units |-> newer[w] /\ w \notin W]
      /\ running' = m
      /\ UNCHANGED <<todo, verdict, mixed, gate>>
  BY DEF BuildMutant
<1>2. /\ src \in [Units -> Mutants \cup {Clean}] /\ src[UnitOf[m]] = m
      /\ \A u \in Units \ {UnitOf[m]} : src[u] = Clean
  BY <1>1, MutatedSource
<1> HIDE DEF src
<1>3. W \subseteq Units /\ UnitOf[m] \in W /\ UnitOf[m] \in Units
  BY UnitOfType DEF Remade
<1> HIDE DEF W
<1>4. m \in Compiling
  BY <1>1, <1>2, <1>3 DEF Broken
<1>5. /\ object' \in [Units -> Mutants \cup {Clean, Missing}]
      /\ object'[UnitOf[m]] = m
  BY <1>1, <1>2, <1>3 DEF Built, MutationInv, MutationTypeOK
<1>6. newer' \in [Units -> BOOLEAN]
  BY <1>1
<1>7. MutationTypeOK'
  BY <1>1, <1>2, <1>5, <1>6 DEF MutationInv, MutationTypeOK
<1>8. OneMutant'
  BY <1>1, <1>2, <1>4, <1>5, ModelValues DEF OneMutant
<1>9. OwnSoFar' /\ GateIsEarned'
  BY <1>1 DEF MutationInv, OwnSoFar, GateIsEarned, Dies
<1> QED
  BY <1>7, <1>8, <1>9 DEF MutationInv

\* A build that breaks is this mutant's: it does not compile.
LEMMA BrokenIsOwn ==
  ASSUME MutationInv, running = NoMutant, NEW m \in Mutants,
         Broken(Mutated(m), Remade(Mutated(m), m)) # {}
  PROVE  m \notin Compiling
<1>1. PICK w \in Units : Mutated(m)[w] \in Mutants \ Compiling
  BY DEF Broken, Remade
<1> QED
  BY <1>1, MutatedSource, ModelValues

LEMMA BreakBuildKeeps ==
  ASSUME MutationInv, NEW m \in Mutants, BreakBuild(m) PROVE MutationInv'
<1> DEFINE src == Mutated(m)
<1> DEFINE W == Remade(src, m)
<1> DEFINE bad == Broken(src, W)
<1>1. /\ gate = "open" /\ running = NoMutant /\ m \in todo /\ verdict[m] = "none"
      /\ bad # {} /\ source' = Undone(src, m)
      /\ verdict' = [verdict EXCEPT ![m] = "killed"]
      /\ UNCHANGED <<todo, running, mixed, gate>>
  BY DEF BreakBuild
<1>2. PICK D \in SUBSET (W \ bad) :
        /\ object' = [w \in Units |-> IF w \in D THEN src[w]
                        ELSE IF w = UnitOf[m] THEN Missing ELSE object[w]]
        /\ newer' = [w \in Units |-> newer[w] /\ w \notin D]
  BY DEF BreakBuild
<1>3. m \notin Compiling
  BY <1>1, BrokenIsOwn
<1>4. /\ src \in [Units -> Mutants \cup {Clean}]
      /\ \A u \in Units \ {UnitOf[m]} : src[u] = Clean
  BY <1>1, MutatedSource
<1> HIDE DEF src, W, bad
<1>5. source' \in [Units -> {Clean}]
  BY <1>1, <1>4, UnitOfType DEF Undone
<1>6. object' \in [Units -> Mutants \cup {Clean, Missing}] /\ newer' \in [Units -> BOOLEAN]
  BY <1>2, <1>4 DEF MutationInv, MutationTypeOK
<1>7. MutationTypeOK'
  BY <1>1, <1>5, <1>6 DEF MutationInv, MutationTypeOK
<1>8. OneMutant'
  BY <1>1, <1>5, ModelValues DEF OneMutant
<1>9. OwnSoFar'
  BY <1>1, <1>3 DEF MutationInv, MutationTypeOK, OwnSoFar, Dies
<1>10. GateIsEarned'
  BY <1>1 DEF GateIsEarned
<1> QED
  BY <1>7, <1>8, <1>9, <1>10 DEF MutationInv

\* With nothing stale linked in, the suites say of the object what is so of the
\* mutant.
LEMMA JudgedIsOwn ==
  ASSUME MutationInv, NEW m \in Mutants, JudgeMutant(m)
  PROVE  m \in mixed' \/ (verdict'[m] = "killed" <=> Dies(m))
<1>1. /\ running = m
      /\ mixed' = IF Stale(UnitOf[m]) = {} THEN mixed ELSE mixed \cup {m}
  BY DEF JudgeMutant
<1>2. PICK v \in {"killed", "survived"} :
        /\ Stale(UnitOf[m]) = {} => (v = "killed") = SuitesFail(UnitOf[m])
        /\ verdict' = [verdict EXCEPT ![m] = v]
  BY DEF JudgeMutant
<1>3. object[UnitOf[m]] = m /\ m \in Compiling
  BY <1>1 DEF MutationInv, OneMutant
<1>4. verdict'[m] = v
  BY <1>2 DEF MutationInv, MutationTypeOK
<1>5. CASE Stale(UnitOf[m]) = {}
  <2>1. v = "killed" <=> UnitOf[m] \in Caught[m]
    BY <1>2, <1>3, <1>5 DEF SuitesFail
  <2> QED
    BY <1>3, <1>4, <2>1 DEF Dies
<1>6. CASE Stale(UnitOf[m]) # {}
  BY <1>1, <1>6
<1> QED
  BY <1>5, <1>6

LEMMA JudgeMutantKeeps ==
  ASSUME MutationInv, NEW m \in Mutants, JudgeMutant(m) PROVE MutationInv'
<1>1. /\ running = m /\ source' = Undone(source, m) /\ running' = NoMutant
      /\ UNCHANGED <<todo, object, gate>>
      /\ mixed' = IF Stale(UnitOf[m]) = {} THEN mixed ELSE mixed \cup {m}
  BY DEF JudgeMutant
<1>2. PICK v \in {"killed", "survived"} : verdict' = [verdict EXCEPT ![m] = v]
  BY DEF JudgeMutant
<1>3. PICK b \in BOOLEAN : newer' = [newer EXCEPT ![UnitOf[m]] = b]
  BY DEF JudgeMutant
<1>4. gate = "open"
  BY <1>1 DEF MutationInv, OneMutant
<1>5. source' \in [Units -> {Clean}]
  <2>1. \A u \in Units \ {UnitOf[m]} : source[u] = Clean
    BY <1>1 DEF MutationInv, MutationTypeOK, OneMutant
  <2> QED
    BY <1>1, <2>1, UnitOfType DEF Undone, MutationInv, MutationTypeOK
<1>6. MutationTypeOK'
  BY <1>1, <1>2, <1>3, <1>5 DEF MutationInv, MutationTypeOK
<1>7. OneMutant'
  BY <1>1, <1>5, ModelValues DEF OneMutant
<1>8. OwnSoFar'
  <2>1. \A n \in Mutants \ {m} : verdict'[n] = verdict[n]
    BY <1>2 DEF MutationInv, MutationTypeOK
  <2>2. mixed \subseteq mixed'
    BY <1>1
  <2> QED
    BY <2>1, <2>2, JudgedIsOwn DEF MutationInv, OwnSoFar, Dies
<1>9. GateIsEarned'
  BY <1>1, <1>4 DEF GateIsEarned
<1> QED
  BY <1>6, <1>7, <1>8, <1>9 DEF MutationInv

\* What passes has no mutant left, and its kills are earned or mixed.
LEMMA PassIsEarned ==
  ASSUME MutationInv, GatePasses(Ran # todo)
  PROVE  /\ \A m \in todo : verdict[m] # "none"
         /\ \A m \in (todo \cap DenyGuards) \ mixed : Dies(m)
         /\ 100 * Cardinality({m \in todo : Dies(m) \/ m \in mixed})
              >= ScoreGate * Cardinality(todo)
<1> DEFINE Earned == {m \in todo : Dies(m) \/ m \in mixed}
<1>1. /\ Ran = todo
      /\ 100 * Cardinality(Killed) >= ScoreGate * Cardinality(todo)
      /\ DenyGuards \cap todo \subseteq Killed
  BY DEF GatePasses
<1>2. todo \subseteq Mutants
  BY DEF MutationInv, MutationTypeOK
<1>3. Killed \subseteq Earned
  BY <1>2 DEF Killed, MutationInv, OwnSoFar
<1>4. IsFiniteSet(Mutants)
  BY MutationAssumption DEF MutationAssumption
<1>5. IsFiniteSet(todo)
  BY <1>2, <1>4, FS_Subset
<1>6. IsFiniteSet(Earned)
  BY <1>5, FS_Subset
<1>7. /\ Cardinality(Killed) <= Cardinality(Earned)
      /\ Cardinality(Killed) \in Nat /\ Cardinality(Earned) \in Nat
  BY <1>3, <1>6, FS_Subset, FS_CardinalityType
<1>8. ScoreGate * Cardinality(todo) \in Nat
  <2>1. ScoreGate \in Nat /\ Cardinality(todo) \in Nat
    BY <1>5, FS_CardinalityType, MutationAssumption DEF MutationAssumption
  <2>2. \A s \in Nat, n \in Nat : s * n \in Nat
    BY Z3
  <2> QED
    BY <2>1, <2>2
<1> HIDE DEF Earned
<1>9. 100 * Cardinality(Earned) >= ScoreGate * Cardinality(todo)
  <2> DEFINE k == Cardinality(Killed)
  <2> DEFINE n == Cardinality(Earned)
  <2> DEFINE t == ScoreGate * Cardinality(todo)
  <2>1. k \in Nat /\ n \in Nat /\ t \in Nat /\ k <= n /\ 100 * k >= t
    BY <1>1, <1>7, <1>8
  <2> HIDE DEF k, n, t
  <2>2. 100 * n >= t
    BY <2>1
  <2> QED
    BY <2>2 DEF n, t
<1>10. \A m \in todo : verdict[m] # "none"
  BY <1>1 DEF Ran
<1>11. \A m \in (todo \cap DenyGuards) \ mixed : Dies(m)
  BY <1>1, <1>3 DEF Earned
<1> QED
  BY <1>9, <1>10, <1>11 DEF Earned

LEMMA EndMatrixKeeps ==
  ASSUME MutationInv, EndMatrix PROVE MutationInv'
<1>1. /\ running = NoMutant /\ gate' = (IF GatePasses(Ran # todo) THEN "PASS" ELSE "FAIL")
      /\ UNCHANGED <<todo, source, object, newer, running, verdict, mixed>>
  BY DEF EndMatrix
<1>2. MutationTypeOK'
  BY <1>1 DEF MutationInv, MutationTypeOK
<1>3. OneMutant'
  BY <1>1, ModelValues DEF MutationInv, OneMutant
<1>4. OwnSoFar'
  BY <1>1 DEF MutationInv, OwnSoFar, Dies
<1>5. CASE GatePasses(Ran # todo)
  BY <1>1, <1>2, <1>3, <1>4, <1>5, PassIsEarned DEF GateIsEarned, Dies, MutationInv
<1>6. CASE ~GatePasses(Ran # todo)
  BY <1>1, <1>2, <1>3, <1>4, <1>6 DEF GateIsEarned, MutationInv
<1> QED
  BY <1>5, <1>6

LEMMA MutationNextKeeps == MutationInv /\ [MutationNext]_mutationVars => MutationInv'
<1> SUFFICES ASSUME MutationInv, [MutationNext]_mutationVars PROVE MutationInv'
  OBVIOUS
<1>1. CASE UNCHANGED mutationVars
  BY <1>1 DEF mutationVars, MutationInv, MutationTypeOK, OneMutant, OwnSoFar, GateIsEarned, Dies
<1>2. CASE MutationNext
  BY <1>2, StartMatrixKeeps, EndMatrixKeeps, BuildMutantKeeps, BreakBuildKeeps,
     JudgeMutantKeeps DEF MutationNext
<1> QED
  BY <1>1, <1>2

-----------------------------------------------------------------------------

\* Every variable of the mutation gate has its type.
THEOREM MutationTypes == MutationSpec => []MutationTypeOK
<1>1. MutationInv => MutationTypeOK
  BY DEF MutationInv
<1> QED
  BY <1>1, MutationInitInv, MutationNextKeeps, PTL DEF MutationSpec

\* In any tree and any order of mutants, a verdict is the mutant's own unless
\* another file's stale object was linked (apply_and_build, run_suites).
THEOREM VerdictsAreOwn == MutationSpec => VerdictIsOwn
<1>1. ASSUME MutationInv, [MutationNext]_mutationVars, NEW m \in Mutants,
             verdict'[m] # verdict[m]
      PROVE  m \in mixed' \/ (verdict'[m] = "killed") = Dies(m)
  <2>1. verdict'[m] # "none"
    <3>1. verdict[m] = "none"
      <4>1. CASE UNCHANGED mutationVars
        BY <1>1, <4>1 DEF mutationVars
      <4>2. CASE MutationNext
        BY <1>1, <4>2 DEF MutationNext, StartMatrix, EndMatrix, BuildMutant, BreakBuild,
           JudgeMutant, MutationInv, MutationTypeOK, OneMutant
      <4> QED
        BY <1>1, <4>1, <4>2
    <3> QED
      BY <1>1, <3>1
  <2>2. OwnSoFar'
    BY <1>1, MutationNextKeeps DEF MutationInv
  <2> QED
    BY <2>1, <2>2 DEF OwnSoFar, Dies
<1>2. MutationInv /\ [MutationNext]_mutationVars =>
        [\A m \in Mutants : verdict'[m] # verdict[m] =>
           m \in mixed' \/ (verdict'[m] = "killed") = Dies(m)]_mutationVars
  BY <1>1
<1> QED
  BY <1>2, MutationInitInv, MutationNextKeeps, PTL DEF MutationSpec, VerdictIsOwn

\* A gate that passes has judged its whole matrix and its score is earned, for any
\* matrix, sample and threshold (main, the last lines).
THEOREM PassingGateIsEarned == MutationSpec => []GateIsEarned
<1>1. MutationInv => GateIsEarned
  BY DEF MutationInv
<1> QED
  BY <1>1, MutationInitInv, MutationNextKeeps, PTL DEF MutationSpec

-----------------------------------------------------------------------------
(* Inplace *)

Whole(i) == i = NoFile \/ i \in [text : Texts, mode : Modes, synced : {TRUE}]

\* A name, in memory and on the disk, leads to a whole text that was synced.
NamesAreWhole == Whole(path) /\ Whole(disk)

\* How far a rewrite has come shows in its temporary file.
TempKeepsUp == \A w \in Writers :
  /\ step[w] # "idle" => temp[w] \in Inodes
  /\ step[w] \in {"written", "synced", "moded"} => temp[w].text = text[w]
  /\ step[w] \in {"synced", "moded"} => temp[w].synced = TRUE
  /\ step[w] = "moded" => temp[w].mode = outMode[w]

InplaceInv == InplaceTypeOK /\ NamesAreWhole /\ TempKeepsUp

\* What each writer has undertaken to publish, in the words of AtomicFile.
Promise == [w \in Writers |-> IF step[w] = "idle" THEN NoRewrite
                               ELSE [text |-> text[w], mode |-> outMode[w]]]

-----------------------------------------------------------------------------

LEMMA InplaceInitInv == InplaceInit => InplaceInv
<1> SUFFICES ASSUME InplaceInit PROVE InplaceInv
  OBVIOUS
<1>1. (CHOOSE t \in Texts : TRUE) \in Texts /\ DefaultMode \in Modes
  BY InplaceAssumption DEF InplaceAssumption
<1>2. InplaceTypeOK
  BY <1>1 DEF InplaceInit, InplaceTypeOK, Steps
<1>3. NamesAreWhole /\ TempKeepsUp
  BY DEF InplaceInit, NamesAreWhole, Whole, TempKeepsUp
<1> QED
  BY <1>2, <1>3 DEF InplaceInv

\* What a step of one writer leaves of the others.
LEMMA StepOfOne ==
  ASSUME InplaceInv, NEW w \in Writers, NEW from, NEW to \in Steps, Step(w, from, to)
  PROVE  /\ step[w] = from /\ step' \in [Writers -> Steps] /\ step'[w] = to
         /\ \A v \in Writers \ {w} : step'[v] = step[v]
BY DEF InplaceInv, InplaceTypeOK, Step

LEMMA MakeTempKeeps ==
  ASSUME InplaceInv, NEW w \in Writers, MakeTemp(w) PROVE InplaceInv'
<1>1. /\ step[w] = "idle" /\ step' \in [Writers -> Steps] /\ step'[w] = "made"
      /\ \A v \in Writers \ {w} : step'[v] = step[v]
  BY StepOfOne DEF MakeTemp, Steps
<1>2. PICK t \in Texts : text' = [text EXCEPT ![w] = t]
  BY DEF MakeTemp
<1>3. (IF path = NoFile THEN DefaultMode ELSE path.mode) \in Modes
  BY InplaceAssumption DEF InplaceAssumption, InplaceInv, NamesAreWhole, Whole
<1>4. outMode' \in [Writers -> Modes]
  BY <1>3 DEF MakeTemp, InplaceInv, InplaceTypeOK
<1> DEFINE new == [text |-> Torn, mode |-> PrivateMode, synced |-> TRUE]
<1>5. new \in Inodes
  BY DEF Inodes
<1> HIDE DEF new
<1>6. temp' = [temp EXCEPT ![w] = new] /\ UNCHANGED <<path, disk, litter>>
  BY DEF MakeTemp, new
<1>7. InplaceTypeOK'
  BY <1>1, <1>2, <1>4, <1>5, <1>6 DEF InplaceInv, InplaceTypeOK
<1>8. NamesAreWhole'
  BY <1>6 DEF InplaceInv, NamesAreWhole, Whole
<1>9. TempKeepsUp'
  <2>1. temp'[w] = new /\ \A v \in Writers \ {w} :
          temp'[v] = temp[v] /\ text'[v] = text[v] /\ outMode'[v] = outMode[v]
    BY <1>2, <1>6 DEF MakeTemp, InplaceInv, InplaceTypeOK
  <2> QED
    BY <1>1, <1>5, <2>1 DEF InplaceInv, TempKeepsUp
<1> QED
  BY <1>7, <1>8, <1>9 DEF InplaceInv

\* The middle steps change one temporary file and nothing a reader sees.
LEMMA TempStep ==
  ASSUME InplaceInv, NEW w \in Writers, NEW i \in Inodes,
         temp' = [temp EXCEPT ![w] = i], UNCHANGED <<path, disk, text, outMode, litter>>,
         step' \in [Writers -> Steps], \A v \in Writers \ {w} : step'[v] = step[v],
         step'[w] \in {"written", "synced", "moded"} => i.text = text[w],
         step'[w] \in {"synced", "moded"} => i.synced = TRUE,
         step'[w] = "moded" => i.mode = outMode[w]
  PROVE  InplaceInv'
<1>1. temp'[w] = i /\ \A v \in Writers \ {w} : temp'[v] = temp[v]
  BY DEF InplaceInv, InplaceTypeOK
<1>2. InplaceTypeOK'
  BY DEF InplaceInv, InplaceTypeOK
<1>3. NamesAreWhole'
  BY DEF InplaceInv, NamesAreWhole, Whole
<1>4. TempKeepsUp'
  BY <1>1 DEF InplaceInv, TempKeepsUp
<1> QED
  BY <1>2, <1>3, <1>4 DEF InplaceInv

LEMMA WriteTextKeeps ==
  ASSUME InplaceInv, NEW w \in Writers, WriteText(w) PROVE InplaceInv'
<1>1. /\ step[w] = "made" /\ step' \in [Writers -> Steps] /\ step'[w] = "written"
      /\ \A v \in Writers \ {w} : step'[v] = step[v]
  BY StepOfOne DEF WriteText, Steps
<1>2. temp[w] \in Inodes /\ text[w] \in Texts
  BY <1>1 DEF InplaceInv, InplaceTypeOK, TempKeepsUp
<1> DEFINE i == [temp[w] EXCEPT !.text = text[w], !.synced = FALSE]
<1>3. i \in Inodes /\ i.text = text[w]
  BY <1>2 DEF Inodes
<1>4. temp' = [temp EXCEPT ![w] = i] /\ UNCHANGED <<path, disk, text, outMode, litter>>
  BY <1>2 DEF WriteText, Inodes, InplaceInv, InplaceTypeOK
<1> HIDE DEF i
<1> QED
  BY <1>1, <1>3, <1>4, TempStep

LEMMA SyncTextKeeps ==
  ASSUME InplaceInv, NEW w \in Writers, SyncText(w) PROVE InplaceInv'
<1>1. /\ step[w] = "written" /\ step' \in [Writers -> Steps] /\ step'[w] = "synced"
      /\ \A v \in Writers \ {w} : step'[v] = step[v]
  BY StepOfOne DEF SyncText, Steps
<1>2. temp[w] \in Inodes /\ temp[w].text = text[w]
  BY <1>1 DEF InplaceInv, TempKeepsUp
<1> DEFINE i == [temp[w] EXCEPT !.synced = TRUE]
<1>3. i \in Inodes /\ i.text = text[w] /\ i.synced = TRUE
  BY <1>2 DEF Inodes
<1>4. temp' = [temp EXCEPT ![w] = i] /\ UNCHANGED <<path, disk, text, outMode, litter>>
  BY DEF SyncText
<1> HIDE DEF i
<1> QED
  BY <1>1, <1>3, <1>4, TempStep

LEMMA SetModeKeeps ==
  ASSUME InplaceInv, NEW w \in Writers, SetMode(w) PROVE InplaceInv'
<1>1. /\ step[w] = "synced" /\ step' \in [Writers -> Steps] /\ step'[w] = "moded"
      /\ \A v \in Writers \ {w} : step'[v] = step[v]
  BY StepOfOne DEF SetMode, Steps
<1>2. /\ temp[w] \in Inodes /\ temp[w].text = text[w] /\ temp[w].synced = TRUE
      /\ outMode[w] \in Modes
  BY <1>1 DEF InplaceInv, InplaceTypeOK, TempKeepsUp
<1> DEFINE i == [temp[w] EXCEPT !.mode = outMode[w]]
<1>3. i \in Inodes /\ i.text = text[w] /\ i.synced = TRUE /\ i.mode = outMode[w]
  BY <1>2 DEF Inodes
<1>4. temp' = [temp EXCEPT ![w] = i] /\ UNCHANGED <<path, disk, text, outMode, litter>>
  BY DEF SetMode
<1> HIDE DEF i
<1> QED
  BY <1>1, <1>3, <1>4, TempStep

\* What is renamed over the path is whole, synced and has the promised mode.
LEMMA ReplaceIsWhole ==
  ASSUME InplaceInv, NEW w \in Writers, Replace(w)
  PROVE  /\ temp[w] \in [text : Texts, mode : Modes, synced : {TRUE}]
         /\ temp[w].text = text[w] /\ temp[w].mode = outMode[w]
<1>1. step[w] = "moded"
  BY DEF Replace, Step
<1> QED
  BY <1>1 DEF InplaceInv, InplaceTypeOK, TempKeepsUp, Inodes

LEMMA ReplaceKeeps ==
  ASSUME InplaceInv, NEW w \in Writers, Replace(w) PROVE InplaceInv'
<1>1. /\ step' \in [Writers -> Steps] /\ step'[w] = "idle"
      /\ \A v \in Writers \ {w} : step'[v] = step[v]
  BY StepOfOne DEF Replace, Steps
<1>2. /\ path' = temp[w] /\ temp' = [temp EXCEPT ![w] = NoFile]
      /\ UNCHANGED <<disk, text, outMode, litter>>
  BY DEF Replace
<1>3. NamesAreWhole'
  BY <1>2, ReplaceIsWhole DEF InplaceInv, NamesAreWhole, Whole
<1>4. InplaceTypeOK'
  BY <1>1, <1>2, ReplaceIsWhole DEF InplaceInv, InplaceTypeOK, Inodes
<1>5. TempKeepsUp'
  BY <1>1, <1>2 DEF InplaceInv, InplaceTypeOK, TempKeepsUp
<1> QED
  BY <1>3, <1>4, <1>5 DEF InplaceInv

LEMMA AbandonKeeps ==
  ASSUME InplaceInv, NEW w \in Writers, Raise(w) \/ KillWriter(w) PROVE InplaceInv'
<1>1. /\ step' = [step EXCEPT ![w] = "idle"] /\ temp' = [temp EXCEPT ![w] = NoFile]
      /\ litter' \in BOOLEAN /\ UNCHANGED <<path, disk, text, outMode>>
  BY DEF Raise, KillWriter, InplaceInv, InplaceTypeOK
<1>2. InplaceTypeOK'
  BY <1>1 DEF InplaceInv, InplaceTypeOK, Steps
<1>3. NamesAreWhole'
  BY <1>1 DEF InplaceInv, NamesAreWhole, Whole
<1>4. TempKeepsUp'
  BY <1>1 DEF InplaceInv, InplaceTypeOK, TempKeepsUp
<1> QED
  BY <1>2, <1>3, <1>4 DEF InplaceInv

\* What the writers keep to themselves is untouched by the file system's steps.
LEMMA TempsStay ==
  ASSUME InplaceInv, UNCHANGED <<temp, step, text, outMode>>
  PROVE  TempKeepsUp'
BY DEF InplaceInv, TempKeepsUp

LEMMA ChmodPathKeeps ==
  ASSUME InplaceInv, ChmodPath PROVE InplaceInv'
<1>1. path # NoFile /\ UNCHANGED <<disk, temp, step, text, outMode, litter>>
  BY DEF ChmodPath
<1>2. PICK m \in Modes : path' = [path EXCEPT !.mode = m]
  BY DEF ChmodPath
<1>3. path' \in [text : Texts, mode : Modes, synced : {TRUE}]
  BY <1>1, <1>2 DEF InplaceInv, NamesAreWhole, Whole
<1>4. NamesAreWhole'
  BY <1>1, <1>3 DEF InplaceInv, NamesAreWhole, Whole
<1>5. InplaceTypeOK'
  BY <1>1, <1>3 DEF InplaceInv, InplaceTypeOK, Inodes
<1> QED
  BY <1>1, <1>4, <1>5, TempsStay DEF InplaceInv

\* The file was synced before it got its name: the disk gets it whole.
LEMMA DiskGetsTheFile == InplaceInv => OnDisk = {path}
BY DEF InplaceInv, NamesAreWhole, Whole, OnDisk

LEMMA WritebackKeeps ==
  ASSUME InplaceInv, Writeback PROVE InplaceInv'
<1>1. disk' = path /\ UNCHANGED <<path, temp, step, text, outMode, litter>>
  BY DiskGetsTheFile DEF Writeback
<1>2. InplaceTypeOK' /\ NamesAreWhole'
  BY <1>1 DEF InplaceInv, InplaceTypeOK, NamesAreWhole, Whole
<1> QED
  BY <1>1, <1>2, TempsStay DEF InplaceInv

LEMMA LosePowerKeeps ==
  ASSUME InplaceInv, LosePower PROVE InplaceInv'
<1>1. /\ path' \in {path, disk} /\ disk' = path' /\ litter' \in BOOLEAN
      /\ temp' = [w \in Writers |-> NoFile] /\ step' = [w \in Writers |-> "idle"]
      /\ UNCHANGED <<text, outMode>>
  BY DiskGetsTheFile DEF LosePower, InplaceInv, InplaceTypeOK
<1>2. InplaceTypeOK' /\ NamesAreWhole'
  BY <1>1 DEF InplaceInv, InplaceTypeOK, NamesAreWhole, Whole, Steps
<1>3. TempKeepsUp'
  BY <1>1 DEF TempKeepsUp
<1> QED
  BY <1>2, <1>3 DEF InplaceInv

LEMMA InplaceNextKeeps == InplaceInv /\ [InplaceNext]_inplaceVars => InplaceInv'
<1> SUFFICES ASSUME InplaceInv, [InplaceNext]_inplaceVars PROVE InplaceInv'
  OBVIOUS
<1>1. CASE UNCHANGED inplaceVars
  BY <1>1 DEF inplaceVars, InplaceInv, InplaceTypeOK, NamesAreWhole, Whole, TempKeepsUp
<1>2. CASE InplaceNext
  BY <1>2, MakeTempKeeps, WriteTextKeeps, SyncTextKeeps, SetModeKeeps, ReplaceKeeps,
     AbandonKeeps, ChmodPathKeeps, WritebackKeeps, LosePowerKeeps DEF InplaceNext
<1> QED
  BY <1>1, <1>2

-----------------------------------------------------------------------------
\* The refinement: the abstract file is what a reader sees at the path, and a
\* writer's promise is made when it has read the mode.

LEMMA SeenFile ==
  ASSUME NEW i, Whole(i)
  PROVE  /\ Seen(i) = NoFile <=> i = NoFile
         /\ Seen(i) \in Contract!Files \cup {NoFile}
         /\ i # NoFile => Seen(i).mode = i.mode
<1>1. NoFile \notin [text : Texts, mode : Modes]
  BY InplaceAssumption DEF InplaceAssumption
<1>2. CASE i = NoFile
  BY <1>2 DEF Seen
<1>3. CASE i # NoFile
  <2>1. Seen(i) \in [text : Texts, mode : Modes] /\ Seen(i).mode = i.mode
    BY <1>3 DEF Whole, Seen
  <2> QED
    BY <1>1, <1>3, <2>1 DEF Contract!Files
<1> QED
  BY <1>2, <1>3

\* A promise is no NoRewrite.
LEMMA PromiseMade ==
  ASSUME InplaceInv, NEW w \in Writers
  PROVE  Promise[w] = NoRewrite <=> step[w] = "idle"
BY InplaceAssumption DEF InplaceAssumption, InplaceInv, InplaceTypeOK, Promise

LEMMA InitRefines == InplaceInit => Contract!FileInit
BY DEF InplaceInit, Contract!FileInit, Seen

LEMMA MakeTempRefines ==
  ASSUME InplaceInv, NEW w \in Writers, MakeTemp(w)
  PROVE  Contract!Undertake(w)
<1>1. /\ step[w] = "idle" /\ step' \in [Writers -> Steps] /\ step'[w] = "made"
      /\ \A v \in Writers \ {w} : step'[v] = step[v]
  BY StepOfOne DEF MakeTemp, Steps
<1>2. PICK t \in Texts : text' = [text EXCEPT ![w] = t]
  BY DEF MakeTemp
<1> DEFINE mode == IF path = NoFile THEN DefaultMode ELSE path.mode
<1>3. mode = Contract!ModeOf(Seen(path))
  BY SeenFile DEF Contract!ModeOf, InplaceInv, NamesAreWhole
<1>4. outMode' = [outMode EXCEPT ![w] = mode] /\ path' = path /\ disk' = disk
  BY DEF MakeTemp
<1> HIDE DEF mode
<1>5. Promise' = [Promise EXCEPT ![w] = [text |-> t, mode |-> mode]]
  <2>1. /\ text'[w] = t /\ outMode'[w] = mode
        /\ \A v \in Writers \ {w} : text'[v] = text[v] /\ outMode'[v] = outMode[v]
    BY <1>2, <1>4 DEF InplaceInv, InplaceTypeOK
  <2> QED
    BY <1>1, <2>1 DEF Promise
<1>6. Seen(path)' = Seen(path) /\ Seen(disk)' = Seen(disk)
  BY <1>4 DEF Seen
<1>7. Promise[w] = NoRewrite
  BY <1>1, PromiseMade
<1> QED
  BY <1>3, <1>5, <1>6, <1>7 DEF Contract!Undertake, Promise

\* Writing, syncing and chmodding the temporary file is invisible.
LEMMA MiddleRefines ==
  ASSUME InplaceInv, NEW w \in Writers, WriteText(w) \/ SyncText(w) \/ SetMode(w)
  PROVE  UNCHANGED Contract!fileVars
<1>1. /\ step[w] # "idle" /\ step'[w] # "idle"
      /\ \A v \in Writers \ {w} : step'[v] = step[v]
  BY DEF WriteText, SyncText, SetMode, Step, InplaceInv, InplaceTypeOK
<1>2. UNCHANGED <<path, disk, text, outMode>>
  BY DEF WriteText, SyncText, SetMode
<1>3. Promise' = Promise
  BY <1>1, <1>2 DEF Promise
<1> QED
  BY <1>2, <1>3 DEF Contract!fileVars, Seen, Promise

\* A rewrite that ends takes its promise back.
LEMMA PromiseEnds ==
  ASSUME InplaceInv, NEW w \in Writers, step[w] # "idle",
         step' = [step EXCEPT ![w] = "idle"], UNCHANGED <<text, outMode>>
  PROVE  Promise[w] # NoRewrite /\ Promise' = [Promise EXCEPT ![w] = NoRewrite]
<1>1. step'[w] = "idle" /\ \A v \in Writers \ {w} : step'[v] = step[v]
  BY DEF InplaceInv, InplaceTypeOK
<1> QED
  BY <1>1, PromiseMade DEF Promise

LEMMA ReplaceRefines ==
  ASSUME InplaceInv, NEW w \in Writers, Replace(w)
  PROVE  Contract!Publish(w)
<1>1. /\ step[w] # "idle" /\ step' = [step EXCEPT ![w] = "idle"]
      /\ path' = temp[w] /\ UNCHANGED <<disk, text, outMode>>
  BY DEF Replace, Step
<1>2. Promise[w] # NoRewrite /\ Promise' = [Promise EXCEPT ![w] = NoRewrite]
  BY <1>1, PromiseEnds
<1>3. Seen(path)' = Promise[w]
  <2>1. temp[w] # NoFile
    BY ReplaceIsWhole, InplaceAssumption DEF InplaceAssumption, Inodes
  <2> QED
    BY <1>1, <2>1, ReplaceIsWhole DEF Seen, Promise
<1> QED
  BY <1>1, <1>2, <1>3 DEF Contract!Publish, Promise, Seen

LEMMA AbandonRefines ==
  ASSUME InplaceInv, NEW w \in Writers, Raise(w) \/ KillWriter(w)
  PROVE  Contract!GiveUp(w)
<1>1. /\ step[w] # "idle" /\ step' = [step EXCEPT ![w] = "idle"]
      /\ UNCHANGED <<path, disk, text, outMode>>
  BY DEF Raise, KillWriter
<1>2. Promise[w] # NoRewrite /\ Promise' = [Promise EXCEPT ![w] = NoRewrite]
  BY <1>1, PromiseEnds
<1> QED
  BY <1>1, <1>2 DEF Contract!GiveUp, Promise, Seen

LEMMA ChmodPathRefines ==
  ASSUME InplaceInv, ChmodPath PROVE Contract!Chmod
<1>1. path # NoFile /\ UNCHANGED <<disk, step, text, outMode>>
  BY DEF ChmodPath
<1>2. PICK m \in Modes : path' = [path EXCEPT !.mode = m]
  BY DEF ChmodPath
<1>3. Whole(path') /\ path' # NoFile /\ path'.mode = m /\ path'.text = path.text
  BY <1>1, <1>2, InplaceAssumption
    DEF InplaceAssumption, InplaceInv, NamesAreWhole, Whole, Inodes
<1>4. Seen(path)' = [Seen(path) EXCEPT !.mode = m]
  BY <1>1, <1>3 DEF Seen
<1>5. Seen(path) # NoFile
  BY <1>1, SeenFile DEF InplaceInv, NamesAreWhole
<1> QED
  BY <1>1, <1>4, <1>5 DEF Contract!Chmod, Seen

LEMMA WritebackRefines ==
  ASSUME InplaceInv, Writeback PROVE Contract!Settle
<1>1. disk' = path /\ UNCHANGED <<path, step, text, outMode>>
  BY DiskGetsTheFile DEF Writeback
<1> QED
  BY <1>1 DEF Contract!Settle, Seen

LEMMA LosePowerRefines ==
  ASSUME InplaceInv, LosePower PROVE Contract!PowerCut
<1>1. /\ path' \in {path, disk} /\ disk' = path' /\ step' = [w \in Writers |-> "idle"]
  BY DiskGetsTheFile DEF LosePower
<1>2. Promise' = [w \in Writers |-> NoRewrite]
  BY <1>1 DEF Promise
<1>3. Seen(path)' \in {Seen(path), Seen(disk)} /\ Seen(disk)' = Seen(path)'
  BY <1>1 DEF Seen
<1> QED
  BY <1>2, <1>3 DEF Contract!PowerCut, Promise

LEMMA NextRefines ==
  InplaceInv /\ [InplaceNext]_inplaceVars => [Contract!FileNext]_(Contract!fileVars)
<1> SUFFICES ASSUME InplaceInv, [InplaceNext]_inplaceVars
             PROVE  [Contract!FileNext]_(Contract!fileVars)
  OBVIOUS
<1>1. CASE UNCHANGED inplaceVars
  BY <1>1 DEF inplaceVars, Contract!fileVars, Seen
<1>2. CASE \E w \in Writers : MakeTemp(w) \/ Replace(w) \/ Raise(w) \/ KillWriter(w)
  BY <1>2, MakeTempRefines, ReplaceRefines, AbandonRefines DEF Contract!FileNext
<1>3. CASE \E w \in Writers : WriteText(w) \/ SyncText(w) \/ SetMode(w)
  BY <1>3, MiddleRefines
<1>4. CASE ChmodPath \/ Writeback \/ LosePower
  BY <1>4, ChmodPathRefines, WritebackRefines, LosePowerRefines DEF Contract!FileNext
<1> QED
  BY <1>1, <1>2, <1>3, <1>4 DEF InplaceNext

-----------------------------------------------------------------------------

\* Every variable of the rewrite has its type.
THEOREM InplaceTypes == InplaceSpec => []InplaceTypeOK
<1>1. InplaceInv => InplaceTypeOK
  BY DEF InplaceInv
<1> QED
  BY <1>1, InplaceInitInv, InplaceNextKeeps, PTL DEF InplaceSpec

\* rewrite_in_place implements the contract of an atomic rewrite, for any number
\* of writers at once, texts and modes, with failures, kills and power cuts.
THEOREM InplaceImplementsContract == InplaceSpec => RewritesAreAtomic
BY InplaceInitInv, InplaceNextKeeps, InitRefines, NextRefines, PTL
  DEF InplaceSpec, RewritesAreAtomic, Contract!FileSpec
=============================================================================
