-------------------------------- MODULE Fetch --------------------------------
(***************************************************************************)
(* The fetch chokepoint (build/upstream/fetch.py): the rebase bot, the     *)
(* smoke and the fast lane read Chromium at a pinned revision through      *)
(* GitilesFetchSource, each in a process of its own.  What is at such a    *)
(* URL never changes, so _cached keeps it for good, in a file every        *)
(* process shares, written in place and read back as it is.                *)
(*                                                                         *)
(* One URL: the cache holds each under its own key.  The backoff is no     *)
(* state.  A process that fails or is killed may be started again.         *)
(***************************************************************************)
EXTENDS Naturals

CONSTANTS
  Engines,     \* processes that fetch
  MaxAttempts  \* _HTTP_MAX_ATTEMPTS

VARIABLES
  cached,   \* {"absent", "cut", "whole"}: the cache file
  fetching, \* [Engines -> FetchSteps]
  attempts, \* [Engines -> 0 .. MaxAttempts]: transient failures met
  body,     \* [Engines -> {"none", "cut", "whole"}]: what _cached has read
  raced,    \* history: [Engines -> BOOLEAN], it read the cache during a write
  maimed    \* history: a process was killed while it wrote the cache

fetchVars == <<cached, fetching, attempts, body, raced, maimed>>

\* "failed" is a FetchError, "burst" an exception neither clause of http_get
\* catches, "served" a body handed to the engine.
FetchSteps == {"idle", "getting", "got", "writing", "served", "failed", "burst"}

ASSUME FetchAssumption == MaxAttempts \in Nat \ {0}

FetchTypeOK ==
  /\ cached \in {"absent", "cut", "whole"}
  /\ fetching \in [Engines -> FetchSteps]
  /\ attempts \in [Engines -> 0 .. MaxAttempts]
  /\ body \in [Engines -> {"none", "cut", "whole"}]
  /\ raced \in [Engines -> BOOLEAN] /\ maimed \in BOOLEAN

FetchInit ==
  /\ cached = "absent"
  /\ fetching = [e \in Engines |-> "idle"]
  /\ attempts = [e \in Engines |-> 0]
  /\ body = [e \in Engines |-> "none"]
  /\ raced = [e \in Engines |-> FALSE]
  /\ maimed = FALSE

Writing == {e \in Engines : fetching[e] = "writing"}

\* A file in the cache is the answer, whatever is in it.
ReadCache(e) ==
  /\ fetching[e] = "idle" /\ cached # "absent"
  /\ fetching' = [fetching EXCEPT ![e] = "served"]
  /\ body' = [body EXCEPT ![e] = cached]
  /\ raced' = [raced EXCEPT ![e] = Writing # {}]
  /\ UNCHANGED <<cached, attempts, maimed>>

MissCache(e) ==
  /\ fetching[e] = "idle" /\ cached = "absent"
  /\ fetching' = [fetching EXCEPT ![e] = "getting"]
  /\ UNCHANGED <<cached, attempts, body, raced, maimed>>

\* What became of one attempt: the body; a failure worth another try (a lost
\* connection, a timeout, 408, 429, 5xx); one that is final (any other status, a
\* refused redirect); a body that ends before its Content-Length.
Outcomes == {"body", "blip", "final", "short"}

\* Wrong on purpose, for a mutant: a body cut short is taken for the body.
GotBodyShort(e, o) ==
  /\ fetching' = [fetching EXCEPT ![e] = "got"]
  /\ body' = [body EXCEPT ![e] = IF o = "body" THEN "whole" ELSE "cut"]

\* http.client.IncompleteRead is neither a URLError nor an OSError.
GotBody(e, o) == IF o = "body"
  THEN /\ fetching' = [fetching EXCEPT ![e] = "got"]
       /\ body' = [body EXCEPT ![e] = "whole"]
  ELSE /\ fetching' = [fetching EXCEPT ![e] = "burst"]
       /\ UNCHANGED body

\* Wrong on purpose, for a mutant: the count starts again at the last attempt.
TriedUncounted(e) == (attempts[e] + 1) % MaxAttempts

Tried(e) == attempts[e] + 1

Attempt(e) ==
  /\ fetching[e] = "getting"
  /\ \E o \in Outcomes :
       CASE o \in {"body", "short"} -> GotBody(e, o) /\ UNCHANGED attempts
         [] o = "blip" -> /\ attempts' = [attempts EXCEPT ![e] = Tried(e)]
                          /\ fetching' = [fetching EXCEPT ![e] =
                               IF attempts'[e] = MaxAttempts THEN "failed" ELSE @]
                          /\ UNCHANGED body
         [] OTHER -> /\ fetching' = [fetching EXCEPT ![e] = "failed"]
                     /\ UNCHANGED <<attempts, body>>
  /\ UNCHANGED <<cached, raced, maimed>>

\* write_bytes truncates the file before it writes.
OpenCache(e) ==
  /\ fetching[e] = "got"
  /\ fetching' = [fetching EXCEPT ![e] = "writing"]
  /\ cached' = "cut"
  /\ UNCHANGED <<attempts, body, raced, maimed>>

FillCache(e) ==
  /\ fetching[e] = "writing"
  /\ fetching' = [fetching EXCEPT ![e] = "served"]
  /\ cached' = body[e]
  /\ UNCHANGED <<attempts, body, raced, maimed>>

\* The engine goes on to fetch the URL again, in this process or a later one.
AskAgain(e) ==
  /\ fetching[e] \in {"served", "failed", "burst"}
  /\ fetching' = [fetching EXCEPT ![e] = "idle"]
  /\ attempts' = [attempts EXCEPT ![e] = 0]
  /\ body' = [body EXCEPT ![e] = "none"]
  /\ raced' = [raced EXCEPT ![e] = FALSE]
  /\ UNCHANGED <<cached, maimed>>

KillEngine(e) ==
  /\ fetching[e] \in {"getting", "got", "writing"}
  /\ maimed' = (maimed \/ fetching[e] = "writing")
  /\ fetching' = [fetching EXCEPT ![e] = "idle"]
  /\ attempts' = [attempts EXCEPT ![e] = 0]
  /\ body' = [body EXCEPT ![e] = "none"]
  /\ UNCHANGED <<cached, raced>>

FetchStep(e) == ReadCache(e) \/ MissCache(e) \/ Attempt(e) \/ OpenCache(e) \/ FillCache(e)

FetchNext == \E e \in Engines : FetchStep(e) \/ AskAgain(e) \/ KillEngine(e)

\* A process that runs keeps running: a request ends within its timeout.
FetchFairness == \A e \in Engines : WF_fetchVars(FetchStep(e))

FetchSpec == FetchInit /\ [][FetchNext]_fetchVars /\ FetchFairness
-----------------------------------------------------------------------------
\* An engine is served the whole of what upstream has, whatever failed on the way
\* and however the processes interleave, with two ways out: it read the cache
\* while another was writing it, or a writer was killed, once, at any time.
ServedWhole == \A e \in Engines : fetching[e] = "served" =>
  body[e] = "whole" \/ raced[e] \/ maimed

\* Every fetch ends: there is no run of transient failures, and no state of the
\* shared cache, that keeps an engine waiting.
FetchEnds == \A e \in Engines :
  fetching[e] = "getting" ~> fetching[e] # "getting"
=============================================================================
