------------------------ MODULE ThreadPoolRefinement ------------------------
(***************************************************************************)
(* The life of a `parallel` call: its record outlives every thread that    *)
(* runs one of its chunks, each chunk runs once, and all of them have      *)
(* returned when the call does.                                            *)
(*                                                                         *)
(* Then the pool implements the board of module JobBoard: every step of a  *)
(* thread is a step of the board or changes nothing that a program sees.   *)
(***************************************************************************)
EXTENDS ThreadPoolSafety

\* The pool threads that run a chunk or have still to count it.
WorkingOn == {w \in Workers : worker[w] \in Chunks}

\* The caller of the active call runs a chunk, or has still to count it.
CallerWorks == IF at[caller[active]] = "own" THEN 1 ELSE 0

\* Before start_pool there is no thread.
StartedOK == ~ started => \A w \in Workers : worker[w] = Absent

\* The caller of an open call is inside it.
CallOK ==
    /\ active # None =>
          caller[active] \in Bodies /\ at[caller[active]] \in {"own", "split"}
    /\ \A c \in Calls : call[c] = "open" /\ c # active =>
          /\ caller[c] \in Bodies
          /\ at[caller[c]] = "inline" /\ arg[caller[c]][1] = c

\* A pool thread runs only chunks of the active call, ones that are taken;
\* a caller runs only its own.
HolderOK ==
    /\ \A w \in Workers : worker[w] \in Chunks =>
          active # None /\ worker[w][1] = active /\ worker[w][2] < taken
    /\ \A b \in Bodies : at[b] = "own" =>
          arg[b][1] = active /\ arg[b][2] < taken
    /\ \A b \in Bodies : at[b] = "inline" => arg[b][2] < chunks[arg[b][1]]

\* A chunk that runs is run by somebody.
Held(x) ==
    \/ \E w \in Workers : worker[w] = x
    \/ \E b \in Bodies : at[b] \in {"own", "inline"} /\ arg[b] = x

HeldOK == \A x \in Chunks \cap Running : Held(x)

\* The two counters of the pool differ by those who have still to count.
CountOK ==
    active # None => taken = finished + Cardinality(WorkingOn) + CallerWorks

\* Whether a chunk has started and whether it has ended.
Progress(x) ==
    /\ runs[x] = IF at[x] = "idle" THEN 0 ELSE 1
    /\ call[x[1]] = "none" => at[x] = "idle"
    /\ call[x[1]] = "closed" =>
          at[x] = IF x[2] < chunks[x[1]] THEN "end" ELSE "idle"
    /\ x[1] = active => (at[x] # "idle" <=> x[2] < taken)
    /\ call[x[1]] = "open" /\ x[1] # active =>
          /\ x[2] < arg[caller[x[1]]][2] => at[x] = "end"
          /\ x[2] = arg[caller[x[1]]][2] => at[x] # "idle"
          /\ x[2] > arg[caller[x[1]]][2] => at[x] = "idle"

ProgressOK == \A x \in Chunks : Progress(x)

ChunkInv ==
    /\ JobInv
    /\ StartedOK
    /\ CallOK
    /\ HolderOK
    /\ HeldOK
    /\ CountOK
    /\ ProgressOK

-----------------------------------------------------------------------------
LEMMA ChunkFacts ==
    ASSUME TypeInv
    PROVE  /\ Chunks \subseteq Bodies /\ Jobs \subseteq Bodies
           /\ Jobs \cap Chunks = {} /\ Main \notin Chunks
           /\ Absent \notin Chunks /\ Loop \notin Chunks
           /\ None \notin Calls /\ None \notin Bodies
           /\ \A x \in Chunks :
                 /\ x[1] \in Calls /\ x[2] \in Nat /\ x[2] < MaxCount
                 /\ x = <<x[1], x[2]>>
           /\ \A c \in Calls, i \in Nat : i < MaxCount => <<c, i>> \in Chunks
           /\ at \in [Bodies -> Phases] /\ runs \in [Bodies -> Nat]
           /\ arg \in [Bodies -> Jobs \cup Chunks \cup {None}]
           /\ worker \in [Workers -> {Absent, Loop} \cup Jobs \cup Chunks]
           /\ taken \in Nat /\ finished \in Nat /\ active \in Calls \cup {None}
           /\ chunks \in [Calls -> 0 .. MaxCount] /\ MaxCount \in Nat
           /\ call \in [Calls -> {"none", "open", "closed"}]
           /\ caller \in [Calls -> Bodies \cup {None}]
           /\ \A b \in Bodies : at[b] \in {"own", "inline"} => arg[b] \in Chunks
           /\ active # None => call[active] = "open" /\ taken <= chunks[active]
           /\ \A b \in Bodies : at[b] \in {"own", "split"} =>
                 active # None /\ caller[active] = b
           /\ \A b \in Bodies : at[b] = "inline" =>
                 /\ arg[b][1] # active
                 /\ call[arg[b][1]] = "open" /\ caller[arg[b][1]] = b
  <1>1. \A x \in Chunks : x = <<x[1], x[2]>>
    BY DEF Chunks
  <1>2. Absent \notin Chunks /\ Loop \notin Chunks
    BY PoolAssumption, BodyFacts
  <1>3. Jobs \cap Chunks = {} /\ Main \notin Chunks /\ None \notin Bodies
    BY PoolAssumption
  <1> QED
    BY <1>1, <1>2, <1>3, BodyFacts DEF TypeInv, TypeOK, ArgOK, ActiveOK

LEMMA WorkingFinite ==
    IsFiniteSet(WorkingOn) /\ Cardinality(WorkingOn) \in Nat
  <1>1. IsFiniteSet(WorkingOn)
    BY PoolAssumption, FS_Subset DEF WorkingOn
  <1> QED
    BY <1>1, FS_CardinalityType

LEMMA ChunkInit == Init => ChunkInv
  <1> SUFFICES ASSUME Init PROVE ChunkInv
    OBVIOUS
  <1>1. JobInv
    BY JobInit
  <1> USE <1>1, ChunkFacts DEF JobInv
  <1>2. StartedOK /\ CallOK /\ CountOK
    BY DEF Init, StartedOK, CallOK, CountOK
  <1>3. HolderOK
    BY DEF Init, HolderOK
  <1>4. HeldOK
    BY DEF Init, HeldOK, Running
  <1>5. ProgressOK
    BY DEF Init, ProgressOK, Progress
  <1> QED
    BY <1>2, <1>3, <1>4, <1>5 DEF ChunkInv

-----------------------------------------------------------------------------
(* Steps that concern no chunk.                                            *)

Aside ==
    /\ UNCHANGED <<activeVars, callVars>>
    /\ started => started'
    /\ ~ started' => worker' = worker
    /\ \A w \in Workers : worker'[w] # worker[w] =>
          worker[w] \notin Chunks /\ worker'[w] \notin Chunks
    /\ \A x \in Chunks :
          /\ runs'[x] = runs[x]
          /\ \/ at'[x] = at[x]
             \/ at[x] \notin {"idle", "end"} /\ at'[x] \notin {"idle", "end"}
    /\ \A b \in Bodies :
          at[b] \in {"own", "split", "inline"} \/ at'[b] \in {"own", "split", "inline"}
            => at'[b] = at[b] /\ arg'[b] = arg[b]

LEMMA AsideStep == ChunkInv /\ JobInv' /\ Aside => ChunkInv'
  <1> SUFFICES ASSUME ChunkInv, JobInv', Aside PROVE ChunkInv'
    OBVIOUS
  <1> USE ChunkFacts DEF ChunkInv, JobInv, Aside, activeVars, callVars
  <1>1. StartedOK'
    BY DEF StartedOK
  <1>2. CallOK'
    BY DEF CallOK
  <1>3. HolderOK'
    BY DEF HolderOK
  <1>4. HeldOK'
    BY DEF HeldOK, Held, Running
  <1>5. CountOK'
    <2>1. WorkingOn' = WorkingOn
      BY DEF WorkingOn
    <2>2. active # None => CallerWorks' = CallerWorks
      BY DEF CallerWorks, CallOK
    <2> QED
      BY <2>1, <2>2 DEF CountOK
  <1>6. ProgressOK'
    BY DEF ProgressOK, Progress, CallOK
  <1> QED
    BY <1>1, <1>2, <1>3, <1>4, <1>5, <1>6

\* Building the pool gives threads that run no chunk.
LEMMA StartAside ==
    ASSUME TypeInv, StartedOK, start
    PROVE  /\ started' = TRUE
           /\ \A w \in Workers : worker'[w] # worker[w] =>
                 worker[w] \notin Chunks /\ worker'[w] \notin Chunks
  BY ChunkFacts DEF start, StartedOK

LEMMA WorkerAside ==
    ASSUME JobInv, StartedOK, NEW w \in Workers,
           TakeJob(w) \/ WaitReady(w) \/ EndJob(w)
    PROVE  Aside
  <1>0. worker[w] # Absent => started
    BY DEF StartedOK
  <1> USE ChunkFacts, JobFacts DEF JobInv, threadVars, bodyVars, activeVars, callVars
  <1>1. CASE TakeJob(w)
    <2>1. Head(queued) \in Queued
      BY <1>1 DEF TakeJob, TypeInv, TypeOK, Queued
    <2>2. Head(queued) \in Jobs /\ at[Head(queued)] = "idle"
      BY <2>1 DEF QueuedIsWaiting
    <2> QED
      BY <1>0, <1>1, <2>2, PoolAssumption DEF TakeJob, Awake, begin, Aside
  <1>2. CASE WaitReady(w)
    BY <1>2 DEF WaitReady, Aside
  <1>3. CASE EndJob(w)
    BY <1>0, <1>3 DEF EndJob, Aside
  <1> QED
    BY <1>1, <1>2, <1>3

LEMMA DispatchAside ==
    ASSUME JobInv, StartedOK, NEW b \in Bodies, NEW j \in Jobs, NEW o \in Objects,
           Dispatch(b, j, o) \/ DispatchRefused(b, j, o)
    PROVE  Aside
  BY StartAside DEF JobInv, Dispatch, DispatchRefused, Aside, bodyVars, activeVars, callVars

LEMMA JoinAside ==
    ASSUME JobInv, NEW b \in Bodies
    PROVE  /\ \A j \in Jobs : JoinNull(b, j) \/ Join(b, j) => Aside
           /\ JoinDone(b) \/ JoinTake(b) \/ JoinWait(b) \/ HelpEnd(b) => Aside
  <1> USE ChunkFacts, JobFacts
      DEF JobInv, threadVars, bodyVars, activeVars, callVars
  <1>1. ASSUME NEW j \in Jobs, JoinNull(b, j) PROVE Aside
    BY <1>1 DEF JoinNull, Aside
  <1>2. ASSUME NEW j \in Jobs, Join(b, j) PROVE Aside
    BY <1>2 DEF Join, CallsRuntime, Aside
  <1>3. ASSUME JoinDone(b) PROVE Aside
    BY <1>3 DEF JoinDone, AtJoin, EndJoin, Aside
  <1>4. ASSUME JoinTake(b) PROVE Aside
    <2>1. arg[b] \in Jobs /\ at[arg[b]] = "idle" /\ at[b] = "join"
      BY <1>4 DEF JoinTake, AtJoin, QueuedIsWaiting
    <2>2. /\ at' = [at EXCEPT ![b] = "help", ![arg[b]] = "run"]
          /\ runs' = [runs EXCEPT ![arg[b]] = @ + 1]
          /\ UNCHANGED <<threadVars, arg, activeVars, callVars>>
      BY <1>4 DEF JoinTake, begin
    <2> QED
      BY <2>1, <2>2 DEF Aside
  <1>5. ASSUME JoinWait(b) PROVE Aside
    BY <1>5 DEF JoinWait, Aside
  <1>6. ASSUME HelpEnd(b) PROVE Aside
    BY <1>6 DEF HelpEnd, EndJoin, Aside
  <1> QED
    BY <1>1, <1>2, <1>3, <1>4, <1>5, <1>6

LEMMA WaitAside ==
    ASSUME TypeInv
    PROVE  /\ \A b \in Bodies : SplitWait(b) \/ SpuriousDone(b) => Aside
           /\ \A w \in Workers : SpuriousReady(w) => Aside
           /\ UNCHANGED vars => Aside
  <1> USE DEF threadVars, bodyVars, activeVars, callVars
  <1>1. ASSUME NEW b \in Bodies, SplitWait(b) \/ SpuriousDone(b) PROVE Aside
    BY <1>1 DEF SplitWait, SpuriousDone, Aside
  <1>2. ASSUME NEW w \in Workers, SpuriousReady(w) PROVE Aside
    BY <1>2 DEF SpuriousReady, Aside
  <1>3. ASSUME UNCHANGED vars PROVE Aside
    BY <1>3 DEF vars, Aside
  <1> QED
    BY <1>1, <1>2, <1>3

-----------------------------------------------------------------------------
(* Steps that concern a chunk, one lemma each.                             *)

\* worker_main takes the next chunk of the active call.
LEMMA TakeChunkStep ==
    ASSUME ChunkInv, JobInv', NEW w \in Workers, TakeChunk(w)
    PROVE  ChunkInv'
  <1> DEFINE x == <<active, taken>>
  <1> USE ChunkFacts DEF ChunkInv, JobInv
  <1>1. /\ active \in Calls /\ taken < chunks[active] /\ worker[w] = Loop
        /\ worker' = [worker EXCEPT ![w] = x] /\ taken' = taken + 1
        /\ at' = [at EXCEPT ![x] = "run"]
        /\ runs' = [runs EXCEPT ![x] = @ + 1]
        /\ UNCHANGED <<started, arg, active, finished, callVars>>
    BY DEF TakeChunk, Awake, ChunkLeft, begin
  <1>2. x \in Chunks /\ x[1] = active /\ x[2] = taken
    BY <1>1
  <1>3. at[x] = "idle" /\ runs[x] = 0
    BY <1>2 DEF ProgressOK, Progress
  <1> HIDE DEF x
  <1> USE DEF callVars
  <1>4. StartedOK'
    BY <1>1, PoolAssumption DEF StartedOK
  <1>5. CallOK'
    BY <1>1, <1>2, <1>3 DEF CallOK
  <1>6. HolderOK'
    BY <1>1, <1>2, <1>3 DEF HolderOK
  <1>7. HeldOK'
    BY <1>1, <1>2, <1>3 DEF HeldOK, Held, Running
  <1>8. CountOK'
    <2>1. WorkingOn' = WorkingOn \cup {w} /\ w \notin WorkingOn
      BY <1>1, <1>2 DEF WorkingOn
    <2>2. Cardinality(WorkingOn') = Cardinality(WorkingOn) + 1
      BY <2>1, WorkingFinite, FS_AddElement
    <2>3. CallerWorks' = CallerWorks /\ CallerWorks \in Nat
      BY <1>1, <1>2, <1>3 DEF CallerWorks, CallOK
    <2> QED
      BY <1>1, <2>2, <2>3, WorkingFinite DEF CountOK
  <1>9. ProgressOK'
    <2> SUFFICES ASSUME NEW y \in Chunks PROVE Progress(y)'
      BY DEF ProgressOK
    <2>1. Progress(y)
      BY DEF ProgressOK
    <2>2. CASE y = x
      BY <1>1, <1>2, <1>3, <2>2 DEF Progress
    <2>3. CASE y # x
      <3>1. y[1] = active => y[2] # taken
        BY <2>3 DEF x
      <3>2. at'[y] = at[y] /\ runs'[y] = runs[y]
        BY <1>1, <2>3
      <3>3. y[1] = active => (y[2] < taken <=> y[2] < taken')
        <4>1. y[2] \in Nat /\ taken \in Nat /\ taken' = taken + 1
          BY <1>1
        <4> QED
          BY ONLY <3>1, <4>1
      <3>4. UNCHANGED <<active, call, chunks, caller, arg>>
        BY <1>1
      <3> QED
        BY ONLY <2>1, <3>2, <3>3, <3>4 DEF Progress
    <2> QED
      BY <2>2, <2>3
  <1> QED
    BY <1>4, <1>5, <1>6, <1>7, <1>8, <1>9

\* worker_main counts a chunk that has returned.
LEMMA EndChunkStep ==
    ASSUME ChunkInv, JobInv', NEW w \in Workers, EndChunk(w)
    PROVE  ChunkInv'
  <1> USE ChunkFacts DEF ChunkInv, JobInv
  <1>1. /\ worker[w] \in Chunks /\ at[worker[w]] = "end"
        /\ worker' = [worker EXCEPT ![w] = Loop] /\ finished' = finished + 1
        /\ UNCHANGED <<started, bodyVars, active, taken, callVars>>
    BY DEF EndChunk
  <1> USE DEF callVars, bodyVars
  <1>2. StartedOK'
    BY <1>1 DEF StartedOK
  <1>3. CallOK' /\ ProgressOK'
    BY <1>1 DEF CallOK, ProgressOK, Progress
  <1>4. HolderOK'
    BY <1>1 DEF HolderOK
  <1>5. HeldOK'
    BY <1>1 DEF HeldOK, Held, Running
  <1>6. CountOK'
    <2>1. WorkingOn' = WorkingOn \ {w} /\ w \in WorkingOn
      BY <1>1 DEF WorkingOn
    <2>2. Cardinality(WorkingOn') = Cardinality(WorkingOn) - 1
      BY <2>1, WorkingFinite, FS_RemoveElement
    <2>3. CallerWorks' = CallerWorks /\ CallerWorks \in Nat
      BY <1>1 DEF CallerWorks
    <2> QED
      BY <1>1, <2>2, <2>3, WorkingFinite DEF CountOK
  <1> QED
    BY <1>2, <1>3, <1>4, <1>5, <1>6

\* A worker function, of a job or over a chunk, returns.
LEMMA ChunkReturnStep ==
    ASSUME ChunkInv, JobInv', NEW b \in Bodies, Return(b)
    PROVE  ChunkInv'
  <1> USE ChunkFacts DEF ChunkInv, JobInv
  <1>1. /\ at[b] = "run" /\ at' = [at EXCEPT ![b] = "end"]
        /\ UNCHANGED <<threadVars, arg, runs, activeVars, callVars>>
    BY DEF Return
  <1> USE DEF callVars, threadVars, activeVars
  <1>2. StartedOK'
    BY <1>1 DEF StartedOK
  <1>3. CallOK'
    BY <1>1 DEF CallOK
  <1>4. HolderOK'
    BY <1>1 DEF HolderOK
  <1>5. HeldOK'
    BY <1>1 DEF HeldOK, Held, Running
  <1>6. CountOK'
    BY <1>1 DEF CountOK, CallerWorks, CallOK, WorkingOn
  <1>7. ProgressOK'
    BY <1>1 DEF ProgressOK, Progress
  <1> QED
    BY <1>2, <1>3, <1>4, <1>5, <1>6, <1>7

\* A `parallel` over no elements.
LEMMA EmptyStep ==
    ASSUME ChunkInv, JobInv', NEW b \in Bodies, NEW c \in Calls, NEW by \in ByValues,
           ParallelEmpty(b, c, by)
    PROVE  ChunkInv'
  <1> USE ChunkFacts DEF ChunkInv, JobInv
  <1>1. /\ call[c] = "none" /\ call' = [call EXCEPT ![c] = "closed"]
        /\ caller' = [caller EXCEPT ![c] = b]
        /\ chunks' = [chunks EXCEPT ![c] = chunk_count(0, by)]
        /\ UNCHANGED <<threadVars, bodyVars, activeVars>>
    BY DEF ParallelEmpty, Opens
  <1>2. chunk_count(0, by) = 0
    <2>1. chunk_count(0, by) \in 0 .. 0
      BY ONLY ChunkCountBounds, by \in ByValues
    <2> QED
      BY <2>1
  <1> USE DEF bodyVars, threadVars, activeVars
  <1>3. StartedOK'
    BY <1>1 DEF StartedOK
  <1>4. CallOK'
    BY <1>1 DEF CallOK
  <1>5. HolderOK'
    BY <1>1 DEF HolderOK
  <1>6. HeldOK'
    BY <1>1 DEF HeldOK, Held, Running
  <1>7. CountOK'
    BY <1>1 DEF CountOK, CallerWorks, CallOK, WorkingOn
  <1>8. ProgressOK'
    BY <1>1, <1>2 DEF ProgressOK, Progress
  <1> QED
    BY <1>3, <1>4, <1>5, <1>6, <1>7, <1>8

\* A chunk that is started is none of those that run, and not its starter.
LEMMA EnterFacts ==
    ASSUME TypeInv, NEW b \in Bodies, NEW phase \in {"own", "inline"},
           NEW x \in Chunks, Enter(b, phase, x), at[x] = "idle", at[b] # "idle"
    PROVE  /\ at'[b] = phase /\ at'[x] = "run" /\ arg'[b] = x
           /\ runs'[x] = runs[x] + 1
           /\ \A d \in Bodies \ {b, x} : at'[d] = at[d]
           /\ \A d \in Bodies \ {b} : arg'[d] = arg[d]
           /\ \A d \in Bodies \ {x} : runs'[d] = runs[d]
           /\ \A d \in Bodies : at'[d] \in {"own", "inline", "split"} =>
                 d = b \/ (at'[d] = at[d] /\ d # x)
  BY ChunkFacts DEF Enter, begin

\* Starting a chunk leaves nobody else's chunk without a thread.
LEMMA EnterHeld ==
    ASSUME ChunkInv, NEW b \in Bodies, NEW phase \in {"own", "inline"},
           NEW x \in Chunks, Enter(b, phase, x), at[x] = "idle",
           at[b] \notin {"idle", "end"},
           at[b] \in {"own", "inline"} => at[arg[b]] = "end",
           \A w \in Workers : worker'[w] # worker[w] => worker[w] \notin Chunks
    PROVE  HeldOK'
  <1> USE ChunkFacts DEF ChunkInv, JobInv
  <1>1. /\ at'[b] = phase /\ at'[x] = "run" /\ arg'[b] = x
        /\ \A d \in Bodies \ {b, x} : at'[d] = at[d]
        /\ \A d \in Bodies \ {b} : arg'[d] = arg[d]
    BY EnterFacts
  <1> SUFFICES ASSUME NEW y \in Chunks, at'[y] \notin {"idle", "end"}
               PROVE  Held(y)'
    BY DEF HeldOK, Running
  <1>2. CASE y = x
    BY <1>1, <1>2 DEF Held
  <1>3. CASE y # x
    <2>1. at[y] \notin {"idle", "end"}
      <3>1. y \in Bodies /\ at[b] \notin {"idle", "end"}
        OBVIOUS
      <3> QED
        BY ONLY at'[y] \notin {"idle", "end"}, <1>1, <1>3, <3>1
    <2>2. Held(y)
      BY <2>1 DEF HeldOK, Running
    <2>3. CASE \E w \in Workers : worker[w] = y
      BY <2>3 DEF Held
    <2>4. ASSUME NEW d \in Bodies, at[d] \in {"own", "inline"}, arg[d] = y
          PROVE  Held(y)'
      <3>1. d # b /\ d # x
        BY <2>1, <2>4
      <3> QED
        BY <1>1, <2>4, <3>1 DEF Held
    <2> QED
      BY <2>2, <2>3, <2>4 DEF Held
  <1> QED
    BY <1>2, <1>3

\* A `parallel` that gets the pool.
LEMMA PooledStep ==
    ASSUME ChunkInv, JobInv', NEW b \in Bodies, NEW c \in Calls, NEW by \in ByValues,
           NEW n \in 1 .. MaxCount, ParallelPooled(b, c, n, by)
    PROVE  ChunkInv'
  <1> DEFINE x == <<c, 0>>
  <1> USE ChunkFacts DEF ChunkInv, JobInv
  <1>1. /\ at[b] = "run" /\ call[c] = "none" /\ active = None
        /\ call' = [call EXCEPT ![c] = "open"]
        /\ caller' = [caller EXCEPT ![c] = b]
        /\ chunks' = [chunks EXCEPT ![c] = chunk_count(n, by)]
        /\ active' = c /\ taken' = 1 /\ finished' = 0
        /\ start /\ Enter(b, "own", x)
    BY DEF ParallelPooled, Opens, CallsRuntime
  <1>2. x \in Chunks /\ x[1] = c /\ x[2] = 0
    OBVIOUS
  <1>3. at[x] = "idle" /\ runs[x] = 0
    BY <1>1, <1>2 DEF ProgressOK, Progress
  <1>4. /\ started' = TRUE
        /\ \A w \in Workers : worker[w] \notin Chunks /\ worker'[w] \notin Chunks
    BY <1>1, StartAside DEF HolderOK
  <1>5. /\ at'[b] = "own" /\ at'[x] = "run" /\ arg'[b] = x
        /\ runs'[x] = 1
        /\ \A d \in Bodies \ {b, x} : at'[d] = at[d]
        /\ \A d \in Bodies \ {b} : arg'[d] = arg[d]
        /\ \A d \in Bodies \ {x} : runs'[d] = runs[d]
        /\ \A d \in Bodies : at'[d] \in {"own", "inline", "split"} =>
                 d = b \/ (at'[d] = at[d] /\ d # x)
    BY <1>1, <1>2, <1>3, EnterFacts
  <1> HIDE DEF x
  <1>6. StartedOK'
    BY <1>4 DEF StartedOK
  <1>7. CallOK'
    BY <1>1, <1>2, <1>3, <1>5 DEF CallOK
  <1>8. HolderOK'
    BY <1>1, <1>2, <1>4, <1>5 DEF HolderOK
  <1>9. HeldOK'
    BY <1>1, <1>2, <1>4, <1>5 DEF HeldOK, Held, Running
  <1>10. CountOK'
    <2>1. WorkingOn' = {}
      BY <1>4 DEF WorkingOn
    <2>2. Cardinality(WorkingOn') = 0
      BY <2>1, FS_EmptySet
    <2> QED
      BY <1>1, <1>5, <2>2 DEF CountOK, CallerWorks
  <1>11. ProgressOK'
    <2> SUFFICES ASSUME NEW y \in Chunks PROVE Progress(y)'
      BY DEF ProgressOK
    <2>1. Progress(y)
      BY DEF ProgressOK
    <2>2. CASE y = x
      BY <1>1, <1>2, <1>5, <2>2 DEF Progress
    <2>3. CASE y # x /\ y[1] = c
      <3>1. y[2] # 0
        BY <2>3 DEF x
      <3>2. at[y] = "idle" /\ runs[y] = 0 /\ y # b
        BY <1>1, <2>1, <2>3 DEF Progress
      <3> QED
        BY <1>1, <1>5, <2>3, <3>1, <3>2 DEF Progress
    <2>4. CASE y # x /\ y[1] # c
      <3>1. /\ runs'[y] = runs[y]
            /\ at'[y] = at[y] \/ (at[y] = "run" /\ at'[y] = "own")
        <4>1. y \in Bodies /\ at[b] = "run"
          BY <1>1
        <4>2. CASE y = b
          BY ONLY <1>5, <2>4, <4>1, <4>2
        <4>3. CASE y # b
          BY ONLY <1>5, <2>4, <4>1, <4>3
        <4> QED
          BY <4>2, <4>3
      <3>2. /\ call'[y[1]] = call[y[1]] /\ caller'[y[1]] = caller[y[1]]
            /\ chunks'[y[1]] = chunks[y[1]]
        BY <1>1, <2>4
      <3>3. call[y[1]] = "open" => arg'[caller[y[1]]] = arg[caller[y[1]]]
        BY <1>1, <1>5 DEF CallOK
      <3> QED
        BY <1>1, <2>1, <2>4, <3>1, <3>2, <3>3 DEF Progress
    <2> QED
      BY <2>2, <2>3, <2>4
  <1> QED
    BY <1>6, <1>7, <1>8, <1>9, <1>10, <1>11

\* A `parallel` that meets a busy pool.
LEMMA InlineStep ==
    ASSUME ChunkInv, JobInv', NEW b \in Bodies, NEW c \in Calls, NEW by \in ByValues,
           NEW n \in 1 .. MaxCount, ParallelInline(b, c, n, by)
    PROVE  ChunkInv'
  <1> DEFINE x == <<c, 0>>
  <1> USE ChunkFacts DEF ChunkInv, JobInv
  <1>1. /\ at[b] = "run" /\ call[c] = "none" /\ active # None /\ c # active
        /\ call' = [call EXCEPT ![c] = "open"]
        /\ caller' = [caller EXCEPT ![c] = b]
        /\ chunks' = [chunks EXCEPT ![c] = chunk_count(n, by)]
        /\ chunk_count(n, by) > 0
        /\ UNCHANGED activeVars
        /\ start /\ Enter(b, "inline", x)
    BY DEF ParallelInline, Opens, CallsRuntime
  <1> USE DEF activeVars
  <1>2. x \in Chunks /\ x[1] = c /\ x[2] = 0
    OBVIOUS
  <1>3. at[x] = "idle" /\ runs[x] = 0
    BY <1>1, <1>2 DEF ProgressOK, Progress
  <1>4. /\ started' = TRUE
        /\ \A w \in Workers : worker'[w] # worker[w] =>
                 worker[w] \notin Chunks /\ worker'[w] \notin Chunks
    BY <1>1, StartAside
  <1>5. /\ at'[b] = "inline" /\ at'[x] = "run" /\ arg'[b] = x
        /\ runs'[x] = 1
        /\ \A d \in Bodies \ {b, x} : at'[d] = at[d]
        /\ \A d \in Bodies \ {b} : arg'[d] = arg[d]
        /\ \A d \in Bodies \ {x} : runs'[d] = runs[d]
        /\ \A d \in Bodies : at'[d] \in {"own", "inline", "split"} =>
                 d = b \/ (at'[d] = at[d] /\ d # x)
    BY <1>1, <1>2, <1>3, EnterFacts
  <1> HIDE DEF x
  <1>6. StartedOK'
    BY <1>4 DEF StartedOK
  <1>7. CallOK'
    BY <1>1, <1>2, <1>3, <1>5 DEF CallOK
  <1>8. HolderOK'
    BY <1>1, <1>2, <1>4, <1>5 DEF HolderOK
  <1>9. HeldOK'
    BY <1>1, <1>2, <1>3, <1>4, EnterHeld
  <1>10. CountOK'
    <2>1. WorkingOn' = WorkingOn
      BY <1>4 DEF WorkingOn
    <2>2. CallerWorks' = CallerWorks
      BY <1>1, <1>3, <1>5 DEF CallOK, CallerWorks
    <2> QED
      BY <1>1, <2>1, <2>2 DEF CountOK
  <1>11. ProgressOK'
    <2> SUFFICES ASSUME NEW y \in Chunks PROVE Progress(y)'
      BY DEF ProgressOK
    <2>1. Progress(y)
      BY DEF ProgressOK
    <2>2. CASE y = x
      BY <1>1, <1>2, <1>5, <2>2 DEF Progress
    <2>3. CASE y # x /\ y[1] = c
      <3>1. y[2] # 0
        BY <2>3 DEF x
      <3>2. at[y] = "idle" /\ runs[y] = 0 /\ y # b
        BY <1>1, <2>1, <2>3 DEF Progress
      <3> QED
        BY <1>1, <1>2, <1>5, <2>3, <3>1, <3>2 DEF Progress
    <2>4. CASE y # x /\ y[1] # c
      <3>1. /\ runs'[y] = runs[y]
            /\ at'[y] = at[y] \/ (at[y] = "run" /\ at'[y] = "inline")
        <4>1. y \in Bodies /\ at[b] = "run"
          BY <1>1
        <4>2. CASE y = b
          BY ONLY <1>5, <2>4, <4>1, <4>2
        <4>3. CASE y # b
          BY ONLY <1>5, <2>4, <4>1, <4>3
        <4> QED
          BY <4>2, <4>3
      <3>2. /\ call'[y[1]] = call[y[1]] /\ caller'[y[1]] = caller[y[1]]
            /\ chunks'[y[1]] = chunks[y[1]]
        BY <1>1, <2>4
      <3>3. call[y[1]] = "open" /\ y[1] # active =>
               arg'[caller[y[1]]] = arg[caller[y[1]]]
        BY <1>1, <1>5 DEF CallOK
      <3> QED
        BY <1>1, <2>1, <2>4, <3>1, <3>2, <3>3 DEF Progress
    <2> QED
      BY <2>2, <2>3, <2>4
  <1> QED
    BY <1>6, <1>7, <1>8, <1>9, <1>10, <1>11

\* The caller counts its chunk and takes the next one.
LEMMA OwnNextStep ==
    ASSUME ChunkInv, JobInv', NEW b \in Bodies, OwnNext(b)
    PROVE  ChunkInv'
  <1> DEFINE x == <<active, taken>>
  <1> USE ChunkFacts DEF ChunkInv, JobInv
  <1>1. /\ at[b] = "own" /\ at[arg[b]] = "end" /\ taken < chunks[active]
        /\ finished' = finished + 1 /\ taken' = taken + 1
        /\ Enter(b, "own", x)
        /\ UNCHANGED <<threadVars, active, callVars>>
    BY DEF OwnNext, OwnChunkDone
  <1>2. active \in Calls /\ caller[active] = b /\ call[active] = "open"
    BY <1>1
  <1>3. x \in Chunks /\ x[1] = active /\ x[2] = taken
    BY <1>1, <1>2
  <1>4. at[x] = "idle" /\ runs[x] = 0
    BY <1>3 DEF ProgressOK, Progress
  <1> HIDE DEF x
  <1> USE DEF callVars, threadVars
  <1>5. /\ at'[b] = "own" /\ at'[x] = "run" /\ arg'[b] = x
        /\ runs'[x] = 1
        /\ \A d \in Bodies \ {b, x} : at'[d] = at[d]
        /\ \A d \in Bodies \ {b} : arg'[d] = arg[d]
        /\ \A d \in Bodies \ {x} : runs'[d] = runs[d]
        /\ \A d \in Bodies : at'[d] \in {"own", "inline", "split"} =>
                 d = b \/ (at'[d] = at[d] /\ d # x)
    BY <1>1, <1>3, <1>4, EnterFacts
  <1>6. StartedOK'
    BY <1>1 DEF StartedOK
  <1>7. CallOK'
    BY <1>1, <1>2, <1>4, <1>5 DEF CallOK
  <1>8. HolderOK'
    BY <1>1, <1>2, <1>3, <1>5 DEF HolderOK
  <1>9. HeldOK'
    BY <1>1, <1>3, <1>4, EnterHeld
  <1>10. CountOK'
    <2>1. WorkingOn' = WorkingOn
      BY <1>1 DEF WorkingOn
    <2>2. CallerWorks = 1 /\ CallerWorks' = 1
      BY <1>1, <1>2, <1>5 DEF CallerWorks
    <2> QED
      BY <1>1, <2>1, <2>2, WorkingFinite DEF CountOK
  <1>11. ProgressOK'
    <2> SUFFICES ASSUME NEW y \in Chunks PROVE Progress(y)'
      BY DEF ProgressOK
    <2>1. Progress(y)
      BY DEF ProgressOK
    <2>2. CASE y = x
      BY <1>1, <1>2, <1>3, <1>5, <2>2 DEF Progress
    <2>3. CASE y # x
      <3>1. at'[y] = at[y] /\ runs'[y] = runs[y]
        <4>1. y \in Bodies /\ at[b] = "own"
          BY <1>1
        <4> QED
          BY ONLY <1>5, <2>3, <4>1
      <3>2. y[1] = active => (y[2] < taken <=> y[2] < taken')
        <4>1. /\ y[2] \in Nat /\ taken \in Nat /\ taken' = taken + 1
              /\ y[1] = active => y[2] # taken
          BY <1>1, <2>3 DEF x
        <4> QED
          BY ONLY <4>1
      <3>3. UNCHANGED <<active, call, chunks, caller>>
        BY <1>1
      <3>4. call[y[1]] = "open" /\ y[1] # active =>
               arg'[caller[y[1]]] = arg[caller[y[1]]]
        BY <1>1, <1>5 DEF CallOK
      <3> QED
        BY ONLY <2>1, <3>1, <3>2, <3>3, <3>4 DEF Progress
    <2> QED
      BY <2>2, <2>3
  <1> QED
    BY <1>6, <1>7, <1>8, <1>9, <1>10, <1>11

\* The caller counts its last chunk and waits for the pool.
LEMMA OwnWaitStep ==
    ASSUME ChunkInv, JobInv', NEW b \in Bodies, OwnWait(b)
    PROVE  ChunkInv'
  <1> USE ChunkFacts DEF ChunkInv, JobInv
  <1>1. /\ at[b] = "own" /\ at[arg[b]] = "end"
        /\ finished' = finished + 1 /\ at' = [at EXCEPT ![b] = "split"]
        /\ UNCHANGED <<threadVars, arg, runs, active, taken, callVars>>
    BY DEF OwnWait, OwnChunkDone
  <1>2. active \in Calls /\ caller[active] = b
    BY <1>1
  <1> USE DEF callVars, threadVars
  <1>3. StartedOK'
    BY <1>1 DEF StartedOK
  <1>4. CallOK'
    BY <1>1, <1>2 DEF CallOK
  <1>5. HolderOK'
    BY <1>1 DEF HolderOK
  <1>6. HeldOK'
    BY <1>1 DEF HeldOK, Held, Running
  <1>7. CountOK'
    <2>1. WorkingOn' = WorkingOn
      BY <1>1 DEF WorkingOn
    <2>2. CallerWorks = 1 /\ CallerWorks' = 0
      BY <1>1, <1>2 DEF CallerWorks
    <2> QED
      BY <1>1, <2>1, <2>2, WorkingFinite DEF CountOK
  <1>8. ProgressOK'
    BY <1>1 DEF ProgressOK, Progress
  <1> QED
    BY <1>3, <1>4, <1>5, <1>6, <1>7, <1>8

\* When nobody has still to count, every chunk of the active call has ended.
LEMMA AllEnded ==
    ASSUME ChunkInv, active # None, WorkingOn = {}, taken = chunks[active],
           at[caller[active]] = "own" => at[arg[caller[active]]] = "end",
           NEW x \in Chunks, x[1] = active
    PROVE  at[x] = IF x[2] < chunks[active] THEN "end" ELSE "idle"
  <1> USE ChunkFacts DEF ChunkInv, JobInv
  <1>1. at[x] # "idle" <=> x[2] < chunks[active]
    BY DEF ProgressOK, Progress
  <1>2. ASSUME at[x] \notin {"idle", "end"} PROVE FALSE
    <2>1. Held(x)
      BY <1>2 DEF HeldOK, Running
    <2>2. ~ \E w \in Workers : worker[w] = x
      BY DEF WorkingOn
    <2>3. PICK d \in Bodies : at[d] \in {"own", "inline"} /\ arg[d] = x
      BY <2>1, <2>2 DEF Held
    <2> QED
      BY <1>2, <2>3
  <1> QED
    BY <1>1, <1>2

\* The caller of the active call returns.
LEMMA CloseStep ==
    ASSUME ChunkInv, JobInv', NEW b \in Bodies, at[b] \in {"own", "split"},
           at[b] = "own" => at[arg[b]] = "end",
           WorkingOn = {}, taken = chunks[active], EndCall(b),
           UNCHANGED <<threadVars, arg, runs, caller, chunks>>
    PROVE  ChunkInv'
  <1> USE ChunkFacts DEF ChunkInv, JobInv
  <1>1. active \in Calls /\ caller[active] = b /\ active # None
    OBVIOUS
  <1>2. /\ active' = None /\ call' = [call EXCEPT ![active] = "closed"]
        /\ at' = [at EXCEPT ![b] = "run"]
    BY DEF EndCall
  <1>3. \A x \in Chunks : x[1] = active =>
           at[x] = IF x[2] < chunks[active] THEN "end" ELSE "idle"
    BY <1>1, AllEnded
  <1> USE DEF threadVars
  <1>4. StartedOK'
    BY DEF StartedOK
  <1>5. CallOK'
    BY <1>1, <1>2 DEF CallOK
  <1>6. \A w \in Workers : worker'[w] \notin Chunks
    BY DEF WorkingOn
  <1>7. HolderOK'
    <2>1. \A d \in Bodies : at'[d] # "own"
      BY <1>1, <1>2
    <2> QED
      BY <1>2, <1>6, <2>1 DEF HolderOK
  <1>8. HeldOK'
    BY <1>2, <1>6 DEF HeldOK, Held, Running
  <1>9. CountOK'
    BY <1>2 DEF CountOK
  <1>10. ProgressOK'
    <2> SUFFICES ASSUME NEW y \in Chunks PROVE Progress(y)'
      BY DEF ProgressOK
    <2>1. Progress(y)
      BY DEF ProgressOK
    <2>2. CASE y[1] = active
      <3>1. at'[y] = at[y]
        BY <1>2, <1>3, <2>2
      <3> QED
        BY <1>1, <1>2, <1>3, <2>1, <2>2, <3>1 DEF Progress
    <2>3. CASE y[1] # active
      BY <1>2, <2>1, <2>3 DEF Progress
    <2> QED
      BY <2>2, <2>3
  <1> QED
    BY <1>4, <1>5, <1>7, <1>8, <1>9, <1>10

\* The caller counts the last chunk itself, or finds it counted when it wakes.
LEMMA CloseSteps ==
    ASSUME ChunkInv, JobInv', NEW b \in Bodies, OwnClose(b) \/ SplitClose(b)
    PROVE  ChunkInv'
  <1> USE ChunkFacts DEF ChunkInv, JobInv
  <1>1. EndCall(b) /\ UNCHANGED <<threadVars, arg, runs, caller, chunks>>
    BY DEF OwnClose, SplitClose
  <1>2. CASE OwnClose(b)
    <2>1. /\ at[b] = "own" /\ at[arg[b]] = "end" /\ taken >= chunks[active]
          /\ finished + 1 >= chunks[active]
      BY <1>2 DEF OwnClose, OwnChunkDone
    <2>2. CallerWorks = 1 /\ active \in Calls /\ active # None
      BY <2>1 DEF CallerWorks
    <2>3. taken = chunks[active] /\ Cardinality(WorkingOn) = 0
      <3>1. /\ taken \in Nat /\ finished \in Nat /\ chunks[active] \in Nat
            /\ taken <= chunks[active]
            /\ taken = finished + Cardinality(WorkingOn) + 1
        BY <2>2 DEF CountOK
      <3> QED
        BY ONLY <2>1, <3>1, WorkingFinite
    <2>4. WorkingOn = {}
      BY <2>3, WorkingFinite, FS_EmptySet
    <2> QED
      BY <1>1, <2>1, <2>3, <2>4, CloseStep
  <1>3. CASE SplitClose(b)
    <2>1. at[b] = "split" /\ finished >= chunks[active]
      BY <1>3 DEF SplitClose, AtSplit
    <2>2. CallerWorks = 0 /\ active \in Calls /\ active # None
      BY <2>1 DEF CallerWorks
    <2>3. taken = chunks[active] /\ Cardinality(WorkingOn) = 0
      <3>1. /\ taken \in Nat /\ finished \in Nat /\ chunks[active] \in Nat
            /\ taken <= chunks[active]
            /\ taken = finished + Cardinality(WorkingOn) + 0
        BY <2>2 DEF CountOK
      <3> QED
        BY ONLY <2>1, <3>1, WorkingFinite
    <2>4. WorkingOn = {}
      BY <2>3, WorkingFinite, FS_EmptySet
    <2> QED
      BY <1>1, <2>1, <2>3, <2>4, CloseStep
  <1> QED
    BY <1>2, <1>3

\* The caller of a call outside the pool takes its next chunk.
LEMMA InlineNextStep ==
    ASSUME ChunkInv, JobInv', NEW b \in Bodies, InlineNext(b)
    PROVE  ChunkInv'
  <1> DEFINE c == arg[b][1]
             i == arg[b][2]
             x == <<c, i + 1>>
  <1> USE ChunkFacts DEF ChunkInv, JobInv
  <1>1. /\ at[b] = "inline" /\ at[arg[b]] = "end" /\ i + 1 < chunks[c]
        /\ Enter(b, "inline", x)
        /\ UNCHANGED <<threadVars, activeVars, callVars>>
    BY DEF InlineNext, InlineChunkDone
  <1>2. /\ arg[b] \in Chunks /\ arg[b] = <<c, i>>
        /\ c \in Calls /\ i \in Nat /\ c # active /\ call[c] = "open"
        /\ caller[c] = b
    BY <1>1
  <1>3. x \in Chunks /\ x[1] = c /\ x[2] = i + 1
    BY <1>1, <1>2
  <1>4. at[x] = "idle" /\ runs[x] = 0
    <2>1. Progress(x)
      BY <1>3 DEF ProgressOK
    <2> QED
      BY ONLY <1>2, <1>3, <2>1 DEF Progress
  <1> HIDE DEF x, c, i
  <1> USE DEF callVars, threadVars, activeVars
  <1>5. /\ at'[b] = "inline" /\ at'[x] = "run" /\ arg'[b] = x
        /\ runs'[x] = 1
        /\ \A d \in Bodies \ {b, x} : at'[d] = at[d]
        /\ \A d \in Bodies \ {b} : arg'[d] = arg[d]
        /\ \A d \in Bodies \ {x} : runs'[d] = runs[d]
        /\ \A d \in Bodies : at'[d] \in {"own", "inline", "split"} =>
                 d = b \/ (at'[d] = at[d] /\ d # x)
    BY <1>1, <1>3, <1>4, EnterFacts
  <1>6. StartedOK'
    BY <1>1 DEF StartedOK
  <1>7. CallOK'
    BY <1>1, <1>2, <1>3, <1>4, <1>5 DEF CallOK, c
  <1>8. HolderOK'
    BY <1>1, <1>2, <1>3, <1>5 DEF HolderOK
  <1>9. HeldOK'
    BY <1>1, <1>3, <1>4, EnterHeld
  <1>10. CountOK'
    <2>1. WorkingOn' = WorkingOn
      BY <1>1 DEF WorkingOn
    <2>2. active # None => CallerWorks' = CallerWorks
      BY <1>1, <1>4, <1>5 DEF CallOK, CallerWorks
    <2> QED
      BY <1>1, <2>1, <2>2 DEF CountOK
  <1>11. ProgressOK'
    <2> SUFFICES ASSUME NEW y \in Chunks PROVE Progress(y)'
      BY DEF ProgressOK
    <2>1. Progress(y)
      BY DEF ProgressOK
    <2>2. CASE y = x
      BY <1>1, <1>2, <1>3, <1>5, <2>2 DEF Progress
    <2>3. CASE y # x
      <3>1. at'[y] = at[y] /\ runs'[y] = runs[y]
        <4>1. y \in Bodies /\ at[b] = "inline"
          BY <1>1
        <4> QED
          BY ONLY <1>5, <2>3, <4>1
      <3>2. UNCHANGED <<active, taken, call, chunks, caller>>
        BY <1>1
      <3>3. CASE y[1] = c
        <4>1. y[2] \in Nat /\ y[2] # i + 1 /\ (y[2] = i => at[y] = "end")
          BY <1>1, <1>2, <2>3, <3>3 DEF x
        <4> QED
          BY ONLY <1>2, <1>3, <1>5, <2>1, <3>1, <3>2, <3>3, <4>1 DEF Progress
      <3>4. CASE y[1] # c
        <4>1. call[y[1]] = "open" /\ y[1] # active =>
                 arg'[caller[y[1]]] = arg[caller[y[1]]]
          BY <1>1, <1>5, <3>4 DEF CallOK, c
        <4> QED
          BY ONLY <2>1, <3>1, <3>2, <4>1 DEF Progress
      <3> QED
        BY <3>3, <3>4
    <2> QED
      BY <2>2, <2>3
  <1> QED
    BY <1>6, <1>7, <1>8, <1>9, <1>10, <1>11

\* The caller of a call outside the pool returns.
LEMMA InlineCloseStep ==
    ASSUME ChunkInv, JobInv', NEW b \in Bodies, InlineClose(b)
    PROVE  ChunkInv'
  <1> DEFINE c == arg[b][1]
             i == arg[b][2]
  <1> USE ChunkFacts DEF ChunkInv, JobInv
  <1>1. /\ at[b] = "inline" /\ at[arg[b]] = "end" /\ i + 1 >= chunks[c]
        /\ call' = [call EXCEPT ![c] = "closed"]
        /\ at' = [at EXCEPT ![b] = "run"]
        /\ UNCHANGED <<threadVars, arg, runs, activeVars, caller, chunks>>
    BY DEF InlineClose, InlineChunkDone
  <1>2. /\ arg[b] \in Chunks /\ arg[b] = <<c, i>>
        /\ c \in Calls /\ i \in Nat /\ c # active /\ call[c] = "open"
        /\ caller[c] = b
    BY <1>1
  <1>3. chunks[c] = i + 1
    <2>1. i < chunks[c] /\ chunks[c] \in Nat
      BY <1>1, <1>2 DEF HolderOK
    <2> QED
      BY ONLY <1>1, <1>2, <2>1
  <1> HIDE DEF c, i
  <1> USE DEF threadVars, activeVars
  <1>4. StartedOK'
    BY <1>1 DEF StartedOK
  <1>5. CallOK'
    BY <1>1, <1>2 DEF CallOK, c
  <1>6. HolderOK'
    BY <1>1 DEF HolderOK
  <1>7. HeldOK'
    BY <1>1 DEF HeldOK, Held, Running
  <1>8. CountOK'
    <2>1. WorkingOn' = WorkingOn
      BY <1>1 DEF WorkingOn
    <2>2. active # None => CallerWorks' = CallerWorks
      BY <1>1 DEF CallOK, CallerWorks
    <2> QED
      BY <1>1, <2>1, <2>2 DEF CountOK
  <1>9. ProgressOK'
    <2> SUFFICES ASSUME NEW y \in Chunks PROVE Progress(y)'
      BY DEF ProgressOK
    <2>1. Progress(y)
      BY DEF ProgressOK
    <2>2. CASE y[1] = c
      <3>1. at[y] = IF y[2] < chunks[c] THEN "end" ELSE "idle"
        <4>1. y[2] \in Nat /\ (y[2] = i => at[y] = "end")
          BY <1>1, <1>2, <2>2
        <4> QED
          BY ONLY <1>2, <1>3, <2>1, <2>2, <4>1 DEF Progress
      <3>2. at'[y] = at[y]
        BY <1>1, <3>1
      <3> QED
        BY <1>1, <1>2, <2>1, <2>2, <3>1, <3>2 DEF Progress
    <2>3. CASE y[1] # c
      BY <1>1, <2>1, <2>3 DEF Progress
    <2> QED
      BY <2>2, <2>3
  <1> QED
    BY <1>4, <1>5, <1>6, <1>7, <1>8, <1>9

-----------------------------------------------------------------------------
LEMMA ChunkStep == ChunkInv /\ [Next]_vars => ChunkInv'
  <1> SUFFICES ASSUME ChunkInv, [Next]_vars PROVE ChunkInv'
    OBVIOUS
  <1>1. JobInv /\ JobInv' /\ StartedOK /\ TypeInv
    BY JobStep DEF ChunkInv, JobInv
  <1>2. ASSUME NEW w \in Workers, WorkerStep(w) PROVE ChunkInv'
    BY <1>1, <1>2, WorkerAside, AsideStep, TakeChunkStep, EndChunkStep
       DEF WorkerStep
  <1>3. ASSUME NEW b \in Bodies, ProgramStep(b) PROVE ChunkInv'
    BY <1>1, <1>3, ChunkReturnStep, DispatchAside, JoinAside, AsideStep,
       EmptyStep, PooledStep, InlineStep DEF ProgramStep
  <1>4. ASSUME NEW b \in Bodies, RuntimeStep(b) PROVE ChunkInv'
    BY <1>1, <1>4, JoinAside, WaitAside, AsideStep, OwnNextStep, OwnWaitStep,
       CloseSteps, InlineNextStep, InlineCloseStep DEF RuntimeStep
  <1>5. CASE Spurious \/ UNCHANGED vars
    BY <1>1, <1>5, WaitAside, AsideStep DEF Spurious
  <1> QED
    BY <1>2, <1>3, <1>4, <1>5 DEF Next

LEMMA ChunkInvariant == Spec => []ChunkInv
  BY ChunkInit, ChunkStep, PTL DEF Spec

\* A pool thread or a caller that runs a chunk reads the record of the call
\* from the frame of the caller (struct job in anti_rt_parallel): the caller
\* is still inside the call.
THEOREM RecordOutlivesChunks == Spec => []CallOutlivesChunks
  <1>1. ASSUME ChunkInv PROVE CallOutlivesChunks
    <2> USE <1>1, ChunkFacts DEF ChunkInv, JobInv
    <2> SUFFICES ASSUME NEW x \in Chunks, at[x] \notin {"idle", "end"}
                 PROVE  /\ call[x[1]] = "open"
                        /\ at[caller[x[1]]] \in {"own", "split", "inline"}
      BY DEF CallOutlivesChunks, Running
    <2>1. call[x[1]] = "open"
      BY DEF ProgressOK, Progress
    <2> QED
      BY <2>1 DEF CallOK
  <1> QED
    BY <1>1, ChunkInvariant, PTL

\* The counters `taken` and `finished`, shared by the caller and the pool,
\* let no chunk run twice and let `parallel` return only after all of them.
THEOREM ChunksRunOnce == Spec => []EveryChunkOnce
  <1>1. ASSUME ChunkInv PROVE EveryChunkOnce
    <2> USE <1>1, ChunkFacts DEF ChunkInv, JobInv
    <2>1. \A x \in Chunks : runs[x] <= 1
      BY DEF ProgressOK, Progress
    <2>2. ASSUME NEW c \in Calls, call[c] = "closed", NEW i \in 0 .. chunks[c] - 1
          PROVE  runs[<<c, i>>] = 1 /\ at[<<c, i>>] = "end"
      <3>1. i \in Nat /\ i < chunks[c] /\ i < MaxCount
        OBVIOUS
      <3>2. <<c, i>> \in Chunks
        BY <3>1
      <3>3. Progress(<<c, i>>)
        BY <3>2 DEF ProgressOK
      <3> QED
        BY ONLY <2>2, <3>1, <3>3 DEF Progress
    <2> QED
      BY <2>1, <2>2 DEF EveryChunkOnce
  <1> QED
    BY <1>1, ChunkInvariant, PTL

-----------------------------------------------------------------------------
(* The arithmetic of slice_first and slice_length.                         *)

LEMMA DivMod ==
    ASSUME NEW n \in Nat, NEW p \in Nat, p > 0
    PROVE  \E d \in Nat, m \in Nat :
              d = n \div p /\ m = n % p /\ m < p /\ n = p * d + m
  OBVIOUS

LEMMA ProductMonotone ==
    ASSUME NEW a \in Nat, NEW b \in Nat, NEW q \in Nat, a <= b
    PROVE  a * q <= b * q
  OBVIOUS

LEMMA ProductSuccessor ==
    ASSUME NEW a \in Nat, NEW q \in Nat
    PROVE  (a + 1) * q = a * q + q /\ a * q \in Nat /\ a * (q + 1) = a * q + a
  OBVIOUS

\* The chunks lie side by side: one begins where those before it end, and
\* the last one ends with the array.
LEMMA SlicesInOrder ==
    ASSUME NEW n \in Nat, NEW p \in Nat, p > 0,
           NEW i \in 0 .. p - 1, NEW k \in 0 .. p, i < k
    PROVE  /\ slice_first(n, p, i) \in Nat /\ slice_length(n, p, i) \in Nat
           /\ slice_first(n, p, k) \in Nat
           /\ slice_first(n, p, i) + slice_length(n, p, i) <= slice_first(n, p, k)
           /\ slice_first(n, p, p) = n
  <1>1. PICK q \in Nat, r \in Nat :
           q = n \div p /\ r = n % p /\ r < p /\ n = p * q + r
    BY DivMod
  <1>2. /\ slice_length(n, p, i) = q + (IF i < r THEN 1 ELSE 0)
        /\ slice_first(n, p, i) = i * q + (IF i < r THEN i ELSE r)
        /\ slice_first(n, p, k) = k * q + (IF k < r THEN k ELSE r)
        /\ slice_first(n, p, p) = p * q + (IF p < r THEN p ELSE r)
    BY <1>1 DEF slice_length, slice_first
  <1>3. i \in Nat /\ k \in Nat /\ i + 1 \in Nat /\ i + 1 <= k
    OBVIOUS
  <1>4. (i + 1) * q = i * q + q /\ i * q \in Nat /\ k * q \in Nat /\ p * q \in Nat
    BY <1>1, <1>3, ProductSuccessor
  <1>5. (i + 1) * q <= k * q
    BY <1>1, <1>3, ProductMonotone
  <1> DEFINE iq == i * q
             kq == k * q
             pq == p * q
  <1>6. iq \in Nat /\ kq \in Nat /\ pq \in Nat /\ iq + q <= kq
    BY <1>4, <1>5
  <1>7. /\ slice_first(n, p, i) = iq + (IF i < r THEN i ELSE r)
        /\ slice_first(n, p, k) = kq + (IF k < r THEN k ELSE r)
        /\ slice_first(n, p, p) = pq + (IF p < r THEN p ELSE r) /\ n = pq + r
    BY <1>1, <1>2
  <1> HIDE DEF iq, kq, pq
  <1> QED
    BY <1>1, <1>2, <1>3, <1>6, <1>7

\* Every element lies in a chunk.
LEMMA SlicesCover ==
    ASSUME NEW n \in Nat, NEW p \in Nat, p > 0, NEW e \in 0 .. n - 1
    PROVE  \E i \in 0 .. p - 1 :
              /\ slice_first(n, p, i) <= e
              /\ e < slice_first(n, p, i) + slice_length(n, p, i)
  <1>0. PICK q \in Nat, r \in Nat :
           q = n \div p /\ r = n % p /\ r < p /\ n = p * q + r
    BY DivMod
  <1>1. r < p /\ n = p * q + r
    BY <1>0
  <1> DEFINE rq == r * q
             pq == p * q
  <1>2. \A i \in Nat :
           /\ slice_length(n, p, i) = q + (IF i < r THEN 1 ELSE 0)
           /\ slice_first(n, p, i) = i * q + (IF i < r THEN i ELSE r)
    BY <1>0 DEF slice_length, slice_first
  <1>3. rq \in Nat /\ pq \in Nat /\ n = pq + r /\ r * (q + 1) = rq + r
    BY <1>1, ProductSuccessor
  <1> HIDE DEF rq, pq
  \* One of the longer chunks.
  <1>4. CASE e < rq + r
    <2>1. PICK i \in Nat, m \in Nat : m < q + 1 /\ e = (q + 1) * i + m
      <3> DEFINE s == q + 1
      <3>1. e \in Nat /\ s \in Nat /\ s > 0
        OBVIOUS
      <3> HIDE DEF s
      <3>2. PICK i \in Nat, m \in Nat :
               i = e \div s /\ m = e % s /\ m < s /\ e = s * i + m
        BY ONLY <3>1, DivMod
      <3> QED
        BY <3>2 DEF s
    <2> DEFINE iq == i * q
    <2>2. iq \in Nat /\ e = iq + i + m
      BY <2>1
    <2> HIDE DEF iq
    <2>3. i < r
      <3> SUFFICES ASSUME r <= i PROVE FALSE
        BY <1>1, <2>1
      <3>1. r * (q + 1) <= i * (q + 1)
        BY <1>1, <2>1, ProductMonotone
      <3>2. i * (q + 1) = iq + i
        BY ProductSuccessor DEF iq
      <3> QED
        BY <1>3, <1>4, <2>2, <3>1, <3>2
    <2>4. i \in 0 .. p - 1
      BY <1>1, <2>1, <2>3
    <2>5. slice_first(n, p, i) = iq + i /\ slice_length(n, p, i) = q + 1
      BY <1>2, <2>3 DEF iq
    <2>6. slice_first(n, p, i) <= e /\ e < slice_first(n, p, i) + slice_length(n, p, i)
      BY <2>1, <2>2, <2>5
    <2> QED
      BY <2>4, <2>6
  \* One of the others.
  <1>5. CASE e >= rq + r
    <2> DEFINE d == e - (rq + r)
    <2>1. d \in Nat /\ e = rq + r + d
      BY <1>3, <1>5
    <2>2. q > 0
      <3> SUFFICES ASSUME q = 0 PROVE FALSE
        OBVIOUS
      <3>1. pq = 0
        BY DEF pq
      <3> QED
        BY <1>3, <1>5, <3>1
    <2> HIDE DEF d
    <2>3. PICK t \in Nat, m \in Nat : m < q /\ d = q * t + m
      <3>1. q \in Nat /\ d \in Nat
        BY <2>1
      <3>2. PICK t \in Nat, m \in Nat :
               t = d \div q /\ m = d % q /\ m < q /\ d = q * t + m
        BY ONLY <2>2, <3>1, DivMod
      <3> QED
        BY <3>2
    <2> DEFINE i == r + t
               tq == t * q
    <2>4. tq \in Nat /\ d = tq + m /\ i * q = rq + tq
      BY <2>3 DEF rq
    <2>5. i \in Nat /\ ~ (i < r)
      OBVIOUS
    <2> HIDE DEF i, tq
    <2>6. i < p
      <3> SUFFICES ASSUME p <= i PROVE FALSE
        BY <2>5
      <3>1. pq <= i * q
        BY <2>5, ProductMonotone DEF pq
      <3> QED
        BY <1>3, <2>1, <2>3, <2>4, <3>1
    <2>7. i \in 0 .. p - 1
      BY <2>5, <2>6
    <2>8. slice_first(n, p, i) = rq + tq + r /\ slice_length(n, p, i) = q
      <3>1. /\ slice_length(n, p, i) = q + (IF i < r THEN 1 ELSE 0)
            /\ slice_first(n, p, i) = i * q + (IF i < r THEN i ELSE r)
        BY <1>2, <2>5
      <3> QED
        BY <2>4, <2>5, <3>1
    <2>9. slice_first(n, p, i) <= e /\ e < slice_first(n, p, i) + slice_length(n, p, i)
      BY <1>3, <2>1, <2>3, <2>4, <2>8
    <2> QED
      BY <2>7, <2>9
  <1> QED
    BY <1>3, <1>4, <1>5

\* For every length and every number of chunks, the ranges that
\* slice_first and slice_length give to the workers of one `parallel` split
\* its array: no element is left out and none is given to two workers.
THEOREM SlicesPartition == Spec => []ChunksPartition
  <1>1. ASSUME ChunkInv, NEW c \in Calls, chunks[c] > 0
        PROVE  /\ UNION {slice_of(count[c], chunks[c], i) : i \in 0 .. chunks[c] - 1}
                    = 0 .. count[c] - 1
               /\ \A i, k \in 0 .. chunks[c] - 1 : i # k =>
                     slice_of(count[c], chunks[c], i)
                       \cap slice_of(count[c], chunks[c], k) = {}
    <2> DEFINE n == count[c]
               p == chunks[c]
               first(i) == slice_first(n, p, i)
               length(i) == slice_length(n, p, i)
    <2>1. n \in Nat /\ p \in Nat /\ p > 0
      BY <1>1, PoolAssumption DEF ChunkInv, JobInv, TypeInv, TypeOK
    <2> HIDE DEF n, p
    <2>2. \A i \in 0 .. p - 1, k \in 0 .. p : i < k =>
             /\ first(i) \in Nat /\ length(i) \in Nat /\ first(k) \in Nat
             /\ first(i) + length(i) <= first(k)
             /\ first(p) = n
      BY <2>1, SlicesInOrder
    <2>3. \A e \in 0 .. n - 1 : \E i \in 0 .. p - 1 :
             first(i) <= e /\ e < first(i) + length(i)
      BY <2>1, SlicesCover
    <2>4. \A i : slice_of(n, p, i) = first(i) .. first(i) + length(i) - 1
      BY DEF slice_of
    <2> HIDE DEF first, length
    <2>5. \A i \in 0 .. p - 1 :
             /\ first(i) \in Nat /\ length(i) \in Nat
             /\ first(i) + length(i) <= n
      <3> SUFFICES ASSUME NEW i \in 0 .. p - 1
                   PROVE  /\ first(i) \in Nat /\ length(i) \in Nat
                          /\ first(i) + length(i) <= n
        OBVIOUS
      <3>1. p \in 0 .. p /\ i < p
        BY <2>1
      <3> QED
        BY <2>2, <3>1
    <2>6. ASSUME NEW i \in 0 .. p - 1 PROVE slice_of(n, p, i) \subseteq 0 .. n - 1
      <3>1. /\ first(i) \in Nat /\ length(i) \in Nat /\ first(i) + length(i) <= n
            /\ slice_of(n, p, i) = first(i) .. first(i) + length(i) - 1
        BY <2>4, <2>5, <2>6
      <3> QED BY ONLY <2>1, <3>1
    <2>7. ASSUME NEW e \in 0 .. n - 1
          PROVE  \E i \in 0 .. p - 1 : e \in slice_of(n, p, i)
      <3>1. PICK i \in 0 .. p - 1 : first(i) <= e /\ e < first(i) + length(i)
        BY <2>3
      <3>2. e \in first(i) .. first(i) + length(i) - 1
        BY <2>1, <2>5, <3>1
      <3> QED
        BY <2>4, <3>2
    <2>8. UNION {slice_of(n, p, i) : i \in 0 .. p - 1} = 0 .. n - 1
      BY <2>6, <2>7
    <2>9. ASSUME NEW i \in 0 .. p - 1, NEW k \in 0 .. p - 1, i < k
          PROVE  slice_of(n, p, i) \cap slice_of(n, p, k) = {}
      <3>1. k \in 0 .. p
        BY <2>1
      <3>2. first(i) \in Nat /\ length(i) \in Nat /\ first(k) \in Nat
            /\ first(i) + length(i) <= first(k) /\ length(k) \in Nat
        BY <2>2, <2>5, <2>9, <3>1
      <3>3. (first(i) .. first(i) + length(i) - 1)
              \cap (first(k) .. first(k) + length(k) - 1) = {}
        BY <3>2
      <3> QED
        BY <2>4, <3>3
    <2>10. ASSUME NEW i \in 0 .. p - 1, NEW k \in 0 .. p - 1, i # k
           PROVE  slice_of(n, p, i) \cap slice_of(n, p, k) = {}
      <3>1. i < k \/ k < i
        BY <2>1, <2>10
      <3> QED
        BY <2>9, <3>1
    <2> QED
      BY <2>8, <2>10 DEF n, p
  <1>2. ChunkInv => ChunksPartition
    BY <1>1 DEF ChunksPartition
  <1> QED
    BY <1>2, ChunkInvariant, PTL

-----------------------------------------------------------------------------
(* The refinement of JobBoard.                                             *)

\* A job that is dispatched and not done is in the list of jobs in flight,
\* so that the list answers for the object of every such job.
LiveOK ==
    \A j \in Jobs : handle[j] = "live" /\ done[j] = 0 => j \in in_flight

\* A call that has not been made has no chunks.
FreshOK == \A c \in Calls : call[c] = "none" => chunks[c] = 0

PoolInv == ChunkInv /\ LiveOK /\ FreshOK

-----------------------------------------------------------------------------
LEMMA LiveInit == Init => LiveOK
  BY DEF Init, LiveOK

\* A step that leaves the records and the list alone.
LEMMA LiveKept ==
    ASSUME LiveOK, UNCHANGED <<handle, done, in_flight>>
    PROVE  LiveOK'
  BY DEF LiveOK

LEMMA LiveWorker ==
    ASSUME JobInv, LiveOK, NEW w \in Workers, WorkerStep(w)
    PROVE  LiveOK'
  <1> USE JobFacts DEF JobInv, jobVars, queueVars
  <1>1. CASE EndJob(w)
    BY <1>1 DEF EndJob, finish_one, LiveOK, TypeInv, TypeOK
  <1>2. CASE ~ EndJob(w)
    <2>1. UNCHANGED <<handle, done, in_flight>>
      BY <1>2 DEF WorkerStep, TakeJob, TakeChunk, WaitReady, EndChunk
    <2> QED
      BY <2>1, LiveKept
  <1> QED
    BY <1>1, <1>2

LEMMA LiveProgram ==
    ASSUME JobInv, LiveOK, NEW b \in Bodies, ProgramStep(b)
    PROVE  LiveOK'
  <1> USE DEF JobInv, jobVars, queueVars
  <1>1. ASSUME NEW j \in Jobs, NEW o \in Objects, Dispatch(b, j, o)
        PROVE  LiveOK'
    BY <1>1 DEF Dispatch, LiveOK, TypeInv, TypeOK
  <1>2. ASSUME NEW j \in Jobs, NEW o \in Objects, DispatchRefused(b, j, o)
        PROVE  LiveOK'
    BY <1>2 DEF DispatchRefused, LiveOK, TypeInv, TypeOK
  <1>3. CASE Return(b)
    BY <1>3, LiveKept DEF Return
  <1>4. ASSUME NEW j \in Jobs, JoinNull(b, j) \/ Join(b, j) PROVE LiveOK'
    BY <1>4, LiveKept DEF JoinNull, Join
  <1>5. ASSUME NEW c \in Calls, NEW by \in ByValues, ParallelEmpty(b, c, by)
        PROVE  LiveOK'
    BY <1>5, LiveKept DEF ParallelEmpty
  <1>6. ASSUME NEW c \in Calls, NEW by \in ByValues, NEW n \in 1 .. MaxCount,
               ParallelPooled(b, c, n, by) \/ ParallelInline(b, c, n, by)
        PROVE  LiveOK'
    BY <1>6, LiveKept DEF ParallelPooled, ParallelInline
  <1> QED
    BY <1>1, <1>2, <1>3, <1>4, <1>5, <1>6 DEF ProgramStep

LEMMA LiveRuntime ==
    ASSUME JobInv, LiveOK, NEW b \in Bodies, RuntimeStep(b)
    PROVE  LiveOK'
  <1> USE JobFacts DEF JobInv, jobVars, queueVars
  <1>1. CASE JoinDone(b)
    BY <1>1 DEF JoinDone, AtJoin, EndJoin, LiveOK, TypeInv, TypeOK
  <1>2. CASE HelpEnd(b)
    BY <1>2 DEF HelpEnd, finish_one, EndJoin, LiveOK, TypeInv, TypeOK
  <1>3. CASE JoinTake(b) \/ JoinWait(b)
    BY <1>3, LiveKept DEF JoinTake, JoinWait
  <1>4. CASE OwnNext(b) \/ OwnWait(b) \/ OwnClose(b) \/ SplitWait(b)
    BY <1>4, LiveKept DEF OwnNext, OwnWait, OwnClose, SplitWait
  <1>5. CASE SplitClose(b) \/ InlineNext(b) \/ InlineClose(b)
    BY <1>5, LiveKept DEF SplitClose, InlineNext, InlineClose
  <1> QED
    BY <1>1, <1>2, <1>3, <1>4, <1>5 DEF RuntimeStep

LEMMA FreshKept ==
    ASSUME FreshOK, UNCHANGED callVars
    PROVE  FreshOK'
  BY DEF FreshOK, callVars

LEMMA FreshOpens ==
    ASSUME TypeInv, FreshOK, NEW b, NEW c \in Calls, NEW by, NEW n,
           Opens(b, c, n, by), call' = [call EXCEPT ![c] = "open"]
                            \/ call' = [call EXCEPT ![c] = "closed"]
    PROVE  FreshOK'
  BY DEF FreshOK, Opens, TypeInv, TypeOK

LEMMA FreshStep == TypeInv /\ FreshOK /\ [Next]_vars => FreshOK'
  <1> SUFFICES ASSUME TypeInv, FreshOK, [Next]_vars PROVE FreshOK'
    OBVIOUS
  <1>1. ASSUME NEW w \in Workers, WorkerStep(w) PROVE FreshOK'
    BY <1>1, FreshKept
    DEF WorkerStep, TakeJob, TakeChunk, WaitReady, EndJob, EndChunk
  <1>2. ASSUME NEW b \in Bodies, ProgramStep(b) PROVE FreshOK'
    <2>1. CASE Return(b)
      BY <2>1, FreshKept DEF Return
    <2>2. ASSUME NEW j \in Jobs, NEW o \in Objects,
                 Dispatch(b, j, o) \/ DispatchRefused(b, j, o)
          PROVE  FreshOK'
      BY <2>2, FreshKept DEF Dispatch, DispatchRefused
    <2>3. ASSUME NEW j \in Jobs, JoinNull(b, j) \/ Join(b, j) PROVE FreshOK'
      BY <2>3, FreshKept DEF JoinNull, Join
    <2>4. ASSUME NEW c \in Calls, NEW by \in ByValues, ParallelEmpty(b, c, by)
          PROVE  FreshOK'
      BY <2>4, FreshOpens DEF ParallelEmpty
    <2>5. ASSUME NEW c \in Calls, NEW by \in ByValues, NEW n \in 1 .. MaxCount,
                 ParallelPooled(b, c, n, by) \/ ParallelInline(b, c, n, by)
          PROVE  FreshOK'
      BY <2>5, FreshOpens DEF ParallelPooled, ParallelInline
    <2> QED
      BY <1>2, <2>1, <2>2, <2>3, <2>4, <2>5 DEF ProgramStep
  <1>3. ASSUME NEW b \in Bodies, RuntimeStep(b) PROVE FreshOK'
    <2>1. CASE JoinDone(b) \/ JoinTake(b) \/ JoinWait(b) \/ HelpEnd(b)
      BY <2>1, FreshKept DEF JoinDone, JoinTake, JoinWait, HelpEnd
    <2>2. CASE OwnNext(b) \/ OwnWait(b) \/ SplitWait(b) \/ InlineNext(b)
      BY <2>2, FreshKept DEF OwnNext, OwnWait, SplitWait, InlineNext
    <2>3. CASE OwnClose(b) \/ SplitClose(b) \/ InlineClose(b)
      BY <2>3 DEF OwnClose, SplitClose, InlineClose, EndCall, FreshOK, TypeInv, TypeOK
    <2> QED
      BY <1>3, <2>1, <2>2, <2>3 DEF RuntimeStep
  <1>4. CASE Spurious \/ UNCHANGED vars
    BY <1>4, FreshKept DEF Spurious, SpuriousReady, SpuriousDone, vars
  <1> QED
    BY <1>1, <1>2, <1>3, <1>4 DEF Next

LEMMA PoolStep == PoolInv /\ [Next]_vars => PoolInv'
  <1> SUFFICES ASSUME PoolInv, [Next]_vars PROVE PoolInv'
    OBVIOUS
  <1>1. ChunkInv' /\ JobInv /\ LiveOK /\ FreshOK'
    BY ChunkStep, FreshStep DEF PoolInv, ChunkInv, JobInv
  <1>2. CASE Spurious \/ UNCHANGED vars
    BY <1>1, <1>2, LiveKept
    DEF PoolInv, Spurious, SpuriousReady, SpuriousDone, vars, jobVars, queueVars
  <1> QED
    BY <1>1, <1>2, LiveWorker, LiveProgram, LiveRuntime DEF PoolInv, Next

LEMMA PoolInvariant == Spec => []PoolInv
  <1>1. Init => PoolInv
    BY ChunkInit, LiveInit DEF PoolInv, Init, FreshOK
  <1> QED
    BY <1>1, PoolStep, PTL DEF Spec

-----------------------------------------------------------------------------
(* The mapping of one job and of one chunk.                                *)

LEMMA JobStateIs ==
    ASSUME NEW j \in Jobs
    PROVE  JobState(j) =
              IF handle[j] = "none" THEN "none"
              ELSE IF handle[j] = "null" THEN "refused"
              ELSE IF handle[j] = "ended" THEN "joined"
              ELSE IF handle[j] = "live" /\ done[j] = 1 THEN "done"
              ELSE IF handle[j] = "live" /\ done[j] = 0 /\ at[j] = "idle"
                   THEN "pending"
              ELSE IF handle[j] = "live" /\ done[j] = 0 /\ at[j] = "end"
                   THEN "returned"
              ELSE "running"
  BY DEF JobState

LEMMA ChunkStateIs ==
    ASSUME NEW x
    PROVE  ChunkState(x) = IF at[x] = "idle" THEN "idle"
                           ELSE IF at[x] = "end" THEN "ran" ELSE "running"
  BY DEF ChunkState

\* A body that neither starts nor returns in a step.
Kept(b) ==
    \/ at'[b] = at[b]
    \/ at[b] \notin {"idle", "end"} /\ at'[b] \notin {"idle", "end"}

LEMMA KeptJob ==
    ASSUME NEW j \in Jobs, Kept(j), handle'[j] = handle[j], done'[j] = done[j]
    PROVE  JobState(j)' = JobState(j)
  <1>1. JobState(j)' =
              IF handle'[j] = "none" THEN "none"
              ELSE IF handle'[j] = "null" THEN "refused"
              ELSE IF handle'[j] = "ended" THEN "joined"
              ELSE IF handle'[j] = "live" /\ done'[j] = 1 THEN "done"
              ELSE IF handle'[j] = "live" /\ done'[j] = 0 /\ at'[j] = "idle"
                   THEN "pending"
              ELSE IF handle'[j] = "live" /\ done'[j] = 0 /\ at'[j] = "end"
                   THEN "returned"
              ELSE "running"
    BY DEF JobState
  <1> QED
    BY <1>1, JobStateIs DEF Kept

LEMMA KeptChunk ==
    ASSUME NEW x, Kept(x)
    PROVE  ChunkState(x)' = ChunkState(x)
  BY DEF ChunkState, Kept

BJob   == [j \in Jobs |-> JobState(j)]
BChunk == [x \in Chunks |-> ChunkState(x)]
BVars  == <<BJob, object, call, chunks, BChunk>>

LEMMA BoardVars == Board!vars = BVars
  BY DEF Board!vars, BVars, BJob, BChunk

\* A step of a job.
LEMMA AdvanceStep ==
    ASSUME NEW j \in Jobs,
           \/ JobState(j) = "pending" /\ JobState(j)' = "running"
           \/ JobState(j) = "running" /\ JobState(j)' = "returned"
           \/ JobState(j) = "returned" /\ JobState(j)' = "done"
           \/ JobState(j) \in {"returned", "done"} /\ JobState(j)' = "joined",
           \A k \in Jobs \ {j} : JobState(k)' = JobState(k),
           \A x \in Chunks : ChunkState(x)' = ChunkState(x),
           UNCHANGED <<object, call, chunks>>
    PROVE  Board!Next
  <1>1. BChunk' = BChunk
    BY DEF BChunk
  <1>2. BJob' = [BJob EXCEPT ![j] = JobState(j)'] /\ BJob[j] = JobState(j)
    BY DEF BJob
  <1>3. Board!Advance(j)
    BY <1>1, <1>2 DEF Board!Advance, Board!MoveJob, BJob, BChunk
  <1> QED
    BY <1>3 DEF Board!Next

\* A step that a program does not see.
LEMMA StutterStep ==
    ASSUME \A j \in Jobs : JobState(j)' = JobState(j),
           \A x \in Chunks : ChunkState(x)' = ChunkState(x),
           UNCHANGED <<object, call, chunks>>
    PROVE  UNCHANGED Board!vars
  <1>1. BChunk' = BChunk /\ BJob' = BJob
    BY DEF BChunk, BJob
  <1> QED
    BY <1>1 DEF Board!vars, BJob, BChunk

LEMMA HeldIs ==
    ASSUME JobInv, LiveOK, NEW o \in Objects
    PROVE  Board!Held(o) <=> InFlight(o)
  <1> USE JobFacts DEF JobInv
  <1>1. \A k \in Jobs : JobState(k) \in {"pending", "running", "returned"}
                          <=> k \in in_flight
    <2> SUFFICES ASSUME NEW k \in Jobs
                 PROVE  JobState(k) \in {"pending", "running", "returned"}
                          <=> k \in in_flight
      OBVIOUS
    <2>1. k \in in_flight <=> handle[k] = "live" /\ done[k] = 0
      BY DEF FlightOK, LiveOK
    <2>2. handle[k] \in Handles /\ done[k] \in {0, 1}
      BY DEF TypeInv, TypeOK
    <2> QED
      BY ONLY <2>1, <2>2, k \in Jobs, JobStateIs DEF Handles
  <1> QED
    BY <1>1 DEF Board!Held, InFlight

\* A dispatch, accepted or refused.
LEMMA AcceptStep ==
    ASSUME NEW j \in Jobs, NEW o \in Objects, ~ Board!Held(o),
           JobState(j) = "none", JobState(j)' = "pending",
           \A k \in Jobs \ {j} : JobState(k)' = JobState(k),
           \A x \in Chunks : ChunkState(x)' = ChunkState(x),
           object' = [object EXCEPT ![j] = o], UNCHANGED <<call, chunks>>
    PROVE  Board!Next
  <1>1. BChunk' = BChunk
    BY DEF BChunk
  <1>2. BJob' = [BJob EXCEPT ![j] = "pending"] /\ BJob[j] = "none"
    BY DEF BJob
  <1>3. Board!Accept(j, o)
    BY <1>1, <1>2 DEF Board!Accept, Board!MoveJob, BJob, BChunk
  <1> QED
    BY <1>3 DEF Board!Next

LEMMA RefuseStep ==
    ASSUME NEW j \in Jobs, NEW o \in Objects, Board!Held(o),
           JobState(j) = "none", JobState(j)' = "refused",
           \A k \in Jobs \ {j} : JobState(k)' = JobState(k),
           \A x \in Chunks : ChunkState(x)' = ChunkState(x),
           UNCHANGED <<object, call, chunks>>
    PROVE  Board!Next
  <1>1. BChunk' = BChunk
    BY DEF BChunk
  <1>2. BJob' = [BJob EXCEPT ![j] = "refused"] /\ BJob[j] = "none"
    BY DEF BJob
  <1>3. Board!Refuse(j, o)
    BY <1>1, <1>2 DEF Board!Refuse, Board!MoveJob, BJob, BChunk
  <1> QED
    BY <1>3 DEF Board!Next

\* A chunk starts, or returns.
LEMMA MoveChunkStep ==
    ASSUME NEW c \in Calls, NEW i \in 0 .. MaxCount - 1, <<c, i>> \in Chunks,
           \/ /\ call[c] = "open" /\ i < chunks[c]
              /\ ChunkState(<<c, i>>) = "idle" /\ ChunkState(<<c, i>>)' = "running"
           \/ ChunkState(<<c, i>>) = "running" /\ ChunkState(<<c, i>>)' = "ran",
           \A y \in Chunks \ {<<c, i>>} : ChunkState(y)' = ChunkState(y),
           \A j \in Jobs : JobState(j)' = JobState(j),
           UNCHANGED <<object, call, chunks>>
    PROVE  Board!Next
  <1> DEFINE x == <<c, i>>
  <1>1. BJob' = BJob
    BY DEF BJob
  <1>2. BChunk' = [BChunk EXCEPT ![x] = ChunkState(x)'] /\ BChunk[x] = ChunkState(x)
    BY DEF BChunk
  <1>3. Board!StartChunk(c, i) \/ Board!EndChunk(c, i)
    BY <1>1, <1>2 DEF Board!StartChunk, Board!EndChunk, BJob, BChunk
  <1> QED
    BY <1>3 DEF Board!Next, Board!Indices

\* A `parallel` begins.
LEMMA OpenStep ==
    ASSUME NEW c \in Calls, NEW n \in 1 .. MaxCount, <<c, 0>> \in Chunks,
           call[c] = "none", call' = [call EXCEPT ![c] = "open"],
           chunks' = [chunks EXCEPT ![c] = n],
           ChunkState(<<c, 0>>)' = "running",
           \A y \in Chunks \ {<<c, 0>>} : ChunkState(y)' = ChunkState(y),
           \A j \in Jobs : JobState(j)' = JobState(j),
           UNCHANGED object
    PROVE  Board!Next
  <1> DEFINE x == <<c, 0>>
  <1>1. BJob' = BJob
    BY DEF BJob
  <1>2. BChunk' = [BChunk EXCEPT ![x] = "running"]
    BY DEF BChunk
  <1>3. Board!Open(c, n)
    BY <1>1, <1>2 DEF Board!Open, BJob, BChunk
  <1> QED
    BY <1>3 DEF Board!Next

\* A `parallel` returns.
LEMMA ShutStep ==
    ASSUME NEW c \in Calls,
           \/ call[c] = "none"
           \/ /\ call[c] = "open"
              /\ \A i \in 0 .. chunks[c] - 1 :
                    <<c, i>> \in Chunks /\ ChunkState(<<c, i>>) = "ran",
           call' = [call EXCEPT ![c] = "closed"],
           \A y \in Chunks : ChunkState(y)' = ChunkState(y),
           \A j \in Jobs : JobState(j)' = JobState(j),
           UNCHANGED <<object, chunks>>
    PROVE  Board!Next
  <1>1. BJob' = BJob /\ BChunk' = BChunk
    BY DEF BJob, BChunk
  <1>2. CASE call[c] = "none"
    <2>1. Board!OpenEmpty(c)
      BY <1>1, <1>2 DEF Board!OpenEmpty, BJob, BChunk
    <2> QED
      BY <2>1 DEF Board!Next
  <1>3. CASE call[c] = "open"
    <2>1. \A i \in 0 .. chunks[c] - 1 : BChunk[<<c, i>>] = "ran"
      BY <1>3 DEF BChunk
    <2>2. Board!Close(c)
      BY <1>1, <1>3, <2>1 DEF Board!Close, BJob, BChunk
    <2> QED
      BY <2>2 DEF Board!Next
  <1> QED
    BY <1>2, <1>3

-----------------------------------------------------------------------------
(* One lemma for each group of actions.                                    *)

LEMMA QuietJobs ==
    ASSUME Quiet
    PROVE  UNCHANGED object /\ \A j \in Jobs : JobState(j)' = JobState(j)
  BY KeptJob DEF Quiet, jobVars, Kept

LEMMA AsideChunks ==
    ASSUME Aside
    PROVE  /\ UNCHANGED <<call, chunks>>
           /\ \A x \in Chunks : ChunkState(x)' = ChunkState(x)
  BY KeptChunk DEF Aside, callVars, Kept

\* The state of a live job that is not done.
LEMMA LiveState ==
    ASSUME NEW j \in Jobs
    PROVE  /\ handle[j] = "none" => JobState(j) = "none"
           /\ handle[j] = "live" /\ done[j] = 1 => JobState(j) = "done"
           /\ handle[j] = "live" /\ done[j] = 0 =>
                 JobState(j) = IF at[j] = "idle" THEN "pending"
                               ELSE IF at[j] = "end" THEN "returned"
                               ELSE "running"
  BY JobStateIs

LEMMA LiveStateNext ==
    ASSUME NEW j \in Jobs
    PROVE  /\ handle'[j] = "null" => JobState(j)' = "refused"
           /\ handle'[j] = "ended" => JobState(j)' = "joined"
           /\ handle'[j] = "live" /\ done'[j] = 1 => JobState(j)' = "done"
           /\ handle'[j] = "live" /\ done'[j] = 0 =>
                 JobState(j)' = IF at'[j] = "idle" THEN "pending"
                                ELSE IF at'[j] = "end" THEN "returned"
                                ELSE "running"
  BY DEF JobState

\* A thread of the pool.
LEMMA WorkerSimulates ==
    ASSUME PoolInv, NEW w \in Workers, WorkerStep(w)
    PROVE  [Board!Next]_(Board!vars)
  <1> USE JobFacts DEF PoolInv, ChunkInv, JobInv
  <1>1. CASE TakeJob(w)
    <2>1. PICK j \in Queued : /\ at' = [at EXCEPT ![j] = "run"]
                              /\ UNCHANGED jobVars
      <3>1. Head(queued) \in Queued
        BY <1>1 DEF TakeJob, TypeInv, TypeOK, Queued
      <3>2. at' = [at EXCEPT ![Head(queued)] = "run"] /\ UNCHANGED jobVars
        BY <1>1 DEF TakeJob
      <3> QED
        BY ONLY <3>1, <3>2
    <2>2. j \in Jobs /\ handle[j] = "live" /\ done[j] = 0 /\ at[j] = "idle"
      BY DEF QueuedIsWaiting, FlightOK
    <2>3. at \in [Bodies -> Phases]
      BY DEF TypeInv, TypeOK
    <2>4. \A k \in Jobs \ {j} : JobState(k)' = JobState(k)
      BY <2>1, <2>3, KeptJob DEF Kept, jobVars
    <2>5. JobState(j) = "pending" /\ JobState(j)' = "running"
      <3>1. handle'[j] = "live" /\ done'[j] = 0 /\ at'[j] = "run"
        BY <2>1, <2>2, <2>3 DEF jobVars
      <3> QED
        BY ONLY <2>2, <3>1, LiveState, LiveStateNext
    <2>6. UNCHANGED object
      BY <2>1 DEF jobVars
    <2> QED
      BY <1>1, <2>2, <2>4, <2>5, <2>6, WorkerAside, AsideChunks, AdvanceStep
  <1>2. CASE TakeChunk(w)
    <2>1. PICK c \in Calls, i \in 0 .. MaxCount - 1 :
             /\ c = active /\ i = taken /\ call[c] = "open" /\ i < chunks[c]
             /\ at' = [at EXCEPT ![<<c, i>>] = "run"] /\ UNCHANGED <<call, chunks>>
      <3>1. /\ active \in Calls /\ taken \in 0 .. MaxCount - 1
            /\ call[active] = "open" /\ taken < chunks[active]
        BY <1>2, ChunkFacts DEF TakeChunk, ChunkLeft
      <3>2. at' = [at EXCEPT ![<<active, taken>>] = "run"] /\ UNCHANGED <<call, chunks>>
        BY <1>2 DEF TakeChunk, callVars
      <3> QED
        BY ONLY <3>1, <3>2
    <2> DEFINE x == <<c, i>>
    <2>2. x \in Chunks /\ x \in Bodies /\ x[1] = active /\ x[2] = taken
      BY <2>1, ChunkFacts
    <2>3. at[x] = "idle" /\ at'[x] = "run"
      BY <2>1, <2>2, ChunkFacts DEF ProgressOK, Progress
    <2>4. ChunkState(x) = "idle" /\ ChunkState(x)' = "running"
      BY <2>3 DEF ChunkState
    <2>5. \A y \in Chunks \ {x} : ChunkState(y)' = ChunkState(y)
      BY <2>1, ChunkFacts, KeptChunk DEF Kept
    <2>6. Quiet
      BY <1>2, ThreadSteps
    <2> QED
      BY <2>1, <2>2, <2>4, <2>5, <2>6, QuietJobs, MoveChunkStep
  <1>3. CASE WaitReady(w)
    BY <1>3, ThreadSteps, WorkerAside, QuietJobs, AsideChunks, StutterStep
  <1>4. CASE EndJob(w)
    <2>1. PICK j \in Jobs :
             /\ j = worker[w] /\ at[j] = "end" /\ done' = [done EXCEPT ![j] = 1]
             /\ UNCHANGED <<at, handle, object>>
      BY <1>4 DEF EndJob, finish_one, bodyVars
    <2>2. handle[j] = "live" /\ done[j] = 0 /\ done \in [Jobs -> {0, 1}]
      BY <2>1 DEF RunnerOK, FlightOK, TypeInv, TypeOK
    <2>3. \A k \in Jobs \ {j} : JobState(k)' = JobState(k)
      BY <2>1, <2>2, KeptJob DEF Kept
    <2>4. JobState(j) = "returned" /\ JobState(j)' = "done"
      <3>1. handle'[j] = "live" /\ done'[j] = 1
        BY <2>1, <2>2
      <3> QED
        BY ONLY <2>1, <2>2, <3>1, LiveState, LiveStateNext
    <2> QED
      BY <1>4, <2>1, <2>3, <2>4, WorkerAside, AsideChunks, AdvanceStep
  <1>5. CASE EndChunk(w)
    <2>1. UNCHANGED <<at, call, chunks>>
      BY <1>5 DEF EndChunk, bodyVars, callVars
    <2>2. \A x \in Chunks : ChunkState(x)' = ChunkState(x)
      BY <2>1 DEF ChunkState
    <2> QED
      BY <1>5, <2>1, <2>2, ThreadSteps, QuietJobs, StutterStep
  <1> QED
    BY <1>1, <1>2, <1>3, <1>4, <1>5 DEF WorkerStep

\* A worker function returns.
LEMMA ReturnSimulates ==
    ASSUME PoolInv, NEW b \in Bodies, Return(b)
    PROVE  [Board!Next]_(Board!vars)
  <1> USE JobFacts, ChunkFacts DEF PoolInv, ChunkInv, JobInv
  <1>1. /\ at[b] = "run" /\ at' = [at EXCEPT ![b] = "end"]
        /\ at \in [Bodies -> Phases]
        /\ UNCHANGED <<handle, done, object, call, chunks>>
    BY DEF Return, callVars
  <1>2. \A j \in Jobs \ {b} : JobState(j)' = JobState(j)
    BY <1>1, KeptJob DEF Kept
  <1>3. \A x \in Chunks \ {b} : ChunkState(x)' = ChunkState(x)
    BY <1>1, KeptChunk DEF Kept
  <1>4. CASE b \in Jobs
    <2>1. handle[b] = "live" /\ done[b] = 0
      BY <1>1, <1>4 DEF FlightOK
    <2>2. handle'[b] = "live" /\ done'[b] = 0 /\ at'[b] = "end"
      BY <1>1, <2>1
    <2>3. JobState(b) = "running" /\ JobState(b)' = "returned"
      BY ONLY <1>1, <1>4, <2>1, <2>2, LiveState, LiveStateNext
    <2>4. \A x \in Chunks : ChunkState(x)' = ChunkState(x)
      BY <1>3, <1>4
    <2> QED
      BY <1>1, <1>2, <1>4, <2>3, <2>4, AdvanceStep
  <1>5. CASE b \in Chunks
    <2>1. ChunkState(b) = "running" /\ ChunkState(b)' = "ran"
      BY <1>1 DEF ChunkState
    <2>2. /\ b[1] \in Calls /\ b[2] \in 0 .. MaxCount - 1
          /\ b = <<b[1], b[2]>> /\ \A j \in Jobs : JobState(j)' = JobState(j)
      BY <1>2, <1>5
    <2> DEFINE c == b[1]
               i == b[2]
    <2>3. c \in Calls /\ i \in 0 .. MaxCount - 1 /\ b = <<c, i>>
      BY <2>2
    <2> HIDE DEF c, i
    <2>4. /\ <<c, i>> \in Chunks
          /\ ChunkState(<<c, i>>) = "running" /\ ChunkState(<<c, i>>)' = "ran"
          /\ \A y \in Chunks \ {<<c, i>>} : ChunkState(y)' = ChunkState(y)
      BY <1>3, <1>5, <2>1, <2>3
    <2> QED
      BY ONLY <1>1, <2>2, <2>3, <2>4, MoveChunkStep
  <1>6. CASE b \notin Jobs /\ b \notin Chunks
    BY <1>1, <1>2, <1>3, <1>6, StutterStep
  <1> QED
    BY <1>4, <1>5, <1>6

\* anti_rt_dispatch.
LEMMA DispatchSimulates ==
    ASSUME PoolInv, NEW b \in Bodies, NEW j \in Jobs, NEW o \in Objects,
           Dispatch(b, j, o) \/ DispatchRefused(b, j, o)
    PROVE  Board!Next
  <1> USE JobFacts DEF PoolInv, ChunkInv, JobInv
  <1>1. /\ handle[j] = "none" /\ UNCHANGED <<at, done>>
        /\ handle \in [Jobs -> Handles]
    BY DEF Dispatch, DispatchRefused, bodyVars, TypeInv, TypeOK
  <1>2. at[j] = "idle" /\ done[j] = 0
    BY <1>1 DEF OnceOK, TypeInv, TypeOK
  <1>3. Aside
    BY DispatchAside
  <1>4. JobState(j) = "none"
    BY ONLY <1>1, j \in Jobs, LiveState
  <1>5. CASE Dispatch(b, j, o)
    <2>1. /\ handle' = [handle EXCEPT ![j] = "live"] /\ ~ InFlight(o)
          /\ object' = [object EXCEPT ![j] = o]
      BY <1>5 DEF Dispatch
    <2>2. \A k \in Jobs \ {j} : JobState(k)' = JobState(k)
      BY <1>1, <2>1, KeptJob DEF Kept
    <2>3. handle'[j] = "live" /\ done'[j] = 0 /\ at'[j] = "idle"
      BY <1>1, <1>2, <2>1
    <2>4. JobState(j)' = "pending"
      BY ONLY <2>3, j \in Jobs, LiveStateNext
    <2> QED
      BY <1>3, <1>4, <2>1, <2>2, <2>4, AsideChunks, HeldIs, AcceptStep
  <1>6. CASE DispatchRefused(b, j, o)
    <2>1. /\ handle' = [handle EXCEPT ![j] = "null"] /\ InFlight(o)
          /\ UNCHANGED object
      BY <1>6 DEF DispatchRefused
    <2>2. \A k \in Jobs \ {j} : JobState(k)' = JobState(k)
      BY <1>1, <2>1, KeptJob DEF Kept
    <2>3. handle'[j] = "null"
      BY <1>1, <2>1
    <2>4. JobState(j)' = "refused"
      BY ONLY <2>3, j \in Jobs, LiveStateNext
    <2> QED
      BY <1>3, <1>4, <2>1, <2>2, <2>4, AsideChunks, HeldIs, RefuseStep
  <1> QED
    BY <1>5, <1>6

\* anti_rt_join begins.
LEMMA JoinSimulates ==
    ASSUME PoolInv, NEW b \in Bodies, NEW j \in Jobs, JoinNull(b, j) \/ Join(b, j)
    PROVE  UNCHANGED Board!vars
  <1> USE JobFacts DEF PoolInv, ChunkInv, JobInv
  <1>1. UNCHANGED <<handle, done, object>>
    BY DEF JoinNull, Join, jobVars
  <1>2. \A k \in Jobs : Kept(k)
    BY DEF JoinNull, Join, CallsRuntime, Kept, bodyVars, TypeInv, TypeOK
  <1> QED
    BY <1>1, <1>2, JoinAside, AsideChunks, KeptJob, StutterStep

\* anti_rt_join goes on.
LEMMA JoinGoesOn ==
    ASSUME PoolInv, NEW b \in Bodies, JoinDone(b) \/ JoinTake(b) \/ HelpEnd(b)
    PROVE  Board!Next
  <1> USE JobFacts DEF PoolInv, ChunkInv, JobInv
  <1>1. PICK j \in Jobs : j = arg[b]
    BY DEF JoinDone, JoinTake, HelpEnd, AtJoin
  <1>2. Aside /\ UNCHANGED object
    BY JoinAside DEF JoinDone, JoinTake, HelpEnd, jobVars
  <1>3. /\ at \in [Bodies -> Phases] /\ handle \in [Jobs -> Handles]
        /\ done \in [Jobs -> {0, 1}]
    BY DEF TypeInv, TypeOK
  <1>4. handle[j] = "live"
    BY <1>1 DEF JoinOK, JoinDone, JoinTake, HelpEnd, AtJoin
  <1>5. CASE JoinDone(b)
    <2>1. /\ at[b] = "join" /\ done[j] = 1 /\ UNCHANGED done
          /\ handle' = [handle EXCEPT ![j] = "ended"]
          /\ at' = [at EXCEPT ![b] = "run"]
      BY <1>1, <1>5 DEF JoinDone, AtJoin, EndJoin
    <2>2. \A k \in Jobs \ {j} : JobState(k)' = JobState(k)
      BY <1>3, <2>1, KeptJob DEF Kept
    <2>3. JobState(j) = "done" /\ JobState(j)' = "joined"
      <3>1. handle'[j] = "ended"
        BY <1>3, <2>1
      <3> QED
        BY ONLY <1>4, <2>1, <3>1, j \in Jobs, LiveState, LiveStateNext
    <2> QED
      BY <1>2, <2>2, <2>3, AsideChunks, AdvanceStep
  <1>6. CASE JoinTake(b)
    <2>1. /\ at[b] = "join" /\ done[j] = 0 /\ j \in Queued
          /\ UNCHANGED <<handle, done>>
          /\ at' = [at EXCEPT ![b] = "help", ![j] = "run"]
      BY <1>1, <1>6 DEF JoinTake, AtJoin, jobVars
    <2>2. \A k \in Jobs \ {j} : JobState(k)' = JobState(k)
      BY <1>3, <2>1, KeptJob DEF Kept
    <2>3. JobState(j) = "pending" /\ JobState(j)' = "running"
      <3>1. at[j] = "idle"
        BY <2>1 DEF QueuedIsWaiting
      <3>2. handle'[j] = "live" /\ done'[j] = 0 /\ at'[j] = "run"
        BY <1>3, <1>4, <2>1, <3>1
      <3> QED
        BY ONLY <1>4, <2>1, <3>1, <3>2, j \in Jobs, LiveState, LiveStateNext
    <2> QED
      BY <1>2, <2>2, <2>3, AsideChunks, AdvanceStep
  <1>7. CASE HelpEnd(b)
    <2>1. /\ at[b] = "help" /\ at[j] = "end"
          /\ done' = [done EXCEPT ![j] = 1]
          /\ handle' = [handle EXCEPT ![j] = "ended"]
          /\ at' = [at EXCEPT ![b] = "run"]
      BY <1>1, <1>7 DEF HelpEnd, finish_one, EndJoin
    <2>2. \A k \in Jobs \ {j} : JobState(k)' = JobState(k)
      BY <1>3, <2>1, KeptJob DEF Kept
    <2>3. JobState(j) = "returned" /\ JobState(j)' = "joined"
      <3>1. handle'[j] = "ended" /\ done[j] = 0
        BY <1>1, <1>3, <2>1 DEF RunnerOK, FlightOK
      <3> QED
        BY ONLY <1>4, <2>1, <3>1, j \in Jobs, LiveState, LiveStateNext
    <2> QED
      BY <1>2, <2>2, <2>3, AsideChunks, AdvanceStep
  <1> QED
    BY <1>5, <1>6, <1>7

\* Running a chunk in the thread of b moves no other chunk.
LEMMA EnterChunks ==
    ASSUME TypeInv, NEW b \in Bodies, NEW phase \in {"own", "inline"},
           NEW x \in Chunks, Enter(b, phase, x), at[x] = "idle",
           at[b] \notin {"idle", "end"}
    PROVE  /\ ChunkState(x) = "idle" /\ ChunkState(x)' = "running"
           /\ \A y \in Chunks \ {x} : ChunkState(y)' = ChunkState(y)
  <1>1. /\ at'[b] = phase /\ at'[x] = "run"
        /\ \A d \in Bodies \ {b, x} : at'[d] = at[d]
    BY EnterFacts
  <1>2. \A y \in Chunks \ {x} : Kept(y)
    <2>1. Chunks \subseteq Bodies
      BY ChunkFacts
    <2> QED
      BY <1>1, <2>1 DEF Kept
  <1>3. ChunkState(x) = "idle" /\ ChunkState(x)' = "running"
    BY <1>1 DEF ChunkState
  <1> QED
    BY <1>2, <1>3, KeptChunk

\* anti_rt_parallel begins.
LEMMA ParallelSimulates ==
    ASSUME PoolInv, NEW b \in Bodies, NEW c \in Calls, NEW by \in ByValues
    PROVE  /\ ParallelEmpty(b, c, by) => Board!Next
           /\ \A n \in 1 .. MaxCount :
                 ParallelPooled(b, c, n, by) \/ ParallelInline(b, c, n, by)
                   => Board!Next
  <1> USE DEF PoolInv, ChunkInv, JobInv
  <1>1. ASSUME ParallelEmpty(b, c, by) PROVE Board!Next
    <2>1. /\ call[c] = "none" /\ call' = [call EXCEPT ![c] = "closed"]
          /\ chunks' = [chunks EXCEPT ![c] = chunk_count(0, by)]
          /\ UNCHANGED at
      BY <1>1 DEF ParallelEmpty, Opens, bodyVars
    <2>2. chunk_count(0, by) \in 0 .. 0
      BY ONLY ChunkCountBounds, by \in ByValues
    <2>3. chunks[c] = 0 /\ chunks \in [Calls -> 0 .. MaxCount]
      BY <2>1 DEF FreshOK, TypeInv, TypeOK
    <2>4. chunks' = chunks
      BY <2>1, <2>2, <2>3
    <2>5. \A x \in Chunks : ChunkState(x)' = ChunkState(x)
      BY <2>1 DEF ChunkState
    <2>6. Quiet
      BY <1>1, ParallelSteps
    <2> QED
      BY <2>1, <2>4, <2>5, <2>6, QuietJobs, ShutStep
  <1>2. ASSUME NEW n \in 1 .. MaxCount,
               ParallelPooled(b, c, n, by) \/ ParallelInline(b, c, n, by)
        PROVE  Board!Next
    <2>1. /\ at[b] = "run" /\ call[c] = "none"
          /\ call' = [call EXCEPT ![c] = "open"]
          /\ chunks' = [chunks EXCEPT ![c] = chunk_count(n, by)]
          /\ Enter(b, "own", <<c, 0>>) \/ Enter(b, "inline", <<c, 0>>)
      BY <1>2 DEF ParallelPooled, ParallelInline, Opens, CallsRuntime
    <2>2. chunk_count(n, by) \in 1 .. MaxCount
      <3>1. n \in Nat /\ n > 0 /\ n <= MaxCount /\ MaxCount \in Nat
        BY PoolAssumption
      <3>2. chunk_count(n, by) \in 0 .. n /\ (n > 0 => chunk_count(n, by) > 0)
        BY ONLY <3>1, ChunkCountBounds, by \in ByValues
      <3> QED
        BY ONLY <3>1, <3>2
    <2>3. <<c, 0>> \in Chunks
      BY BodyFacts
    <2>4. at[<<c, 0>>] = "idle"
      <3>1. Progress(<<c, 0>>)
        BY <2>3 DEF ProgressOK
      <3> QED
        BY <2>1, <3>1 DEF Progress
    <2>5. /\ ChunkState(<<c, 0>>)' = "running"
          /\ \A y \in Chunks \ {<<c, 0>>} : ChunkState(y)' = ChunkState(y)
      BY <2>1, <2>3, <2>4, EnterChunks
    <2>6. Quiet
      BY <1>2, ParallelSteps
    <2> QED
      BY <2>1, <2>2, <2>3, <2>5, <2>6, QuietJobs, OpenStep
  <1> QED
    BY <1>1, <1>2

\* The caller takes one more chunk.
LEMMA NextSimulates ==
    ASSUME PoolInv, NEW b \in Bodies, OwnNext(b) \/ InlineNext(b)
    PROVE  Board!Next
  <1> USE ChunkFacts DEF PoolInv, ChunkInv, JobInv
  <1>1. PICK c \in Calls, i \in 0 .. MaxCount - 1, phase \in {"own", "inline"} :
           /\ Enter(b, phase, <<c, i>>) /\ at[b] = phase
           /\ call[c] = "open" /\ i < chunks[c] /\ at[<<c, i>>] = "idle"
    <2>1. CASE OwnNext(b)
      <3>1. /\ at[b] = "own" /\ Enter(b, "own", <<active, taken>>)
            /\ taken < chunks[active]
        BY <2>1 DEF OwnNext, OwnChunkDone
      <3>2. active \in Calls /\ call[active] = "open" /\ taken \in 0 .. MaxCount - 1
        BY <3>1
      <3>3. <<active, taken>> \in Chunks
        BY <3>2
      <3>4. at[<<active, taken>>] = "idle"
        <4>1. Progress(<<active, taken>>)
          BY <3>3 DEF ProgressOK
        <4>2. taken \in Nat
          OBVIOUS
        <4> QED
          BY ONLY <4>1, <4>2 DEF Progress
      <3> QED
        BY ONLY <3>1, <3>2, <3>4
    <2>2. CASE InlineNext(b)
      <3> DEFINE c == arg[b][1]
                 i == arg[b][2]
      <3>1. /\ at[b] = "inline" /\ Enter(b, "inline", <<c, i + 1>>)
            /\ i + 1 < chunks[c]
        BY <2>2 DEF InlineNext, InlineChunkDone
      <3>2. /\ c \in Calls /\ call[c] = "open" /\ i \in Nat
            /\ i + 1 \in 0 .. MaxCount - 1 /\ c # active /\ caller[c] = b
        BY <3>1
      <3>3. <<c, i + 1>> \in Chunks
        BY <3>2
      <3>4. at[<<c, i + 1>>] = "idle"
        <4>1. Progress(<<c, i + 1>>)
          BY <3>3 DEF ProgressOK
        <4> QED
          BY ONLY <3>2, <4>1 DEF Progress
      <3> HIDE DEF c, i
      <3> QED
        BY ONLY <3>1, <3>2, <3>4
    <2> QED
      BY <2>1, <2>2
  <1>2. <<c, i>> \in Chunks
    BY <1>1
  <1>3. /\ ChunkState(<<c, i>>) = "idle" /\ ChunkState(<<c, i>>)' = "running"
        /\ \A y \in Chunks \ {<<c, i>>} : ChunkState(y)' = ChunkState(y)
    BY <1>1, <1>2, EnterChunks
  <1>4. Quiet /\ UNCHANGED <<call, chunks>>
    BY ParallelSteps DEF OwnNext, InlineNext, callVars
  <1>5. UNCHANGED object /\ \A j \in Jobs : JobState(j)' = JobState(j)
    BY <1>4, QuietJobs
  <1> QED
    BY ONLY <1>1, <1>2, <1>3, <1>4, <1>5, MoveChunkStep

\* anti_rt_parallel returns.
LEMMA CloseSimulates ==
    ASSUME PoolInv, ChunkInv', NEW b \in Bodies,
           OwnClose(b) \/ SplitClose(b) \/ InlineClose(b)
    PROVE  Board!Next
  <1> USE ChunkFacts DEF PoolInv, ChunkInv, JobInv
  <1>1. PICK c \in Calls : call[c] = "open" /\ call' = [call EXCEPT ![c] = "closed"]
    <2>1. CASE OwnClose(b) \/ SplitClose(b)
      <3>1. at[b] \in {"own", "split"} /\ call' = [call EXCEPT ![active] = "closed"]
        BY <2>1 DEF OwnClose, OwnChunkDone, SplitClose, AtSplit, EndCall
      <3>2. active \in Calls /\ call[active] = "open"
        BY <3>1
      <3> QED
        BY ONLY <3>1, <3>2
    <2>2. CASE InlineClose(b)
      <3>1. at[b] = "inline" /\ call' = [call EXCEPT ![arg[b][1]] = "closed"]
        BY <2>2 DEF InlineClose, InlineChunkDone
      <3>2. arg[b][1] \in Calls /\ call[arg[b][1]] = "open"
        BY <3>1
      <3> QED
        BY ONLY <3>1, <3>2
    <2> QED
      BY <2>1, <2>2
  <1>2. /\ at[b] \in {"own", "split", "inline"} /\ at' = [at EXCEPT ![b] = "run"]
        /\ UNCHANGED chunks
    BY DEF OwnClose, OwnChunkDone, SplitClose, AtSplit, EndCall, InlineClose,
           InlineChunkDone
  <1>3. \A x \in Chunks : Kept(x)
    BY <1>2 DEF Kept
  <1>4. ASSUME NEW i \in 0 .. chunks[c] - 1
        PROVE  <<c, i>> \in Chunks /\ ChunkState(<<c, i>>) = "ran"
    <2>1. i \in Nat /\ i < chunks[c] /\ i < MaxCount
      OBVIOUS
    <2>2. <<c, i>> \in Chunks
      BY <2>1
    <2>3. Progress(<<c, i>>)'
      BY <2>2 DEF ProgressOK
    <2>4. call'[c] = "closed" /\ chunks' = chunks
      BY <1>1, <1>2
    <2>5. at'[<<c, i>>] = "end"
      BY ONLY <2>1, <2>3, <2>4 DEF Progress
    <2>6. at[<<c, i>>] = "end"
      BY <1>3, <2>2, <2>5 DEF Kept
    <2> QED
      BY <2>2, <2>6 DEF ChunkState
  <1>5. Quiet
    BY ParallelSteps
  <1>6. UNCHANGED object /\ \A j \in Jobs : JobState(j)' = JobState(j)
    BY <1>5, QuietJobs
  <1>7. \A y \in Chunks : ChunkState(y)' = ChunkState(y)
    BY <1>3, KeptChunk
  <1> QED
    BY ONLY <1>1, <1>2, <1>4, <1>6, <1>7, ShutStep

\* The caller begins to wait for the last chunk.
LEMMA WaitSimulates ==
    ASSUME PoolInv, NEW b \in Bodies, OwnWait(b)
    PROVE  UNCHANGED Board!vars
  <1> USE ChunkFacts DEF PoolInv, ChunkInv, JobInv
  <1>1. /\ at[b] = "own" /\ at' = [at EXCEPT ![b] = "split"]
        /\ UNCHANGED <<call, chunks>>
    BY DEF OwnWait, OwnChunkDone, callVars
  <1>2. \A x \in Chunks : ChunkState(x)' = ChunkState(x)
    BY <1>1, KeptChunk DEF Kept
  <1>3. Quiet
    BY ParallelSteps
  <1> QED
    BY <1>1, <1>2, <1>3, QuietJobs, StutterStep

-----------------------------------------------------------------------------
LEMMA Simulates == PoolInv /\ PoolInv' /\ [Next]_vars => [Board!Next]_(Board!vars)
  <1> SUFFICES ASSUME PoolInv, PoolInv', [Next]_vars
               PROVE  [Board!Next]_(Board!vars)
    OBVIOUS
  <1>1. JobInv /\ TypeInv /\ ChunkInv' /\ StartedOK
    BY DEF PoolInv, ChunkInv, JobInv
  <1>2. ASSUME NEW b \in Bodies, ProgramStep(b) PROVE [Board!Next]_(Board!vars)
    BY <1>2, ReturnSimulates, DispatchSimulates, JoinSimulates, ParallelSimulates
    DEF ProgramStep
  <1>3. ASSUME NEW b \in Bodies, RuntimeStep(b) PROVE [Board!Next]_(Board!vars)
    <2>1. CASE JoinWait(b)
      BY <1>1, <2>1, ThreadSteps, JoinAside, QuietJobs, AsideChunks, StutterStep
    <2>2. CASE SplitWait(b)
      BY <1>1, <2>2, ParallelSteps, WaitAside, QuietJobs, AsideChunks, StutterStep
    <2> QED
      BY <1>1, <1>3, <2>1, <2>2, JoinGoesOn, NextSimulates, WaitSimulates,
         CloseSimulates DEF RuntimeStep
  <1>4. CASE Spurious \/ UNCHANGED vars
    <2>1. Quiet
      BY <1>1, <1>4, ThreadSteps DEF Spurious
    <2>2. Aside
      BY <1>1, <1>4, WaitAside DEF Spurious
    <2> QED
      BY <2>1, <2>2, QuietJobs, AsideChunks, StutterStep
  <1> QED
    BY <1>2, <1>3, <1>4, WorkerSimulates DEF Next

\* Whatever the interleaving of pool threads, joins and callers in
\* rt/threads.c, a program sees the board: an object is held by one job at a
\* time, a worker runs once, a join collects what has returned, and a
\* `parallel` returns after its last chunk.
THEOREM PoolImplementsBoard == Spec => ImplementsBoard
  <1>1. Init => Board!Init
    <2> SUFFICES ASSUME Init PROVE Board!Init
      OBVIOUS
    <2>1. \A j \in Jobs : JobState(j) = "none"
      BY LiveState DEF Init
    <2>2. \A x \in Chunks : ChunkState(x) = "idle"
      BY BodyFacts, PoolAssumption DEF Init, ChunkState
    <2>3. Chunks = Calls \X (0 .. MaxCount - 1)
      BY DEF Chunks
    <2> QED
      BY <2>1, <2>2, <2>3 DEF Init, Board!Init, Board!Indices
  <1> QED
    BY <1>1, PoolInvariant, Simulates, PTL DEF Spec, ImplementsBoard, Board!Spec
=============================================================================
