-------------------------- MODULE ThreadPoolSafety --------------------------
(***************************************************************************)
(* Proofs about the worker pool, for any number of threads, jobs, objects, *)
(* `parallel` calls and chunks: its types first, then the life of a        *)
(* dispatched job.  The object of a worker is held by nobody else, the     *)
(* list of queued jobs never breaks, no freed record is reached, and       *)
(* `join` gives the result of a worker that ran once.                      *)
(***************************************************************************)
EXTENDS ThreadPool, FiniteSetTheorems, TLAPS

-----------------------------------------------------------------------------
(* Lemmas about the list of queued jobs.                                   *)

\* The search of anti_rt_join stops at the job it looks for.
LEMMA PositionFinds ==
    ASSUME NEW job \in Queued
    PROVE  /\ Position(job) \in DOMAIN queued
           /\ queued[Position(job)] = job
  BY DEF Queued, Position

\* Taking a job out of the list keeps the others and their order.
LEMMA UnlinkType ==
    ASSUME queued \in Seq(Jobs), NEW job \in Queued
    PROVE  /\ Unlink(job) \in Seq(Jobs)
           /\ Len(Unlink(job)) = Len(queued) - 1
           /\ \A i \in 1 .. Len(queued) - 1 :
                 Unlink(job)[i] = IF i < Position(job) THEN queued[i]
                                                       ELSE queued[i + 1]
  <1> DEFINE n == Len(queued) - 1
  <1>1. n \in Nat /\ DOMAIN queued = 1 .. n + 1
    BY DEF Queued
  <1>2. Unlink(job) = [i \in 1 .. n |->
                         IF i < Position(job) THEN queued[i] ELSE queued[i + 1]]
    BY DEF Unlink
  <1>3. \A i \in 1 .. n : queued[i] \in Jobs /\ queued[i + 1] \in Jobs
    BY <1>1
  <1>4. Unlink(job) \in [1 .. n -> Jobs]
    BY <1>2, <1>3
  <1>5. Unlink(job) \in Seq(Jobs)
    BY <1>1, <1>4
  <1>6. Len(Unlink(job)) = n
    <2>1. DOMAIN Unlink(job) = 1 .. n
      BY <1>4
    <2>2. Len(Unlink(job)) \in Nat /\ DOMAIN Unlink(job) = 1 .. Len(Unlink(job))
      BY <1>5
    <2> HIDE DEF n
    <2> QED
      BY <1>1, <2>1, <2>2
  <1> QED
    BY <1>2, <1>5, <1>6

\* A dispatch gives a list of jobs whatever queued_last points at.
LEMMA LinkType ==
    ASSUME queued \in Seq(Jobs), NEW job \in Jobs
    PROVE  Link(job) \in Seq(Jobs)
  <1>1. CASE queued_last = None
    BY <1>1 DEF Link
  <1>2. CASE queued_last # None /\ queued_last \notin Queued
    BY <1>2 DEF Link
  <1>3. CASE queued_last # None /\ queued_last \in Queued
    <2>1. Position(queued_last) \in 1 .. Len(queued)
      BY <1>3, PositionFinds
    <2>2. SubSeq(queued, 1, Position(queued_last)) \in Seq(Jobs)
      BY <2>1
    <2> QED
      BY <1>3, <2>2 DEF Link
  <1> QED
    BY <1>1, <1>2, <1>3

LEMMA LastOfType ==
    ASSUME NEW list \in Seq(Jobs)
    PROVE  LastOf(list) \in Jobs \cup {None}
  BY DEF LastOf

-----------------------------------------------------------------------------
(* Lemmas about the number of chunks.                                      *)

LEMMA WorkerCountType == worker_count \in Nat /\ worker_count > 0
  <1>1. Cardinality(Workers) \in Nat
    BY PoolAssumption, FS_CardinalityType
  <1> QED
    BY <1>1 DEF worker_count

\* A `parallel` has no more chunks than elements, and none when it has none.
LEMMA ChunkCountBounds ==
    ASSUME NEW n \in Nat, NEW by \in ByValues
    PROVE  /\ chunk_count(n, by) \in 0 .. n
           /\ n > 0 => chunk_count(n, by) > 0
  <1>1. by \in Int
    BY PoolAssumption
  <1> QED
    BY <1>1, WorkerCountType DEF chunk_count

-----------------------------------------------------------------------------
(* Type correctness.                                                       *)

\* What a body that is inside a call of the runtime deals with.
ArgOK ==
    \A b \in Bodies :
        /\ at[b] \in {"join", "help"}  => arg[b] \in Jobs
        /\ at[b] \in {"own", "inline"} => arg[b] \in Chunks

\* The call that owns the pool is open, and only its caller is in it; a call
\* that met a busy pool is open, and another one.
ActiveOK ==
    /\ active # None => call[active] = "open" /\ taken <= chunks[active]
    /\ \A b \in Bodies : at[b] \in {"own", "split"} =>
          active # None /\ caller[active] = b
    /\ \A b \in Bodies : at[b] = "inline" =>
          /\ arg[b][1] # active
          /\ call[arg[b][1]] = "open" /\ caller[arg[b][1]] = b

TypeInv == TypeOK /\ ArgOK /\ ActiveOK

LEMMA BodyFacts ==
    /\ Main \in Bodies /\ Jobs \subseteq Bodies /\ Chunks \subseteq Bodies
    /\ \A c \in Calls, i \in Nat : i < MaxCount => <<c, i>> \in Chunks
    /\ \A x \in Chunks : x[1] \in Calls /\ x[2] \in Nat /\ x[2] < MaxCount
    /\ MaxCount \in Nat /\ None \notin Calls
  BY PoolAssumption DEF Bodies, Chunks

LEMMA TypeInit == Init => TypeInv
  <1> SUFFICES ASSUME Init PROVE TypeInv
    OBVIOUS
  <1>1. TypeOK
    <2>1. queued \in Seq(Jobs) /\ at \in [Bodies -> Phases]
      BY DEF Init, Phases
    <2>2. handle \in [Jobs -> Handles] /\ result \in [Jobs -> Values]
                                       /\ answer \in [Jobs -> Values]
      BY DEF Init, Handles, Values
    <2>3. /\ arg \in [Bodies -> Jobs \cup Chunks \cup {None}]
          /\ runs \in [Bodies -> Nat]
          /\ worker \in [Workers -> {Absent, Loop} \cup Jobs \cup Chunks]
      BY DEF Init
    <2>4. /\ owner \in [Jobs -> Bodies \cup {None}]
          /\ object \in [Jobs -> Objects \cup {None}]
          /\ done \in [Jobs -> {0, 1}]
      BY DEF Init
    <2>5. /\ call \in [Calls -> {"none", "open", "closed"}]
          /\ caller \in [Calls -> Bodies \cup {None}]
          /\ count \in [Calls -> 0 .. MaxCount]
          /\ chunks \in [Calls -> 0 .. MaxCount]
          /\ \A c \in Calls : chunks[c] <= count[c]
      BY BodyFacts DEF Init
    <2>6. /\ started \in BOOLEAN /\ queued_last \in Jobs \cup {None}
          /\ in_flight \in SUBSET Jobs /\ active \in Calls \cup {None}
          /\ taken \in Nat /\ finished \in Nat
          /\ work_ready \in SUBSET Workers /\ work_done \in SUBSET Bodies
      BY DEF Init
    <2> QED
      BY <2>1, <2>2, <2>3, <2>4, <2>5, <2>6 DEF TypeOK
  <1>2. ArgOK /\ ActiveOK
    BY DEF Init, ArgOK, ActiveOK
  <1> QED
    BY <1>1, <1>2 DEF TypeInv

\* What running one more chunk in the thread of the caller does.
LEMMA EnterTypes ==
    ASSUME TypeOK, ArgOK, NEW b \in Bodies, NEW phase \in {"own", "inline"},
           NEW x \in Chunks, Enter(b, phase, x)
    PROVE  /\ at' \in [Bodies -> Phases]
           /\ arg' \in [Bodies -> Jobs \cup Chunks \cup {None}]
           /\ runs' \in [Bodies -> Nat]
           /\ ArgOK'
           /\ \A d \in Bodies : at'[d] \in {"own", "split"} =>
                 (d = b /\ phase = "own") \/ at[d] \in {"own", "split"}
           /\ \A d \in Bodies : at'[d] = "inline" =>
                 \/ d = b /\ phase = "inline" /\ arg'[d] = x
                 \/ at[d] = "inline" /\ arg'[d] = arg[d]
  <1>1. x \in Bodies
    BY BodyFacts
  <1>2. /\ at' = [at EXCEPT ![b] = phase, ![x] = "run"]
        /\ arg' = [arg EXCEPT ![b] = x]
        /\ runs' = [runs EXCEPT ![x] = @ + 1]
    BY DEF Enter, begin
  <1>3. at' \in [Bodies -> Phases]
    BY <1>1, <1>2 DEF TypeOK, Phases
  <1>4. arg' \in [Bodies -> Jobs \cup Chunks \cup {None}] /\ runs' \in [Bodies -> Nat]
    BY <1>1, <1>2 DEF TypeOK
  <1>5. ArgOK'
    BY <1>1, <1>2 DEF TypeOK, ArgOK
  <1>6. ASSUME NEW d \in Bodies, at'[d] \in {"own", "split"}
        PROVE  (d = b /\ phase = "own") \/ at[d] \in {"own", "split"}
    BY <1>1, <1>2, <1>6 DEF TypeOK
  <1>7. ASSUME NEW d \in Bodies, at'[d] = "inline"
        PROVE  \/ d = b /\ phase = "inline" /\ arg'[d] = x
               \/ at[d] = "inline" /\ arg'[d] = arg[d]
    BY <1>1, <1>2, <1>7 DEF TypeOK
  <1> QED
    BY <1>3, <1>4, <1>5, <1>6, <1>7

LEMMA TypeStep == TypeInv /\ [Next]_vars => TypeInv'
  <1> SUFFICES ASSUME TypeInv, [Next]_vars
               PROVE  TypeInv'
    OBVIOUS
  <1> USE BodyFacts DEF TypeInv, threadVars, bodyVars, queueVars, activeVars,
          condVars, jobVars, callVars
  <1>1. ASSUME NEW w \in Workers, TakeJob(w) PROVE TypeInv'
    <2> USE <1>1 DEF TakeJob, Awake, begin
    <2>1. TypeOK'
      <3>1. queued' \in Seq(Jobs) /\ Head(queued) \in Jobs
        BY DEF TypeOK
      <3> QED
        BY <3>1 DEF TypeOK, Phases
    <2>2. ArgOK'
      BY DEF TypeOK, ArgOK, Phases
    <2>3. ActiveOK'
      BY DEF TypeOK, ArgOK, ActiveOK, Phases
    <2> QED
      BY <2>1, <2>2, <2>3
  <1>2. ASSUME NEW w \in Workers, TakeChunk(w) PROVE TypeInv'
    <2> USE <1>2 DEF TakeChunk, Awake, ChunkLeft, begin
    <2>1. TypeOK'
      BY DEF TypeOK, ArgOK, ActiveOK, Phases, Handles, Values
    <2>2. ArgOK'
      BY DEF TypeOK, ArgOK, Phases
    <2>3. ActiveOK'
      BY DEF TypeOK, ArgOK, ActiveOK, Phases
    <2> QED
      BY <2>1, <2>2, <2>3
  <1>3. ASSUME NEW w \in Workers, WaitReady(w) PROVE TypeInv'
    <2> USE <1>3 DEF WaitReady, Awake
    <2>1. TypeOK'
      BY DEF TypeOK, ArgOK, ActiveOK, Phases, Handles, Values
    <2>2. ArgOK'
      BY DEF TypeOK, ArgOK, Phases
    <2>3. ActiveOK'
      BY DEF TypeOK, ArgOK, ActiveOK, Phases
    <2> QED
      BY <2>1, <2>2, <2>3
  <1>4. ASSUME NEW w \in Workers, EndJob(w) PROVE TypeInv'
    <2> USE <1>4 DEF EndJob, finish_one, wake_caller
    <2>1. TypeOK'
      BY DEF TypeOK, ArgOK, ActiveOK, Phases, Handles, Values
    <2>2. ArgOK'
      BY DEF TypeOK, ArgOK, Phases
    <2>3. ActiveOK'
      BY DEF TypeOK, ArgOK, ActiveOK, Phases
    <2> QED
      BY <2>1, <2>2, <2>3
  <1>5. ASSUME NEW w \in Workers, EndChunk(w) PROVE TypeInv'
    <2> USE <1>5 DEF EndChunk, wake_caller
    <2>1. TypeOK'
      BY DEF TypeOK, ArgOK, ActiveOK, Phases, Handles, Values
    <2>2. ArgOK'
      BY DEF TypeOK, ArgOK, Phases
    <2>3. ActiveOK'
      BY DEF TypeOK, ArgOK, ActiveOK, Phases
    <2> QED
      BY <2>1, <2>2, <2>3
  <1>6. ASSUME NEW b \in Bodies, Return(b) PROVE TypeInv'
    <2> USE <1>6 DEF Return
    <2>1. TypeOK'
      BY DEF TypeOK, ArgOK, ActiveOK, Phases, Handles, Values
    <2>2. ArgOK'
      BY DEF TypeOK, ArgOK, Phases
    <2>3. ActiveOK'
      BY DEF TypeOK, ArgOK, ActiveOK, Phases
    <2> QED
      BY <2>1, <2>2, <2>3
  <1>7. ASSUME NEW b \in Bodies, NEW j \in Jobs, NEW o \in Objects,
               Dispatch(b, j, o)
        PROVE  TypeInv'
    <2> USE <1>7, LinkType DEF Dispatch, CallsRuntime, start, wake_all
    <2>1. TypeOK'
      BY DEF TypeOK, ArgOK, ActiveOK, Phases, Handles, Values
    <2>2. ArgOK'
      BY DEF TypeOK, ArgOK, Phases
    <2>3. ActiveOK'
      BY DEF TypeOK, ArgOK, ActiveOK, Phases
    <2> QED
      BY <2>1, <2>2, <2>3
  <1>8. ASSUME NEW b \in Bodies, NEW j \in Jobs, NEW o \in Objects,
               DispatchRefused(b, j, o)
        PROVE  TypeInv'
    <2> USE <1>8 DEF DispatchRefused, CallsRuntime, start
    <2>1. TypeOK'
      BY DEF TypeOK, ArgOK, ActiveOK, Phases, Handles, Values
    <2>2. ArgOK'
      BY DEF TypeOK, ArgOK, Phases
    <2>3. ActiveOK'
      BY DEF TypeOK, ArgOK, ActiveOK, Phases
    <2> QED
      BY <2>1, <2>2, <2>3
  <1>9. ASSUME NEW b \in Bodies, NEW j \in Jobs, JoinNull(b, j) PROVE TypeInv'
    <2> USE <1>9 DEF JoinNull, CallsRuntime
    <2>1. TypeOK'
      BY DEF TypeOK, ArgOK, ActiveOK, Phases, Handles, Values
    <2>2. ArgOK'
      BY DEF TypeOK, ArgOK, Phases
    <2>3. ActiveOK'
      BY DEF TypeOK, ArgOK, ActiveOK, Phases
    <2> QED
      BY <2>1, <2>2, <2>3
  <1>10. ASSUME NEW b \in Bodies, NEW j \in Jobs, Join(b, j) PROVE TypeInv'
    <2> USE <1>10 DEF Join, CallsRuntime
    <2>1. TypeOK'
      BY DEF TypeOK, ArgOK, ActiveOK, Phases, Handles, Values
    <2>2. ArgOK'
      BY DEF TypeOK, ArgOK, Phases
    <2>3. ActiveOK'
      BY DEF TypeOK, ArgOK, ActiveOK, Phases
    <2> QED
      BY <2>1, <2>2, <2>3
  <1>11. ASSUME NEW b \in Bodies, JoinDone(b) PROVE TypeInv'
    <2> USE <1>11 DEF JoinDone, AtJoin, EndJoin
    <2>1. TypeOK'
      BY DEF TypeOK, ArgOK, ActiveOK, Phases, Handles, Values
    <2>2. ArgOK'
      BY DEF TypeOK, ArgOK, Phases
    <2>3. ActiveOK'
      BY DEF TypeOK, ArgOK, ActiveOK, Phases
    <2> QED
      BY <2>1, <2>2, <2>3
  <1>12. ASSUME NEW b \in Bodies, JoinTake(b) PROVE TypeInv'
    <2>1. /\ at[b] = "join" /\ arg[b] \in Jobs /\ arg[b] \in Queued
          /\ arg[b] \in Bodies
      BY <1>12 DEF JoinTake, AtJoin, ArgOK
    <2>2. /\ queued' = Unlink(arg[b])
          /\ queued_last' = IF queued_last = arg[b] THEN LastOf(Unlink(arg[b]))
                                                    ELSE queued_last
      BY <1>12 DEF JoinTake
    <2>3. /\ at' = [at EXCEPT ![b] = "help", ![arg[b]] = "run"]
          /\ runs' = [runs EXCEPT ![arg[b]] = runs[arg[b]] + 1]
      BY <1>12 DEF JoinTake, begin
    <2>4. UNCHANGED <<threadVars, arg, in_flight, activeVars, condVars, jobVars,
                      callVars>>
      BY <1>12 DEF JoinTake
    <2>5. queued' \in Seq(Jobs)
      BY <2>1, <2>2, UnlinkType DEF TypeOK
    <2>6. queued_last' \in Jobs \cup {None}
      BY <2>2, <2>5, LastOfType DEF TypeOK
    <2>7. at' \in [Bodies -> Phases]
      BY <2>1, <2>3 DEF TypeOK, Phases
    <2>8. runs' \in [Bodies -> Nat]
      BY <2>1, <2>3 DEF TypeOK
    <2>9. TypeOK'
      BY <2>4, <2>5, <2>6, <2>7, <2>8 DEF TypeOK
    <2>10. ArgOK' /\ ActiveOK'
      BY <2>1, <2>3, <2>4 DEF TypeOK, ArgOK, ActiveOK
    <2> QED
      BY <2>9, <2>10
  <1>13. ASSUME NEW b \in Bodies, JoinWait(b) PROVE TypeInv'
    <2> USE <1>13 DEF JoinWait, AtJoin
    <2>1. TypeOK'
      BY DEF TypeOK, ArgOK, ActiveOK, Phases, Handles, Values
    <2>2. ArgOK'
      BY DEF TypeOK, ArgOK, Phases
    <2>3. ActiveOK'
      BY DEF TypeOK, ArgOK, ActiveOK, Phases
    <2> QED
      BY <2>1, <2>2, <2>3
  <1>14. ASSUME NEW b \in Bodies, HelpEnd(b) PROVE TypeInv'
    <2> USE <1>14 DEF HelpEnd, finish_one, wake_caller, EndJoin
    <2>1. TypeOK'
      BY DEF TypeOK, ArgOK, ActiveOK, Phases, Handles, Values
    <2>2. ArgOK'
      BY DEF TypeOK, ArgOK, Phases
    <2>3. ActiveOK'
      BY DEF TypeOK, ArgOK, ActiveOK, Phases
    <2> QED
      BY <2>1, <2>2, <2>3
  <1>15. ASSUME NEW b \in Bodies, NEW c \in Calls, NEW by \in ByValues,
               ParallelEmpty(b, c, by)
        PROVE  TypeInv'
    <2>1. chunk_count(0, by) = 0
      <3>1. chunk_count(0, by) \in 0 .. 0
        BY ChunkCountBounds
      <3> QED
        BY <3>1
    <2>2. /\ count' = [count EXCEPT ![c] = 0] /\ chunks' = [chunks EXCEPT ![c] = 0]
          /\ caller' = [caller EXCEPT ![c] = b]
          /\ call[c] = "none" /\ call' = [call EXCEPT ![c] = "closed"]
      BY <1>15, <2>1 DEF ParallelEmpty, Opens
    <2>3. UNCHANGED <<threadVars, bodyVars, queueVars, activeVars, condVars,
                      jobVars>>
      BY <1>15 DEF ParallelEmpty
    <2>4. TypeOK'
      BY <2>2, <2>3 DEF TypeOK, Phases, Handles, Values
    <2>5. ArgOK' /\ ActiveOK'
      BY <2>2, <2>3 DEF TypeOK, ArgOK, ActiveOK
    <2> QED
      BY <2>4, <2>5
  <1>16. ASSUME NEW b \in Bodies, NEW c \in Calls,
               NEW by \in ByValues, NEW n \in 1 .. MaxCount,
               ParallelPooled(b, c, n, by)
        PROVE  TypeInv'
    <2>1. chunk_count(n, by) \in 1 .. n /\ n \in 1 .. MaxCount /\ <<c, 0>> \in Chunks
      BY ChunkCountBounds
    <2>2. /\ count' = [count EXCEPT ![c] = n]
          /\ chunks' = [chunks EXCEPT ![c] = chunk_count(n, by)]
          /\ caller' = [caller EXCEPT ![c] = b]
          /\ call[c] = "none" /\ call' = [call EXCEPT ![c] = "open"]
      BY <1>16 DEF ParallelPooled, Opens
    <2>3. Enter(b, "own", <<c, 0>>)
      BY <1>16 DEF ParallelPooled
    <2>4. active = None /\ active' = c /\ taken' = 1 /\ finished' = 0
      BY <1>16 DEF ParallelPooled
    <2>5. work_ready' = {} /\ UNCHANGED <<queueVars, work_done, jobVars>>
      BY <1>16 DEF ParallelPooled, wake_all
    <2>6. started' \in BOOLEAN
          /\ worker' \in [Workers -> {Absent, Loop} \cup Jobs \cup Chunks]
      BY <1>16 DEF ParallelPooled, start, TypeOK
    <2>7. /\ at' \in [Bodies -> Phases]
          /\ arg' \in [Bodies -> Jobs \cup Chunks \cup {None}]
          /\ runs' \in [Bodies -> Nat]
          /\ ArgOK'
          /\ \A d \in Bodies : at'[d] \in {"own", "split"} =>
                 (d = b /\ "own" = "own") \/ at[d] \in {"own", "split"}
          /\ \A d \in Bodies : at'[d] = "inline" =>
                 \/ d = b /\ "own" = "inline" /\ arg'[d] = <<c, 0>>
                 \/ at[d] = "inline" /\ arg'[d] = arg[d]
      BY <2>1, <2>3, EnterTypes
    <2>8. TypeOK'
      <3>1. /\ count' \in [Calls -> 0 .. MaxCount]
            /\ chunks' \in [Calls -> 0 .. MaxCount]
            /\ \A e \in Calls : chunks'[e] <= count'[e]
        <4>1. chunk_count(n, by) \in 0 .. MaxCount
          BY <2>1
        <4>2. /\ count' \in [Calls -> 0 .. MaxCount]
              /\ chunks' \in [Calls -> 0 .. MaxCount]
          BY <2>1, <2>2, <4>1 DEF TypeOK
        <4>3. \A e \in Calls : chunks'[e] <= count'[e]
          BY <2>1, <2>2 DEF TypeOK
        <4> QED
          BY <4>2, <4>3
      <3>2. /\ call' \in [Calls -> {"none", "open", "closed"}]
            /\ caller' \in [Calls -> Bodies \cup {None}]
        BY <2>2 DEF TypeOK
      <3> QED
        BY <2>4, <2>5, <2>6, <2>7, <3>1, <3>2 DEF TypeOK
    <2>9. ActiveOK'
      <3>1. active' # None => call'[active'] = "open" /\ taken' <= chunks'[active']
        BY <2>1, <2>2, <2>4 DEF TypeOK, ActiveOK
      <3>2. ASSUME NEW d \in Bodies, at'[d] \in {"own", "split"}
            PROVE  active' # None /\ caller'[active'] = d
        BY <2>2, <2>4, <2>7, <3>2 DEF TypeOK, ActiveOK
      <3>3. ASSUME NEW d \in Bodies, at'[d] = "inline"
            PROVE  /\ arg'[d][1] # active'
                   /\ call'[arg'[d][1]] = "open" /\ caller'[arg'[d][1]] = d
        <4>1. CASE at[d] = "inline" /\ arg'[d] = arg[d]
          <5>1. /\ arg[d][1] \in Calls /\ arg[d][1] # active
                /\ call[arg[d][1]] = "open" /\ caller[arg[d][1]] = d
            BY <4>1 DEF ArgOK, ActiveOK
          <5> QED
            BY <2>2, <2>4, <4>1, <5>1 DEF TypeOK
        <4>2. CASE ~ (at[d] = "inline" /\ arg'[d] = arg[d])
          BY <2>7, <3>3, <4>2
        <4> QED
          BY <4>1, <4>2
      <3> QED
        BY <3>1, <3>2, <3>3 DEF ActiveOK
    <2> QED
      BY <2>7, <2>8, <2>9
  <1>17. ASSUME NEW b \in Bodies, NEW c \in Calls,
               NEW by \in ByValues, NEW n \in 1 .. MaxCount,
               ParallelInline(b, c, n, by)
        PROVE  TypeInv'
    <2>1. chunk_count(n, by) \in 1 .. n /\ n \in 1 .. MaxCount /\ <<c, 0>> \in Chunks
      BY ChunkCountBounds
    <2>2. /\ count' = [count EXCEPT ![c] = n]
          /\ chunks' = [chunks EXCEPT ![c] = chunk_count(n, by)]
          /\ caller' = [caller EXCEPT ![c] = b]
          /\ call[c] = "none" /\ call' = [call EXCEPT ![c] = "open"]
      BY <1>17 DEF ParallelInline, Opens
    <2>3. Enter(b, "inline", <<c, 0>>)
      BY <1>17 DEF ParallelInline
    <2>4. active # None /\ UNCHANGED activeVars
      BY <1>17 DEF ParallelInline
    <2>5. UNCHANGED <<queueVars, condVars, jobVars>>
      BY <1>17 DEF ParallelInline
    <2>6. started' \in BOOLEAN
          /\ worker' \in [Workers -> {Absent, Loop} \cup Jobs \cup Chunks]
      BY <1>17 DEF ParallelInline, start, TypeOK
    <2>7. /\ at' \in [Bodies -> Phases]
          /\ arg' \in [Bodies -> Jobs \cup Chunks \cup {None}]
          /\ runs' \in [Bodies -> Nat]
          /\ ArgOK'
          /\ \A d \in Bodies : at'[d] \in {"own", "split"} =>
                 (d = b /\ "inline" = "own") \/ at[d] \in {"own", "split"}
          /\ \A d \in Bodies : at'[d] = "inline" =>
                 \/ d = b /\ "inline" = "inline" /\ arg'[d] = <<c, 0>>
                 \/ at[d] = "inline" /\ arg'[d] = arg[d]
      BY <2>1, <2>3, EnterTypes
    <2>8. TypeOK'
      <3>1. /\ count' \in [Calls -> 0 .. MaxCount]
            /\ chunks' \in [Calls -> 0 .. MaxCount]
            /\ \A e \in Calls : chunks'[e] <= count'[e]
        <4>1. chunk_count(n, by) \in 0 .. MaxCount
          BY <2>1
        <4>2. /\ count' \in [Calls -> 0 .. MaxCount]
              /\ chunks' \in [Calls -> 0 .. MaxCount]
          BY <2>1, <2>2, <4>1 DEF TypeOK
        <4>3. \A e \in Calls : chunks'[e] <= count'[e]
          BY <2>1, <2>2 DEF TypeOK
        <4> QED
          BY <4>2, <4>3
      <3>2. /\ call' \in [Calls -> {"none", "open", "closed"}]
            /\ caller' \in [Calls -> Bodies \cup {None}]
        BY <2>2 DEF TypeOK
      <3> QED
        BY <2>4, <2>5, <2>6, <2>7, <3>1, <3>2 DEF TypeOK
    <2>9. ActiveOK'
      <3>1. active' # None => call'[active'] = "open" /\ taken' <= chunks'[active']
        BY <2>1, <2>2, <2>4 DEF TypeOK, ActiveOK
      <3>2. ASSUME NEW d \in Bodies, at'[d] \in {"own", "split"}
            PROVE  active' # None /\ caller'[active'] = d
        BY <2>2, <2>4, <2>7, <3>2 DEF TypeOK, ActiveOK
      <3>3. ASSUME NEW d \in Bodies, at'[d] = "inline"
            PROVE  /\ arg'[d][1] # active'
                   /\ call'[arg'[d][1]] = "open" /\ caller'[arg'[d][1]] = d
        <4>1. CASE at[d] = "inline" /\ arg'[d] = arg[d]
          <5>1. /\ arg[d][1] \in Calls /\ arg[d][1] # active
                /\ call[arg[d][1]] = "open" /\ caller[arg[d][1]] = d
            BY <4>1 DEF ArgOK, ActiveOK
          <5> QED
            BY <2>2, <2>4, <4>1, <5>1 DEF TypeOK
        <4>2. CASE ~ (at[d] = "inline" /\ arg'[d] = arg[d])
          <5>1. d = b /\ arg'[d] = <<c, 0>> /\ c # active
            BY <2>2, <2>4, <2>7, <3>3, <4>2 DEF ActiveOK
          <5> QED
            BY <2>2, <2>4, <5>1 DEF TypeOK
        <4> QED
          BY <4>1, <4>2
      <3> QED
        BY <3>1, <3>2, <3>3 DEF ActiveOK
    <2> QED
      BY <2>7, <2>8, <2>9
  <1>18. ASSUME NEW b \in Bodies, OwnNext(b) PROVE TypeInv'
    <2>1. active \in Calls /\ taken < chunks[active] /\ <<active, taken>> \in Chunks
      BY <1>18 DEF OwnNext, OwnChunkDone, TypeOK, ActiveOK
    <2>2. Enter(b, "own", <<active, taken>>)
      BY <1>18 DEF OwnNext
    <2>3. /\ finished' = finished + 1 /\ taken' = taken + 1
          /\ UNCHANGED <<threadVars, queueVars, active, condVars, jobVars,
                         callVars>>
      BY <1>18 DEF OwnNext
    <2>4. /\ at' \in [Bodies -> Phases]
          /\ arg' \in [Bodies -> Jobs \cup Chunks \cup {None}]
          /\ runs' \in [Bodies -> Nat]
          /\ ArgOK'
          /\ \A d \in Bodies : at'[d] \in {"own", "split"} =>
                 d = b \/ at[d] \in {"own", "split"}
          /\ \A d \in Bodies : at'[d] = "inline" =>
                 at[d] = "inline" /\ arg'[d] = arg[d]
      BY <2>1, <2>2, EnterTypes
    <2>5. TypeOK'
      <3>1. finished' \in Nat /\ taken' \in Nat
        BY <2>3 DEF TypeOK
      <3> QED
        BY <2>3, <2>4, <3>1 DEF TypeOK
    <2>6. at[b] = "own"
      BY <1>18 DEF OwnNext, OwnChunkDone
    <2>7. ActiveOK'
      BY <2>1, <2>3, <2>4, <2>6 DEF TypeOK, ActiveOK
    <2> QED
      BY <2>4, <2>5, <2>7
  <1>19. ASSUME NEW b \in Bodies, OwnWait(b) PROVE TypeInv'
    <2> USE <1>19 DEF OwnWait, OwnChunkDone
    <2>1. TypeOK'
      BY DEF TypeOK, ArgOK, ActiveOK, Phases, Handles, Values
    <2>2. ArgOK'
      BY DEF TypeOK, ArgOK, Phases
    <2>3. ActiveOK'
      BY DEF TypeOK, ArgOK, ActiveOK, Phases
    <2> QED
      BY <2>1, <2>2, <2>3
  <1>20. ASSUME NEW b \in Bodies, OwnClose(b) PROVE TypeInv'
    <2> USE <1>20 DEF OwnClose, OwnChunkDone, EndCall
    <2>1. TypeOK'
      BY DEF TypeOK, ArgOK, ActiveOK, Phases, Handles, Values
    <2>2. ArgOK'
      BY DEF TypeOK, ArgOK, Phases
    <2>3. ActiveOK'
      BY DEF TypeOK, ArgOK, ActiveOK, Phases
    <2> QED
      BY <2>1, <2>2, <2>3
  <1>21. ASSUME NEW b \in Bodies, SplitWait(b) PROVE TypeInv'
    <2> USE <1>21 DEF SplitWait, AtSplit
    <2>1. TypeOK'
      BY DEF TypeOK, ArgOK, ActiveOK, Phases, Handles, Values
    <2>2. ArgOK'
      BY DEF TypeOK, ArgOK, Phases
    <2>3. ActiveOK'
      BY DEF TypeOK, ArgOK, ActiveOK, Phases
    <2> QED
      BY <2>1, <2>2, <2>3
  <1>22. ASSUME NEW b \in Bodies, SplitClose(b) PROVE TypeInv'
    <2> USE <1>22 DEF SplitClose, AtSplit, EndCall
    <2>1. TypeOK'
      BY DEF TypeOK, ArgOK, ActiveOK, Phases, Handles, Values
    <2>2. ArgOK'
      BY DEF TypeOK, ArgOK, Phases
    <2>3. ActiveOK'
      BY DEF TypeOK, ArgOK, ActiveOK, Phases
    <2> QED
      BY <2>1, <2>2, <2>3
  <1>23. ASSUME NEW b \in Bodies, InlineNext(b) PROVE TypeInv'
    <2> DEFINE x == <<arg[b][1], arg[b][2] + 1>>
    <2>1. x \in Chunks
      <3>1. arg[b] \in Chunks /\ arg[b][2] + 1 < chunks[arg[b][1]]
        BY <1>23 DEF InlineNext, InlineChunkDone, ArgOK
      <3>2. arg[b][1] \in Calls /\ arg[b][2] \in Nat
        BY <3>1
      <3>3. chunks[arg[b][1]] \in 0 .. MaxCount
        BY <3>2 DEF TypeOK
      <3> QED
        BY <3>1, <3>2, <3>3
    <2>2. Enter(b, "inline", x)
      BY <1>23 DEF InlineNext
    <2>3. UNCHANGED <<threadVars, queueVars, activeVars, condVars, jobVars,
                      callVars>>
      BY <1>23 DEF InlineNext
    <2> HIDE DEF x
    <2>4. /\ at' \in [Bodies -> Phases]
          /\ arg' \in [Bodies -> Jobs \cup Chunks \cup {None}]
          /\ runs' \in [Bodies -> Nat]
          /\ ArgOK'
          /\ \A d \in Bodies : at'[d] \in {"own", "split"} =>
                 at[d] \in {"own", "split"}
          /\ \A d \in Bodies : at'[d] = "inline" =>
                 at[d] = "inline" /\ arg'[d][1] = arg[d][1]
      <3>1. x[1] = arg[b][1] /\ at[b] = "inline"
        BY <1>23 DEF x, InlineNext, InlineChunkDone
      <3> QED
        BY <2>1, <2>2, <3>1, EnterTypes
    <2>5. TypeOK'
      BY <2>3, <2>4 DEF TypeOK
    <2>6. ActiveOK'
      <3>1. ASSUME NEW d \in Bodies, at'[d] = "inline"
            PROVE  /\ arg'[d][1] # active
                   /\ call[arg'[d][1]] = "open" /\ caller[arg'[d][1]] = d
        BY <2>4, <3>1 DEF ActiveOK
      <3> QED
        BY <2>3, <2>4, <3>1 DEF TypeOK, ActiveOK
    <2> QED
      BY <2>4, <2>5, <2>6
  <1>24. ASSUME NEW b \in Bodies, InlineClose(b) PROVE TypeInv'
    <2> USE <1>24 DEF InlineClose, InlineChunkDone
    <2>1. TypeOK'
      BY DEF TypeOK, ArgOK, ActiveOK, Phases, Handles, Values
    <2>2. ArgOK'
      BY DEF TypeOK, ArgOK, Phases
    <2>3. ActiveOK'
      BY DEF TypeOK, ArgOK, ActiveOK, Phases
    <2> QED
      BY <2>1, <2>2, <2>3
  <1>25. ASSUME NEW w \in Workers, SpuriousReady(w) PROVE TypeInv'
    <2> USE <1>25 DEF SpuriousReady
    <2>1. TypeOK'
      BY DEF TypeOK, ArgOK, ActiveOK, Phases, Handles, Values
    <2>2. ArgOK'
      BY DEF TypeOK, ArgOK, Phases
    <2>3. ActiveOK'
      BY DEF TypeOK, ArgOK, ActiveOK, Phases
    <2> QED
      BY <2>1, <2>2, <2>3
  <1>26. ASSUME NEW b \in Bodies, SpuriousDone(b) PROVE TypeInv'
    <2> USE <1>26 DEF SpuriousDone
    <2>1. TypeOK'
      BY DEF TypeOK, ArgOK, ActiveOK, Phases, Handles, Values
    <2>2. ArgOK'
      BY DEF TypeOK, ArgOK, Phases
    <2>3. ActiveOK'
      BY DEF TypeOK, ArgOK, ActiveOK, Phases
    <2> QED
      BY <2>1, <2>2, <2>3
  <1>27. CASE UNCHANGED vars
    BY <1>27 DEF vars, TypeOK, ArgOK, ActiveOK, Phases, Handles, Values
  <1> QED
    BY <1>1, <1>2, <1>3, <1>4, <1>5, <1>6, <1>7, <1>8, <1>9, <1>10, <1>11,
       <1>12, <1>13, <1>14, <1>15, <1>16, <1>17, <1>18, <1>19, <1>20, <1>21,
       <1>22, <1>23, <1>24, <1>25, <1>26, <1>27
       DEF Next, WorkerStep, ProgramStep, RuntimeStep, Spurious

\* Type correctness of the pool: every variable keeps its type and no
\* `parallel` ever has more chunks than elements (anti_rt_parallel).
THEOREM TypeCorrect == Spec => []TypeOK
  <1>1. Spec => []TypeInv
    BY TypeInit, TypeStep, PTL DEF Spec
  <1> QED
    BY <1>1, PTL DEF TypeInv

-----------------------------------------------------------------------------
(* The life of a dispatched job.                                           *)

NoTwice(list) ==
    \A i, k \in DOMAIN list : list[i] = list[k] => i = k

Members(list) == {list[i] : i \in DOMAIN list}

\* The list of queued jobs holds no job twice and ends at queued_last.
QueueOK == NoTwice(queued) /\ QueueEndsAtLast

\* A job in flight is live and not done, no two have one object, and every
\* job whose worker runs is in flight.
FlightOK ==
    /\ \A j \in in_flight : handle[j] = "live" /\ done[j] = 0
    /\ \A j, k \in in_flight : object[j] = object[k] => j = k
    /\ \A j \in Jobs : at[j] \notin {"idle", "end"} => j \in in_flight

\* The job of a join is live, and the body that joins it holds its handle.
JoinOK ==
    \A b \in Bodies : at[b] \in {"join", "help"} =>
        handle[arg[b]] = "live" /\ owner[arg[b]] = b

\* The job that a thread runs is in flight, has started, and no other
\* thread runs it.
RunnerOK ==
    /\ \A w \in Workers : worker[w] \in Jobs =>
          worker[w] \in in_flight /\ at[worker[w]] # "idle"
    /\ \A w, v \in Workers : worker[w] \in Jobs /\ worker[w] = worker[v] => w = v
    /\ \A b \in Bodies : at[b] = "help" =>
          arg[b] \in in_flight /\ at[arg[b]] # "idle"
    /\ \A b \in Bodies, w \in Workers : at[b] = "help" => worker[w] # arg[b]

\* A worker runs once, and its result is there from its end on.
OnceOK ==
    \A j \in Jobs :
        /\ runs[j] = IF at[j] = "idle" THEN 0 ELSE 1
        /\ at[j] = "end" => result[j] = "value"
        /\ done[j] = 1 => at[j] = "end"
        /\ handle[j] \in {"none", "null"} => at[j] = "idle"

\* What a join has written.
AnswerOK ==
    \A j \in Jobs :
        /\ answer[j] # "unset"
        /\ answer[j] = "value" => at[j] = "end"
        /\ answer[j] = "zero" => handle[j] = "null"
        /\ handle[j] = "ended" => answer[j] = "value"

JobInv ==
    /\ TypeInv
    /\ QueueOK
    /\ QueuedIsWaiting
    /\ FlightOK
    /\ JoinOK
    /\ RunnerOK
    /\ OnceOK
    /\ AnswerOK

-----------------------------------------------------------------------------
(* The list operations of the pool, under QueueOK.                         *)

\* A worker takes the first job.
LEMMA TailFacts ==
    ASSUME NEW list \in Seq(Jobs), list # <<>>, NoTwice(list)
    PROVE  /\ Head(list) \in Members(list)
           /\ Members(Tail(list)) = Members(list) \ {Head(list)}
           /\ NoTwice(Tail(list))
           /\ Tail(list) # <<>> => LastOf(Tail(list)) = LastOf(list)
  <1>1. /\ Len(list) \in Nat /\ Len(list) > 0 /\ DOMAIN list = 1 .. Len(list)
        /\ Head(list) = list[1]
        /\ Tail(list) \in Seq(Jobs) /\ Len(Tail(list)) = Len(list) - 1
        /\ DOMAIN Tail(list) = 1 .. Len(list) - 1
        /\ \A i \in 1 .. Len(list) - 1 : Tail(list)[i] = list[i + 1]
    OBVIOUS
  <1>2. Head(list) \in Members(list)
    BY <1>1 DEF Members
  <1>3. Members(Tail(list)) \subseteq Members(list) \ {Head(list)}
    BY <1>1 DEF Members, NoTwice
  <1>4. ASSUME NEW j \in Members(list) \ {Head(list)}
        PROVE  j \in Members(Tail(list))
    <2>1. PICK i \in DOMAIN list : list[i] = j
      BY DEF Members
    <2>2. i - 1 \in 1 .. Len(list) - 1 /\ Tail(list)[i - 1] = j
      BY <1>1, <2>1
    <2> QED
      BY <1>1, <2>2 DEF Members
  <1>5. NoTwice(Tail(list))
    BY <1>1 DEF NoTwice
  <1>6. Tail(list) # <<>> => LastOf(Tail(list)) = LastOf(list)
    BY <1>1 DEF LastOf
  <1> QED
    BY <1>2, <1>3, <1>4, <1>5, <1>6

\* A dispatch appends.
LEMMA LinkAppends ==
    ASSUME queued \in Seq(Jobs), QueueOK, NEW job \in Jobs, job \notin Queued,
           None \notin Jobs
    PROVE  /\ Members(Link(job)) = Queued \cup {job}
           /\ NoTwice(Link(job))
           /\ LastOf(Link(job)) = job
  <1>1. Link(job) = Append(queued, job)
    <2>1. CASE queued = <<>>
      BY <2>1 DEF QueueOK, QueueEndsAtLast, LastOf, Link
    <2>2. CASE queued # <<>>
      <3>1. Len(queued) \in DOMAIN queued /\ queued_last = queued[Len(queued)]
        BY <2>2 DEF QueueOK, QueueEndsAtLast, LastOf
      <3>2. queued_last \in Queued /\ queued_last # None
        BY <3>1 DEF Queued
      <3>3. Position(queued_last) = Len(queued)
        BY <3>1, <3>2, PositionFinds DEF QueueOK, NoTwice
      <3>4. SubSeq(queued, 1, Len(queued)) = queued
        OBVIOUS
      <3> QED
        BY <3>2, <3>3, <3>4 DEF Link
    <2> QED
      BY <2>1, <2>2
  <1>2. /\ Len(queued) \in Nat /\ DOMAIN queued = 1 .. Len(queued)
        /\ DOMAIN Append(queued, job) = 1 .. Len(queued) + 1
        /\ \A i \in 1 .. Len(queued) : Append(queued, job)[i] = queued[i]
        /\ Append(queued, job)[Len(queued) + 1] = job
    OBVIOUS
  <1>3. Members(Append(queued, job)) = Queued \cup {job}
    BY <1>2 DEF Members, Queued
  <1>4. NoTwice(Append(queued, job))
    BY <1>2 DEF NoTwice, Queued, QueueOK
  <1>5. LastOf(Append(queued, job)) = job
    BY DEF LastOf
  <1> QED
    BY <1>1, <1>3, <1>4, <1>5

\* A join that takes its job removes it, and finds the new end.
LEMMA UnlinkRemoves ==
    ASSUME queued \in Seq(Jobs), QueueOK, NEW job \in Queued
    PROVE  /\ Members(Unlink(job)) = Queued \ {job}
           /\ NoTwice(Unlink(job))
           /\ queued_last # job => LastOf(Unlink(job)) = queued_last
  <1> DEFINE p == Position(job)
  <1>1. /\ Len(queued) \in Nat /\ DOMAIN queued = 1 .. Len(queued)
        /\ p \in 1 .. Len(queued) /\ queued[p] = job
    BY PositionFinds
  <1>2. /\ Unlink(job) \in Seq(Jobs) /\ DOMAIN Unlink(job) = 1 .. Len(queued) - 1
        /\ Len(Unlink(job)) = Len(queued) - 1
        /\ \A i \in 1 .. Len(queued) - 1 :
              Unlink(job)[i] = IF i < p THEN queued[i] ELSE queued[i + 1]
    BY UnlinkType
  <1>3. \A i, k \in 1 .. Len(queued) : queued[i] = queued[k] => i = k
    BY <1>1 DEF QueueOK, NoTwice
  <1> HIDE DEF p
  <1>4. ASSUME NEW j \in Members(Unlink(job)) PROVE j \in Queued \ {job}
    <2>1. PICK i \in 1 .. Len(queued) - 1 : Unlink(job)[i] = j
      BY <1>2 DEF Members
    <2>2. CASE i < p
      BY <1>1, <1>2, <1>3, <2>1, <2>2 DEF Queued
    <2>3. CASE ~ (i < p)
      BY <1>1, <1>2, <1>3, <2>1, <2>3 DEF Queued
    <2> QED
      BY <2>2, <2>3
  <1>5. ASSUME NEW j \in Queued \ {job} PROVE j \in Members(Unlink(job))
    <2>1. PICK i \in 1 .. Len(queued) : queued[i] = j
      BY <1>1 DEF Queued
    <2>2. CASE i < p
      <3>1. i \in 1 .. Len(queued) - 1 /\ Unlink(job)[i] = j
        BY <1>1, <1>2, <2>1, <2>2
      <3> QED
        BY <1>2, <3>1 DEF Members
    <2>3. CASE ~ (i < p)
      <3>1. i - 1 \in 1 .. Len(queued) - 1 /\ Unlink(job)[i - 1] = j
        BY <1>1, <1>2, <2>1, <2>3
      <3> QED
        BY <1>2, <3>1 DEF Members
    <2> QED
      BY <2>2, <2>3
  <1>6. NoTwice(Unlink(job))
    <2> SUFFICES ASSUME NEW i \in 1 .. Len(queued) - 1,
                        NEW k \in 1 .. Len(queued) - 1,
                        Unlink(job)[i] = Unlink(job)[k]
                 PROVE  i = k
      BY <1>2 DEF NoTwice
    <2>1. CASE i < p /\ k < p
      BY <1>1, <1>2, <1>3, <2>1
    <2>2. CASE i < p /\ ~ (k < p)
      BY <1>1, <1>2, <1>3, <2>2
    <2>3. CASE ~ (i < p) /\ k < p
      BY <1>1, <1>2, <1>3, <2>3
    <2>4. CASE ~ (i < p) /\ ~ (k < p)
      BY <1>1, <1>2, <1>3, <2>4
    <2> QED
      BY <2>1, <2>2, <2>3, <2>4
  <1>7. ASSUME queued_last # job PROVE LastOf(Unlink(job)) = queued_last
    <2>1. queued_last = queued[Len(queued)]
      BY <1>1 DEF QueueOK, QueueEndsAtLast, LastOf
    <2>2. p < Len(queued)
      BY <1>1, <1>7, <2>1
    <2>3. Unlink(job)[Len(queued) - 1] = queued[Len(queued)] /\ Unlink(job) # <<>>
      BY <1>1, <1>2, <2>2
    <2> QED
      BY <1>2, <2>1, <2>3 DEF LastOf
  <1> QED
    BY <1>4, <1>5, <1>6, <1>7

-----------------------------------------------------------------------------
(* Initial states.                                                         *)

LEMMA JobInit == Init => JobInv
  <1> SUFFICES ASSUME Init PROVE JobInv
    OBVIOUS
  <1>1. TypeInv
    BY TypeInit
  <1>2. Queued = {} /\ QueueOK
    BY DEF Init, Queued, QueueOK, NoTwice, QueueEndsAtLast, LastOf
  <1>3. \A b \in Bodies : at[b] \in {"run", "idle"}
    BY DEF Init
  <1>4. \A j \in Jobs : at[j] = "idle" /\ runs[j] = 0
    BY PoolAssumption, BodyFacts DEF Init
  <1>5. QueuedIsWaiting /\ FlightOK /\ JoinOK
    BY <1>2, <1>3, <1>4 DEF Init, QueuedIsWaiting, FlightOK, JoinOK
  <1>6. RunnerOK
    <2>1. \A w \in Workers : worker[w] \notin Jobs
      BY PoolAssumption, BodyFacts DEF Init
    <2> QED
      BY <1>3, <2>1 DEF RunnerOK
  <1>7. OnceOK /\ AnswerOK
    BY <1>4 DEF Init, OnceOK, AnswerOK
  <1> QED
    BY <1>1, <1>2, <1>5, <1>6, <1>7 DEF JobInv

-----------------------------------------------------------------------------
(* Steps that concern no job: those of `parallel`, of pool threads that    *)
(* take chunks or wait, and wake-ups.                                      *)

Quiet ==
    /\ UNCHANGED <<queueVars, jobVars>>
    /\ \A w \in Workers : worker'[w] \in Jobs => worker'[w] = worker[w]
    /\ \A j \in Jobs :
          /\ runs'[j] = runs[j]
          /\ \/ at'[j] = at[j]
             \/ at[j] \notin {"idle", "end"} /\ at'[j] \notin {"idle", "end"}
    /\ \A b \in Bodies : at'[b] \in {"join", "help"} =>
          at'[b] = at[b] /\ arg'[b] = arg[b]

LEMMA QuietStep == JobInv /\ TypeInv' /\ Quiet => JobInv'
  <1> SUFFICES ASSUME JobInv, TypeInv', Quiet PROVE JobInv'
    OBVIOUS
  <1> USE DEF Quiet, JobInv, queueVars, jobVars
  <1>1. QueueOK' /\ Queued' = Queued
    BY DEF QueueOK, NoTwice, QueueEndsAtLast, LastOf, Queued
  <1>2. in_flight \subseteq Jobs /\ Queued \subseteq Jobs
    BY DEF TypeInv, TypeOK, Queued
  <1>3. QueuedIsWaiting'
    BY <1>1, <1>2 DEF QueuedIsWaiting
  <1>4. FlightOK'
    BY <1>2 DEF FlightOK
  <1>5. \A b \in Bodies : at[b] \in {"join", "help"} => arg[b] \in Jobs
    BY DEF TypeInv, ArgOK
  <1>6. JoinOK'
    BY DEF JoinOK
  <1>7. RunnerOK'
    BY <1>5 DEF RunnerOK
  <1>8. OnceOK'
    BY DEF OnceOK
  <1>9. AnswerOK'
    BY DEF AnswerOK
  <1> QED
    BY <1>1, <1>3, <1>4, <1>6, <1>7, <1>8, <1>9

\* Entering a chunk moves no job and no join.
LEMMA EnterQuiet ==
    ASSUME TypeInv, NEW b \in Bodies, at[b] \in {"run", "own", "inline"},
           NEW phase \in {"own", "inline"}, NEW x \in Chunks, Enter(b, phase, x)
    PROVE  /\ \A j \in Jobs :
                 /\ runs'[j] = runs[j]
                 /\ \/ at'[j] = at[j]
                    \/ /\ at[j] \notin {"idle", "end"}
                       /\ at'[j] \notin {"idle", "end"}
           /\ \A d \in Bodies : at'[d] \in {"join", "help"} =>
                 at'[d] = at[d] /\ arg'[d] = arg[d]
  <1>1. x \in Bodies /\ x \notin Jobs /\ Jobs \subseteq Bodies
    BY PoolAssumption, BodyFacts
  <1>2. /\ at' = [at EXCEPT ![b] = phase, ![x] = "run"]
        /\ arg' = [arg EXCEPT ![b] = x]
        /\ runs' = [runs EXCEPT ![x] = @ + 1]
    BY DEF Enter, begin
  <1>3. at \in [Bodies -> Phases] /\ arg \in [Bodies -> Jobs \cup Chunks \cup {None}]
        /\ runs \in [Bodies -> Nat]
    BY DEF TypeInv, TypeOK
  <1> QED
    BY <1>1, <1>2, <1>3

\* Building the pool starts threads that run no job.
LEMMA StartQuiet ==
    ASSUME TypeInv, start
    PROVE  \A w \in Workers : worker'[w] \in Jobs => worker'[w] = worker[w]
  <1>1. Absent \notin Jobs /\ Loop \notin Jobs
    BY PoolAssumption, BodyFacts
  <1> QED
    BY <1>1 DEF start, TypeInv, TypeOK

LEMMA ParallelSteps ==
    ASSUME TypeInv, NEW b \in Bodies
    PROVE  /\ \A c \in Calls, by \in ByValues : ParallelEmpty(b, c, by) => Quiet
           /\ \A c \in Calls, by \in ByValues, n \in 1 .. MaxCount :
                 ParallelPooled(b, c, n, by) \/ ParallelInline(b, c, n, by)
                   => Quiet
           /\ OwnNext(b) \/ OwnWait(b) \/ OwnClose(b) => Quiet
           /\ SplitWait(b) \/ SplitClose(b) => Quiet
           /\ InlineNext(b) \/ InlineClose(b) => Quiet
  <1> USE DEF threadVars, bodyVars
  <1>1. ASSUME NEW c \in Calls, NEW by \in ByValues, ParallelEmpty(b, c, by)
        PROVE  Quiet
    BY <1>1 DEF ParallelEmpty, Quiet
  <1>2. ASSUME NEW c \in Calls, NEW by \in ByValues, NEW n \in 1 .. MaxCount,
               ParallelPooled(b, c, n, by)
        PROVE  Quiet
    <2>1. /\ at[b] = "run" /\ Enter(b, "own", <<c, 0>>) /\ start
          /\ UNCHANGED <<queueVars, jobVars>>
      BY <1>2 DEF ParallelPooled, Opens, CallsRuntime
    <2>2. <<c, 0>> \in Chunks
      BY BodyFacts
    <2> QED
      BY <2>1, <2>2, EnterQuiet, StartQuiet DEF Quiet
  <1>3. ASSUME NEW c \in Calls, NEW by \in ByValues, NEW n \in 1 .. MaxCount,
               ParallelInline(b, c, n, by)
        PROVE  Quiet
    <2>1. /\ at[b] = "run" /\ Enter(b, "inline", <<c, 0>>) /\ start
          /\ UNCHANGED <<queueVars, jobVars>>
      BY <1>3 DEF ParallelInline, Opens, CallsRuntime
    <2>2. <<c, 0>> \in Chunks
      BY BodyFacts
    <2> QED
      BY <2>1, <2>2, EnterQuiet, StartQuiet DEF Quiet
  <1>4. ASSUME OwnNext(b) PROVE Quiet
    <2>1. <<active, taken>> \in Chunks
      BY <1>4, BodyFacts DEF OwnNext, OwnChunkDone, TypeInv, TypeOK, ActiveOK
    <2>2. /\ at[b] = "own" /\ Enter(b, "own", <<active, taken>>)
          /\ UNCHANGED <<threadVars, queueVars, jobVars>>
      BY <1>4 DEF OwnNext, OwnChunkDone
    <2> QED
      BY <2>1, <2>2, EnterQuiet DEF Quiet
  <1>5. at \in [Bodies -> Phases] /\ Jobs \subseteq Bodies
    BY BodyFacts DEF TypeInv, TypeOK
  <1>6. ASSUME OwnWait(b) PROVE Quiet
    BY <1>5, <1>6 DEF OwnWait, OwnChunkDone, Quiet
  <1>7. ASSUME OwnClose(b) PROVE Quiet
    BY <1>5, <1>7 DEF OwnClose, OwnChunkDone, EndCall, Quiet
  <1>8. ASSUME SplitWait(b) PROVE Quiet
    BY <1>8 DEF SplitWait, Quiet
  <1>9. ASSUME SplitClose(b) PROVE Quiet
    BY <1>5, <1>9 DEF SplitClose, AtSplit, EndCall, Quiet
  <1>10. ASSUME InlineNext(b) PROVE Quiet
    <2> DEFINE x == <<arg[b][1], arg[b][2] + 1>>
    <2>1. /\ at[b] = "inline" /\ arg[b] \in Chunks
          /\ arg[b][2] + 1 < chunks[arg[b][1]]
      BY <1>10 DEF InlineNext, InlineChunkDone, TypeInv, ArgOK
    <2>2. arg[b][1] \in Calls /\ arg[b][2] \in Nat /\ MaxCount \in Nat
      BY <2>1, BodyFacts
    <2>3. chunks[arg[b][1]] \in 0 .. MaxCount
      BY <2>2 DEF TypeInv, TypeOK
    <2>4. x \in Chunks
      BY <2>1, <2>2, <2>3, BodyFacts
    <2>5. Enter(b, "inline", x) /\ UNCHANGED <<threadVars, queueVars, jobVars>>
      BY <1>10 DEF InlineNext
    <2> HIDE DEF x
    <2> QED
      BY <2>1, <2>4, <2>5, EnterQuiet DEF Quiet
  <1>11. ASSUME InlineClose(b) PROVE Quiet
    BY <1>5, <1>11 DEF InlineClose, InlineChunkDone, Quiet
  <1> QED
    BY <1>1, <1>2, <1>3, <1>4, <1>6, <1>7, <1>8, <1>9, <1>10, <1>11

LEMMA ThreadSteps ==
    ASSUME TypeInv
    PROVE  /\ \A w \in Workers :
                 TakeChunk(w) \/ WaitReady(w) \/ EndChunk(w) \/ SpuriousReady(w)
                   => Quiet
           /\ \A b \in Bodies : JoinWait(b) \/ SpuriousDone(b) => Quiet
           /\ UNCHANGED vars => Quiet
  <1> USE DEF threadVars, bodyVars
  <1>1. ASSUME NEW w \in Workers, TakeChunk(w) PROVE Quiet
    <2> DEFINE x == <<active, taken>>
    <2>1. x \in Chunks
      BY <1>1, BodyFacts DEF TakeChunk, ChunkLeft, TypeInv, TypeOK, ActiveOK
    <2>2. x \in Bodies /\ x \notin Jobs /\ Jobs \subseteq Bodies
      BY <2>1, BodyFacts, PoolAssumption
    <2>3. /\ worker' = [worker EXCEPT ![w] = x]
          /\ at' = [at EXCEPT ![x] = "run"]
          /\ runs' = [runs EXCEPT ![x] = @ + 1]
          /\ UNCHANGED <<arg, queueVars, jobVars>>
      BY <1>1 DEF TakeChunk, begin
    <2> HIDE DEF x
    <2> QED
      BY <2>2, <2>3 DEF Quiet, TypeInv, TypeOK
  <1>2. ASSUME NEW w \in Workers, WaitReady(w) PROVE Quiet
    BY <1>2 DEF WaitReady, Quiet
  <1>3. ASSUME NEW w \in Workers, EndChunk(w) PROVE Quiet
    <2>1. Loop \notin Jobs
      BY PoolAssumption, BodyFacts
    <2> QED
      BY <1>3, <2>1 DEF EndChunk, Quiet, TypeInv, TypeOK
  <1>4. ASSUME NEW w \in Workers, SpuriousReady(w) PROVE Quiet
    BY <1>4 DEF SpuriousReady, Quiet
  <1>5. ASSUME NEW b \in Bodies, JoinWait(b) PROVE Quiet
    BY <1>5 DEF JoinWait, Quiet
  <1>6. ASSUME NEW b \in Bodies, SpuriousDone(b) PROVE Quiet
    BY <1>6 DEF SpuriousDone, Quiet
  <1>7. ASSUME UNCHANGED vars PROVE Quiet
    BY <1>7 DEF vars, Quiet
  <1> QED
    BY <1>1, <1>2, <1>3, <1>4, <1>5, <1>6, <1>7

-----------------------------------------------------------------------------
(* Steps that concern a job, one lemma each.                               *)

LEMMA JobFacts ==
    ASSUME JobInv
    PROVE  /\ Jobs \subseteq Bodies /\ in_flight \subseteq Jobs
           /\ Queued \subseteq Jobs /\ Queued = Members(queued)
           /\ None \notin Jobs /\ Loop \notin Jobs /\ Absent \notin Jobs
           /\ \A b \in Bodies : at[b] \in {"join", "help"} => arg[b] \in Jobs
  BY PoolAssumption, BodyFacts
  DEF JobInv, TypeInv, TypeOK, ArgOK, Queued, Members

\* worker_main takes the first job of the list.
LEMMA TakeJobStep ==
    ASSUME JobInv, TypeInv', NEW w \in Workers, TakeJob(w)
    PROVE  JobInv'
  <1> DEFINE job == Head(queued)
  <1> USE JobFacts DEF JobInv
  <1>1. /\ worker[w] = Loop /\ queued # <<>>
        /\ queued' = Tail(queued)
        /\ queued_last' = IF Tail(queued) = <<>> THEN None ELSE queued_last
        /\ worker' = [worker EXCEPT ![w] = job]
        /\ at' = [at EXCEPT ![job] = "run"]
        /\ runs' = [runs EXCEPT ![job] = @ + 1]
        /\ UNCHANGED <<arg, in_flight, jobVars>>
    BY DEF TakeJob, Awake, begin
  <1>2. queued \in Seq(Jobs) /\ NoTwice(queued) /\ QueueEndsAtLast
    BY DEF TypeInv, TypeOK, QueueOK
  <1>3. /\ job \in Queued /\ Queued' = Queued \ {job} /\ NoTwice(queued')
        /\ Tail(queued) # <<>> => LastOf(Tail(queued)) = LastOf(queued)
    BY <1>1, <1>2, TailFacts DEF Members, Queued
  <1>4. QueueOK'
    BY <1>1, <1>2, <1>3 DEF QueueOK, NoTwice, QueueEndsAtLast, LastOf
  <1>5. job \in Jobs /\ job \in Bodies /\ job \in in_flight /\ at[job] = "idle"
        /\ runs[job] = 0 /\ handle[job] = "live" /\ done[job] = 0
    BY <1>3 DEF QueuedIsWaiting, FlightOK
  <1> HIDE DEF job
  <1> USE DEF TypeInv, TypeOK, jobVars
  <1>6. QueuedIsWaiting'
    BY <1>1, <1>3, <1>5 DEF QueuedIsWaiting
  <1>7. FlightOK'
    BY <1>1, <1>5 DEF FlightOK
  <1>8. JoinOK'
    BY <1>1, <1>5 DEF JoinOK
  <1>9. RunnerOK'
    BY <1>1, <1>5 DEF RunnerOK
  <1>10. OnceOK' /\ AnswerOK'
    BY <1>1, <1>5 DEF OnceOK, AnswerOK
  <1> QED
    BY <1>4, <1>6, <1>7, <1>8, <1>9, <1>10

\* worker_main finishes the job that has returned.
LEMMA EndJobStep ==
    ASSUME JobInv, TypeInv', NEW w \in Workers, EndJob(w)
    PROVE  JobInv'
  <1> DEFINE job == worker[w]
  <1> USE JobFacts DEF JobInv
  <1>1. /\ job \in Jobs /\ at[job] = "end"
        /\ in_flight' = in_flight \ {job}
        /\ done' = [done EXCEPT ![job] = 1]
        /\ worker' = [worker EXCEPT ![w] = Loop]
        /\ UNCHANGED <<at, arg, runs, queued, queued_last, handle, owner, object,
                       result, answer>>
    BY DEF EndJob, finish_one, bodyVars
  <1>2. job \in in_flight
    BY <1>1 DEF RunnerOK
  <1>3. QueueOK' /\ Queued' = Queued
    BY <1>1 DEF QueueOK, NoTwice, QueueEndsAtLast, LastOf, Queued
  <1>4. \A v \in Workers : v # w /\ worker[v] \in Jobs => worker[v] # job
    BY <1>1 DEF RunnerOK
  <1>5. \A b \in Bodies : at[b] = "help" => arg[b] # job
    BY <1>1 DEF RunnerOK
  <1> HIDE DEF job
  <1> USE DEF TypeInv, TypeOK
  <1>6. QueuedIsWaiting'
    BY <1>1, <1>3 DEF QueuedIsWaiting
  <1>7. FlightOK'
    BY <1>1 DEF FlightOK
  <1>8. JoinOK'
    BY <1>1 DEF JoinOK
  <1>9. RunnerOK'
    BY <1>1, <1>4, <1>5 DEF RunnerOK
  <1>10. OnceOK' /\ AnswerOK'
    BY <1>1 DEF OnceOK, AnswerOK
  <1> QED
    BY <1>3, <1>6, <1>7, <1>8, <1>9, <1>10

\* Program code returns.
LEMMA ReturnStep ==
    ASSUME JobInv, TypeInv', NEW b \in Bodies, Return(b)
    PROVE  JobInv'
  <1> USE JobFacts DEF JobInv
  <1>1. /\ at[b] = "run" /\ at' = [at EXCEPT ![b] = "end"]
        /\ result' = IF b \in Jobs THEN [result EXCEPT ![b] = "value"] ELSE result
        /\ UNCHANGED <<worker, arg, runs, queueVars, handle, owner, object, done,
                       answer>>
    BY DEF Return, threadVars
  <1>2. QueueOK' /\ Queued' = Queued
    BY <1>1 DEF QueueOK, NoTwice, QueueEndsAtLast, LastOf, Queued, queueVars
  <1> USE DEF TypeInv, TypeOK, queueVars
  <1>3. QueuedIsWaiting'
    BY <1>1, <1>2 DEF QueuedIsWaiting
  <1>4. FlightOK' /\ JoinOK'
    BY <1>1 DEF FlightOK, JoinOK
  <1>5. RunnerOK'
    BY <1>1 DEF RunnerOK
  <1>6. OnceOK' /\ AnswerOK'
    BY <1>1 DEF OnceOK, AnswerOK
  <1> QED
    BY <1>2, <1>3, <1>4, <1>5, <1>6

\* anti_rt_dispatch of an object that nobody holds.
LEMMA DispatchStep ==
    ASSUME JobInv, TypeInv', NEW b \in Bodies, NEW j \in Jobs, NEW o \in Objects,
           Dispatch(b, j, o)
    PROVE  JobInv'
  <1> USE JobFacts DEF JobInv
  <1>1. /\ handle[j] = "none" /\ start /\ ~ InFlight(o)
        /\ handle' = [handle EXCEPT ![j] = "live"]
        /\ owner' = [owner EXCEPT ![j] = b]
        /\ object' = [object EXCEPT ![j] = o]
        /\ in_flight' = in_flight \cup {j}
        /\ queued' = Link(j) /\ queued_last' = j
        /\ UNCHANGED <<at, arg, runs, done, result, answer>>
    BY DEF Dispatch, bodyVars
  <1>2. at[j] = "idle" /\ runs[j] = 0 /\ done[j] = 0 /\ j \notin in_flight
    BY <1>1 DEF OnceOK, FlightOK, TypeInv, TypeOK
  <1>3. j \notin Queued
    BY <1>2 DEF QueuedIsWaiting
  <1>4. /\ Members(Link(j)) = Queued \cup {j} /\ NoTwice(Link(j))
        /\ LastOf(Link(j)) = j
    BY <1>3, LinkAppends DEF TypeInv, TypeOK
  <1>5. QueueOK' /\ Queued' = Queued \cup {j}
    <2>1. NoTwice(queued)' /\ QueueEndsAtLast'
      BY <1>1, <1>4 DEF NoTwice, QueueEndsAtLast, LastOf
    <2>2. Queued' = Members(Link(j))
      BY <1>1 DEF Queued, Members
    <2> QED
      BY <1>4, <2>1, <2>2 DEF QueueOK
  <1>6. \A w \in Workers : worker'[w] \in Jobs => worker'[w] = worker[w]
    BY <1>1, StartQuiet
  <1>7. \A k \in in_flight : object[k] # o
    BY <1>1 DEF InFlight
  <1> USE DEF TypeInv, TypeOK
  <1>8. QueuedIsWaiting'
    BY <1>1, <1>2, <1>5 DEF QueuedIsWaiting
  <1>9. FlightOK'
    <2>1. \A k \in in_flight' : handle'[k] = "live" /\ done'[k] = 0
      BY <1>1, <1>2 DEF FlightOK
    <2>2. \A k, m \in in_flight' : object'[k] = object'[m] => k = m
      BY <1>1, <1>2, <1>7 DEF FlightOK
    <2>3. \A k \in Jobs : at'[k] \notin {"idle", "end"} => k \in in_flight'
      BY <1>1 DEF FlightOK
    <2> QED
      BY <2>1, <2>2, <2>3 DEF FlightOK
  <1>10. JoinOK'
    BY <1>1 DEF JoinOK
  <1>11. RunnerOK'
    BY <1>1, <1>2, <1>6 DEF RunnerOK
  <1>12. OnceOK' /\ AnswerOK'
    BY <1>1, <1>2 DEF OnceOK, AnswerOK
  <1> QED
    BY <1>5, <1>8, <1>9, <1>10, <1>11, <1>12

\* anti_rt_dispatch of an object in flight.
LEMMA RefusedStep ==
    ASSUME JobInv, TypeInv', NEW b \in Bodies, NEW j \in Jobs, NEW o \in Objects,
           DispatchRefused(b, j, o)
    PROVE  JobInv'
  <1> USE JobFacts DEF JobInv
  <1>1. /\ handle[j] = "none" /\ start
        /\ handle' = [handle EXCEPT ![j] = "null"]
        /\ owner' = [owner EXCEPT ![j] = b]
        /\ UNCHANGED <<at, arg, runs, queueVars, object, done, result, answer>>
    BY DEF DispatchRefused, bodyVars
  <1>2. at[j] = "idle" /\ j \notin in_flight /\ answer[j] \notin {"value"}
    BY <1>1 DEF OnceOK, FlightOK, AnswerOK
  <1>3. QueueOK' /\ Queued' = Queued /\ j \notin Queued
    BY <1>1, <1>2 DEF QueueOK, NoTwice, QueueEndsAtLast, LastOf, Queued, queueVars,
       QueuedIsWaiting
  <1>4. \A w \in Workers : worker'[w] \in Jobs => worker'[w] = worker[w]
    BY <1>1, StartQuiet
  <1> USE DEF TypeInv, TypeOK, queueVars
  <1>5. QueuedIsWaiting'
    BY <1>1, <1>3 DEF QueuedIsWaiting
  <1>6. FlightOK'
    BY <1>1, <1>2 DEF FlightOK
  <1>7. JoinOK'
    BY <1>1 DEF JoinOK
  <1>8. RunnerOK'
    BY <1>1, <1>4 DEF RunnerOK
  <1>9. OnceOK' /\ AnswerOK'
    BY <1>1, <1>2 DEF OnceOK, AnswerOK
  <1> QED
    BY <1>3, <1>5, <1>6, <1>7, <1>8, <1>9

\* anti_rt_join of a null handle.
LEMMA JoinNullStep ==
    ASSUME JobInv, TypeInv', NEW b \in Bodies, NEW j \in Jobs, JoinNull(b, j)
    PROVE  JobInv'
  <1> USE JobFacts DEF JobInv
  <1>1. /\ handle[j] = "null" /\ answer' = [answer EXCEPT ![j] = "zero"]
        /\ UNCHANGED <<worker, at, arg, runs, queueVars, handle, owner, object,
                       done, result>>
    BY DEF JoinNull, bodyVars, threadVars
  <1>2. QueueOK' /\ Queued' = Queued
    BY <1>1 DEF QueueOK, NoTwice, QueueEndsAtLast, LastOf, Queued, queueVars
  <1> USE DEF TypeInv, TypeOK, queueVars
  <1>3. FlightOK'
    BY <1>1 DEF FlightOK
  <1>6. QueuedIsWaiting'
    BY <1>1, <1>2 DEF QueuedIsWaiting
  <1>7. JoinOK'
    BY <1>1 DEF JoinOK
  <1>4. RunnerOK'
    BY <1>1 DEF RunnerOK
  <1>5. OnceOK' /\ AnswerOK'
    BY <1>1 DEF OnceOK, AnswerOK
  <1> QED
    BY <1>2, <1>3, <1>4, <1>5, <1>6, <1>7

\* anti_rt_join of a live handle reaches its loop.
LEMMA JoinStep ==
    ASSUME JobInv, TypeInv', NEW b \in Bodies, NEW j \in Jobs, Join(b, j)
    PROVE  JobInv'
  <1> USE JobFacts DEF JobInv
  <1>1. /\ at[b] = "run" /\ handle[j] = "live" /\ owner[j] = b
        /\ at' = [at EXCEPT ![b] = "join"] /\ arg' = [arg EXCEPT ![b] = j]
        /\ UNCHANGED <<worker, runs, queueVars, jobVars>>
    BY DEF Join, CallsRuntime, threadVars
  <1>2. QueueOK' /\ Queued' = Queued
    BY <1>1 DEF QueueOK, NoTwice, QueueEndsAtLast, LastOf, Queued, queueVars
  <1> USE DEF TypeInv, TypeOK, queueVars, jobVars
  <1>3. FlightOK'
    <2>1. \A k \in in_flight' : handle'[k] = "live" /\ done'[k] = 0
      BY <1>1 DEF FlightOK
    <2>2. \A k, m \in in_flight' : object'[k] = object'[m] => k = m
      BY <1>1 DEF FlightOK
    <2>3. \A k \in Jobs : at'[k] \notin {"idle", "end"} => k \in in_flight'
      BY <1>1 DEF FlightOK
    <2> QED
      BY <2>1, <2>2, <2>3 DEF FlightOK
  <1>6. QueuedIsWaiting'
    BY <1>1, <1>2 DEF QueuedIsWaiting
  <1>7. JoinOK'
    BY <1>1 DEF JoinOK
  <1>4. RunnerOK'
    BY <1>1 DEF RunnerOK
  <1>5. OnceOK' /\ AnswerOK'
    BY <1>1 DEF OnceOK, AnswerOK
  <1> QED
    BY <1>2, <1>3, <1>4, <1>5, <1>6, <1>7

\* anti_rt_join finds the job done and frees it.
LEMMA JoinDoneStep ==
    ASSUME JobInv, TypeInv', NEW b \in Bodies, JoinDone(b)
    PROVE  JobInv'
  <1> DEFINE job == arg[b]
  <1> USE JobFacts DEF JobInv
  <1>1. /\ at[b] = "join" /\ done[job] = 1
        /\ answer' = [answer EXCEPT ![job] = result[job]]
        /\ handle' = [handle EXCEPT ![job] = "ended"]
        /\ at' = [at EXCEPT ![b] = "run"]
        /\ UNCHANGED <<worker, arg, runs, queueVars, owner, object, done, result>>
    BY DEF JoinDone, AtJoin, EndJoin, threadVars
  <1>2. job \in Jobs /\ owner[job] = b
    BY <1>1 DEF JoinOK
  <1>3. at[job] = "end" /\ result[job] = "value" /\ job \notin in_flight
    BY <1>1, <1>2 DEF OnceOK, FlightOK
  <1>4. QueueOK' /\ Queued' = Queued /\ job \notin Queued
    BY <1>1, <1>3 DEF QueueOK, NoTwice, QueueEndsAtLast, LastOf, Queued, queueVars,
       QueuedIsWaiting
  <1>5. \A d \in Bodies : at[d] \in {"join", "help"} /\ arg[d] = job => d = b
    BY <1>2 DEF JoinOK
  <1> HIDE DEF job
  <1> USE DEF TypeInv, TypeOK, queueVars
  <1>6. QueuedIsWaiting'
    BY <1>1, <1>4 DEF QueuedIsWaiting
  <1>7. FlightOK'
    <2>1. \A k \in in_flight' : handle'[k] = "live" /\ done'[k] = 0
      BY <1>1, <1>2, <1>3 DEF FlightOK
    <2>2. \A k, m \in in_flight' : object'[k] = object'[m] => k = m
      BY <1>1, <1>2, <1>3 DEF FlightOK
    <2>3. \A k \in Jobs : at'[k] \notin {"idle", "end"} => k \in in_flight'
      BY <1>1, <1>2, <1>3 DEF FlightOK
    <2> QED
      BY <2>1, <2>2, <2>3 DEF FlightOK
  <1>8. JoinOK'
    BY <1>1, <1>2, <1>5 DEF JoinOK
  <1>9. RunnerOK'
    BY <1>1 DEF RunnerOK
  <1>10. OnceOK' /\ AnswerOK'
    BY <1>1, <1>2, <1>3 DEF OnceOK, AnswerOK
  <1> QED
    BY <1>4, <1>6, <1>7, <1>8, <1>9, <1>10

\* anti_rt_join takes the job that nobody has taken.
LEMMA JoinTakeStep ==
    ASSUME JobInv, TypeInv', NEW b \in Bodies, JoinTake(b)
    PROVE  JobInv'
  <1> DEFINE job == arg[b]
  <1> USE JobFacts DEF JobInv
  <1>1. /\ at[b] = "join" /\ job \in Queued
        /\ queued' = Unlink(job)
        /\ queued_last' = IF queued_last = job THEN LastOf(Unlink(job))
                                               ELSE queued_last
        /\ at' = [at EXCEPT ![b] = "help", ![job] = "run"]
        /\ runs' = [runs EXCEPT ![job] = @ + 1]
        /\ UNCHANGED <<worker, arg, in_flight, jobVars>>
    BY DEF JoinTake, AtJoin, begin, threadVars
  <1>2. /\ job \in Jobs /\ owner[job] = b /\ job \in in_flight
        /\ at[job] = "idle" /\ runs[job] = 0 /\ job # b
        /\ handle[job] = "live" /\ done[job] = 0
    BY <1>1 DEF JoinOK, QueuedIsWaiting, FlightOK
  <1>3. /\ Members(Unlink(job)) = Queued \ {job} /\ NoTwice(Unlink(job))
        /\ queued_last # job => LastOf(Unlink(job)) = queued_last
    BY <1>1, UnlinkRemoves DEF TypeInv, TypeOK
  <1>4. QueueOK' /\ Queued' = Queued \ {job}
    BY <1>1, <1>3 DEF QueueOK, NoTwice, QueueEndsAtLast, LastOf, Queued, Members
  <1>5. /\ \A w \in Workers : worker[w] # job
        /\ \A d \in Bodies : at[d] \in {"join", "help"} /\ arg[d] = job => d = b
    BY <1>2 DEF RunnerOK, JoinOK
  <1> HIDE DEF job
  <1> USE DEF TypeInv, TypeOK, jobVars
  <1>6. QueuedIsWaiting'
    BY <1>1, <1>2, <1>4 DEF QueuedIsWaiting
  <1>7. FlightOK'
    <2>1. \A k \in in_flight' : handle'[k] = "live" /\ done'[k] = 0
      BY <1>1, <1>2 DEF FlightOK
    <2>2. \A k, m \in in_flight' : object'[k] = object'[m] => k = m
      BY <1>1, <1>2 DEF FlightOK
    <2>3. \A k \in Jobs : at'[k] \notin {"idle", "end"} => k \in in_flight'
      BY <1>1, <1>2 DEF FlightOK
    <2> QED
      BY <2>1, <2>2, <2>3 DEF FlightOK
  <1>8. JoinOK'
    BY <1>1, <1>2 DEF JoinOK
  <1>9. RunnerOK'
    BY <1>1, <1>2, <1>5 DEF RunnerOK, job
  <1>10. OnceOK'
    <2> SUFFICES ASSUME NEW k \in Jobs
                 PROVE  /\ runs'[k] = IF at'[k] = "idle" THEN 0 ELSE 1
                        /\ at'[k] = "end" => result'[k] = "value"
                        /\ done'[k] = 1 => at'[k] = "end"
                        /\ handle'[k] \in {"none", "null"} => at'[k] = "idle"
      BY DEF OnceOK
    <2>1. CASE k = job
      BY <1>1, <1>2, <2>1
    <2>2. CASE k = b /\ k # job
      BY <1>1, <1>2, <2>2 DEF OnceOK
    <2>3. CASE k # b /\ k # job
      BY <1>1, <1>2, <2>3 DEF OnceOK
    <2> QED
      BY <2>1, <2>2, <2>3
  <1>11. AnswerOK'
    BY <1>1, <1>2 DEF AnswerOK
  <1> QED
    BY <1>4, <1>6, <1>7, <1>8, <1>9, <1>10, <1>11

\* anti_rt_join has run the job itself, finishes and frees it.
LEMMA HelpEndStep ==
    ASSUME JobInv, TypeInv', NEW b \in Bodies, HelpEnd(b)
    PROVE  JobInv'
  <1> DEFINE job == arg[b]
  <1> USE JobFacts DEF JobInv
  <1>1. /\ at[b] = "help" /\ at[job] = "end"
        /\ in_flight' = in_flight \ {job}
        /\ done' = [done EXCEPT ![job] = 1]
        /\ answer' = [answer EXCEPT ![job] = result[job]]
        /\ handle' = [handle EXCEPT ![job] = "ended"]
        /\ at' = [at EXCEPT ![b] = "run"]
        /\ UNCHANGED <<worker, arg, runs, queued, queued_last, owner, object,
                       result>>
    BY DEF HelpEnd, finish_one, EndJoin, threadVars
  <1>2. /\ job \in Jobs /\ owner[job] = b /\ result[job] = "value"
        /\ job # b
    BY <1>1 DEF JoinOK, OnceOK
  <1>3. QueueOK' /\ Queued' = Queued /\ job \notin Queued
    BY <1>1 DEF QueueOK, NoTwice, QueueEndsAtLast, LastOf, Queued, QueuedIsWaiting
  <1>4. /\ \A w \in Workers : worker[w] # job
        /\ \A d \in Bodies : at[d] \in {"join", "help"} /\ arg[d] = job => d = b
    BY <1>1, <1>2 DEF RunnerOK, JoinOK
  <1> HIDE DEF job
  <1> USE DEF TypeInv, TypeOK
  <1>6. QueuedIsWaiting'
    BY <1>1, <1>3 DEF QueuedIsWaiting
  <1>7. FlightOK'
    BY <1>1, <1>2 DEF FlightOK
  <1>8. JoinOK'
    BY <1>1, <1>2, <1>4 DEF JoinOK
  <1>9. RunnerOK'
    BY <1>1, <1>2, <1>4 DEF RunnerOK
  <1>10. OnceOK' /\ AnswerOK'
    BY <1>1, <1>2 DEF OnceOK, AnswerOK
  <1> QED
    BY <1>3, <1>6, <1>7, <1>8, <1>9, <1>10

-----------------------------------------------------------------------------
LEMMA JobStep == JobInv /\ [Next]_vars => JobInv'
  <1> SUFFICES ASSUME JobInv, [Next]_vars PROVE JobInv'
    OBVIOUS
  <1>1. TypeInv /\ TypeInv'
    BY TypeStep DEF JobInv
  <1>2. ASSUME NEW w \in Workers, WorkerStep(w) PROVE JobInv'
    BY <1>1, <1>2, TakeJobStep, EndJobStep, ThreadSteps, QuietStep DEF WorkerStep
  <1>3. ASSUME NEW b \in Bodies, ProgramStep(b) PROVE JobInv'
    BY <1>1, <1>3, ReturnStep, DispatchStep, RefusedStep, JoinNullStep, JoinStep,
       ParallelSteps, QuietStep DEF ProgramStep
  <1>4. ASSUME NEW b \in Bodies, RuntimeStep(b) PROVE JobInv'
    BY <1>1, <1>4, JoinDoneStep, JoinTakeStep, HelpEndStep, ThreadSteps,
       ParallelSteps, QuietStep DEF RuntimeStep
  <1>5. CASE Spurious \/ UNCHANGED vars
    BY <1>1, <1>5, ThreadSteps, QuietStep DEF Spurious
  <1> QED
    BY <1>2, <1>3, <1>4, <1>5 DEF Next

LEMMA JobInvariant == Spec => []JobInv
  BY JobInit, JobStep, PTL DEF Spec

\* Two workers never hold one object, however dispatches, pool threads and
\* joins that run a job interleave (in_flight in rt/threads.c).
THEOREM ObjectsExclusive == Spec => []OneWorkerPerObject
  <1>1. JobInv => OneWorkerPerObject
    BY DEF JobInv, FlightOK, OneWorkerPerObject, Running
  <1> QED
    BY <1>1, JobInvariant, PTL

\* Removing a job from any place of the list and appending after it keep the
\* list and queued_last together (anti_rt_join, anti_rt_dispatch).
THEOREM QueueIntact == Spec => []QueueEndsAtLast
  <1>1. JobInv => QueueEndsAtLast
    BY DEF JobInv, QueueOK
  <1> QED
    BY <1>1, JobInvariant, PTL

\* A thread that takes a job from the queue is the first to run it.
THEOREM QueuedNotStarted == Spec => []QueuedIsWaiting
  <1>1. JobInv => QueuedIsWaiting
    BY DEF JobInv
  <1> QED
    BY <1>1, JobInvariant, PTL

\* No list and no thread of the pool reaches a record that anti_rt_join has
\* freed.
THEOREM FreedIsUnreachable == Spec => []NoUseAfterFree
  <1>1. ASSUME JobInv PROVE NoUseAfterFree
    <2> USE <1>1, JobFacts DEF JobInv
    <2> SUFFICES ASSUME NEW j \in Jobs, handle[j] = "ended"
                 PROVE  /\ j \notin in_flight
                        /\ j \notin Queued
                        /\ j # queued_last
                        /\ \A w \in Workers : worker[w] # j
                        /\ \A b \in Bodies : at[b] \in {"join", "help"} => arg[b] # j
      BY DEF NoUseAfterFree
    <2>1. j \notin in_flight /\ j \notin Queued
      BY DEF FlightOK, QueuedIsWaiting
    <2>2. queued_last \in Queued \cup {None}
      BY DEF QueueOK, QueueEndsAtLast, LastOf, Queued, TypeInv, TypeOK
    <2>3. j # queued_last
      BY <2>1, <2>2
    <2>4. \A w \in Workers : worker[w] # j
      BY <2>1 DEF RunnerOK
    <2>5. \A b \in Bodies : at[b] \in {"join", "help"} => arg[b] # j
      BY DEF JoinOK
    <2> QED
      BY <2>1, <2>3, <2>4, <2>5
  <1> QED
    BY <1>1, JobInvariant, PTL

\* `join` gives the result of a worker that ran exactly once and has
\* returned, and zero for a dispatch that was refused.
THEOREM JoinGivesResult == Spec => []JoinAnswers
  <1>1. JobInv => JoinAnswers
    BY DEF JobInv, OnceOK, AnswerOK, JoinAnswers
  <1> QED
    BY <1>1, JobInvariant, PTL
=============================================================================
