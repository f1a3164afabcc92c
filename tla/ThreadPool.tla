----------------------------- MODULE ThreadPool -----------------------------
(***************************************************************************)
(* The worker pool of the Anti runtime, rt/threads.c: what `parallel`,     *)
(* `dispatch`, `join` and `join_all` of an Anti program call.              *)
(*                                                                         *)
(* A BODY is one execution of program code: main, the worker of one        *)
(* dispatched job, or the worker of one chunk of one `parallel` call.      *)
(* Bodies run inside threads, and a body that calls the runtime may run    *)
(* another body in its own thread (a join that takes the job itself, a     *)
(* caller that takes chunks), so a body and not a thread is the unit here: *)
(* a thread that blocks is its innermost body blocking.                    *)
(*                                                                         *)
(* One action is one critical section of the pool's mutex (hold ...        *)
(* release), or a step that touches no shared state.  A condition variable *)
(* is the set of its waiters; pthread_cond_wait leaves the mutex and joins *)
(* that set in one step.                                                   *)
(***************************************************************************)
EXTENDS Integers, Sequences, FiniteSets

CONSTANTS
    Main,       \* the body of the program's main function
    Jobs,       \* one identity per execution of `dispatch`
    Calls,      \* one identity per execution of `parallel`
    Workers,    \* the threads start_pool tries to create
    Objects,    \* the addresses of the objects that are dispatched
    MaxCount,   \* bound: the length of the longest array that is split
    ByValues,   \* the chunk counts a program writes after `by`, 0 without
    Callers,    \* the bodies that call the runtime
    None,       \* the null pointer
    Absent,     \* the state of a pool thread that does not exist
    Loop        \* the state of a pool thread between two bodies

Chunks == Calls \X (0 .. MaxCount - 1)
Bodies == {Main} \cup Jobs \cup Chunks

ASSUME PoolAssumption ==
    /\ MaxCount \in Nat
    /\ IsFiniteSet(Workers)
    /\ ByValues \subseteq Int
    /\ Callers \subseteq Bodies
    /\ Main \notin Jobs
    /\ Jobs \cap Chunks = {}
    /\ Main \notin Chunks
    /\ None \notin Bodies \cup Calls \cup Objects
    /\ Absent # Loop
    /\ {Absent, Loop} \cap Bodies = {}

VARIABLES
    started,      \* pthread_once has run start_pool
    worker,       \* what each pool thread does: absent, loop, or a body
    at,           \* where each body is, see Phases
    arg,          \* the job or the chunk a body in a runtime call deals with
    runs,         \* history: how often each body has been started
    queued,       \* the list of dispatched jobs that nobody has taken
    queued_last,  \* the pointer to the end of that list
    in_flight,    \* the list of jobs from dispatch to finish_one
    active,       \* the `parallel` call that owns the pool
    taken,        \* chunks of it that some thread has taken
    finished,     \* chunks of it that are done
    work_ready,   \* pool threads that wait for work
    work_done,    \* bodies that wait for a job or for the last chunk
    handle,       \* what `dispatch` gave back, see Handles
    owner,        \* the body that holds that handle
    object,       \* job->object
    done,         \* job->done
    result,       \* job->result: unset after malloc, value once written
    answer,       \* what `join` of the handle wrote to its caller
    call,         \* the life of each `parallel` call
    caller,       \* the body that made it
    count,        \* j.count
    chunks        \* j.chunks

threadVars == <<started, worker>>
bodyVars   == <<at, arg, runs>>
queueVars  == <<queued, queued_last, in_flight>>
activeVars == <<active, taken, finished>>
condVars   == <<work_ready, work_done>>
jobVars    == <<handle, owner, object, done, result, answer>>
callVars   == <<call, caller, count, chunks>>
vars == <<threadVars, bodyVars, queueVars, activeVars, condVars, jobVars,
          callVars>>

Phases  == {"idle",    \* not started
            "run",     \* in program code
            "join",    \* at the loop of anti_rt_join
            "help",    \* runs the job it joins in its own thread
            "own",     \* runs a chunk of its own `parallel`
            "split",   \* waits for the last chunk of its own `parallel`
            "inline",  \* runs the chunks of a `parallel` that met a busy pool
            "end"}     \* has returned
Handles == {"none", "null", "live", "ended"}
Values  == {"none", "unset", "zero", "value"}

-----------------------------------------------------------------------------
(* How an array is split.                                                  *)

worker_count == Cardinality(Workers) + 1

\* Mutant: more chunks than elements.
chunk_count_unclamped(n, by) == IF by <= 0 THEN worker_count ELSE by

\* The number of chunks of a `parallel` over n elements.
chunk_count(n, by) ==
    LET wanted == IF by <= 0 THEN worker_count ELSE by
    IN  IF wanted > n THEN n ELSE wanted

\* The first element and the length of one chunk.
slice_length(n, parts, index) ==
    n \div parts + (IF index < n % parts THEN 1 ELSE 0)
\* Mutant: the longer chunks before this one are forgotten.
slice_first_even(n, parts, index) == index * (n \div parts)

slice_first(n, parts, index) ==
    index * (n \div parts) + (IF index < n % parts THEN index ELSE n % parts)
slice_of(n, parts, index) ==
    slice_first(n, parts, index) ..
        slice_first(n, parts, index) + slice_length(n, parts, index) - 1

-----------------------------------------------------------------------------
(* The list of queued jobs.  A link through queued_last writes the next    *)
(* pointer of that job: it cuts whatever followed it, and it changes       *)
(* nothing in the list when the job is no longer in it.                    *)

Queued == {queued[i] : i \in DOMAIN queued}

Position(job) == CHOOSE i \in DOMAIN queued : queued[i] = job

Link(job) ==
    IF queued_last = None THEN <<job>>
    ELSE IF queued_last \in Queued
         THEN Append(SubSeq(queued, 1, Position(queued_last)), job)
         ELSE queued

Unlink(job) ==
    [i \in 1 .. Len(queued) - 1 |->
        IF i < Position(job) THEN queued[i] ELSE queued[i + 1]]

\* The walk that looks for the new end of the list.
LastOf(list) == IF list = <<>> THEN None ELSE list[Len(list)]

-----------------------------------------------------------------------------
(* The platform layer.                                                     *)

\* Mutant: nobody is woken.
wake_all_lost == work_ready' = work_ready

wake_all == work_ready' = {}

\* Mutant: nobody is woken.
wake_caller_lost == work_done' = work_done

\* pthread_cond_signal: one waiter, if there is one.
wake_caller ==
    IF work_done = {} THEN work_done' = {}
    ELSE \E b \in work_done : work_done' = work_done \ {b}

\* Build the pool at the first call.  Creating a thread may fail, and the
\* pool then stays smaller.
start ==
    /\ started' = TRUE
    /\ IF started
       THEN worker' = worker
       ELSE \E made \in SUBSET Workers :
              worker' = [w \in Workers |->
                            IF w \in made THEN Loop ELSE Absent]

\* Enter body b.
begin(b) == runs' = [runs EXCEPT ![b] = @ + 1]

\* Mutant: the job stays on the list.
finish_one_listed(job) ==
    /\ in_flight' = in_flight
    /\ done' = [done EXCEPT ![job] = 1]

\* finish_one of a job.
finish_one(job) ==
    /\ in_flight' = in_flight \ {job}
    /\ done' = [done EXCEPT ![job] = 1]

-----------------------------------------------------------------------------
Init ==
    /\ started = FALSE
    /\ worker = [w \in Workers |-> Absent]
    /\ at = [b \in Bodies |-> IF b = Main THEN "run" ELSE "idle"]
    /\ arg = [b \in Bodies |-> None]
    /\ runs = [b \in Bodies |-> IF b = Main THEN 1 ELSE 0]
    /\ queued = <<>>
    /\ queued_last = None
    /\ in_flight = {}
    /\ active = None
    /\ taken = 0
    /\ finished = 0
    /\ work_ready = {}
    /\ work_done = {}
    /\ handle = [j \in Jobs |-> "none"]
    /\ owner = [j \in Jobs |-> None]
    /\ object = [j \in Jobs |-> None]
    /\ done = [j \in Jobs |-> 0]
    /\ result = [j \in Jobs |-> "unset"]
    /\ answer = [j \in Jobs |-> "none"]
    /\ call = [c \in Calls |-> "none"]
    /\ caller = [c \in Calls |-> None]
    /\ count = [c \in Calls |-> 0]
    /\ chunks = [c \in Calls |-> 0]

-----------------------------------------------------------------------------
(* A pool thread: worker_main.                                             *)

Awake(w) == worker[w] = Loop /\ w \notin work_ready

ChunkLeft == active # None /\ taken # chunks[active]

\* Mutant: queued_last keeps the job that left an empty list.
TakeJob_stale(w) ==
    /\ Awake(w)
    /\ queued # <<>>
    /\ LET job == Head(queued) IN
         /\ queued' = Tail(queued)
         /\ worker' = [worker EXCEPT ![w] = job]
         /\ at' = [at EXCEPT ![job] = "run"]
         /\ begin(job)
    /\ UNCHANGED <<started, arg, queued_last, in_flight, activeVars, condVars,
                   jobVars, callVars>>

\* Mutant: the object leaves the in-flight list when its worker starts.
TakeJob_released(w) ==
    /\ Awake(w)
    /\ queued # <<>>
    /\ LET job == Head(queued) IN
         /\ queued' = Tail(queued)
         /\ queued_last' = IF Tail(queued) = <<>> THEN None ELSE queued_last
         /\ in_flight' = in_flight \ {job}
         /\ worker' = [worker EXCEPT ![w] = job]
         /\ at' = [at EXCEPT ![job] = "run"]
         /\ begin(job)
    /\ UNCHANGED <<started, arg, activeVars, condVars, jobVars, callVars>>

\* A dispatched job comes first.
TakeJob(w) ==
    /\ Awake(w)
    /\ queued # <<>>
    /\ LET job == Head(queued) IN
         /\ queued' = Tail(queued)
         /\ queued_last' = IF Tail(queued) = <<>> THEN None ELSE queued_last
         /\ worker' = [worker EXCEPT ![w] = job]
         /\ at' = [at EXCEPT ![job] = "run"]
         /\ begin(job)
    /\ UNCHANGED <<started, arg, in_flight, activeVars, condVars, jobVars,
                   callVars>>

\* Mutant: the chunk is not counted as taken.
TakeChunk_uncounted(w) ==
    /\ Awake(w)
    /\ queued = <<>>
    /\ ChunkLeft
    /\ worker' = [worker EXCEPT ![w] = <<active, taken>>]
    /\ at' = [at EXCEPT ![<<active, taken>>] = "run"]
    /\ begin(<<active, taken>>)
    /\ UNCHANGED <<started, arg, queueVars, activeVars, condVars, jobVars,
                   callVars>>

TakeChunk(w) ==
    /\ Awake(w)
    /\ queued = <<>>
    /\ ChunkLeft
    /\ worker' = [worker EXCEPT ![w] = <<active, taken>>]
    /\ taken' = taken + 1
    /\ at' = [at EXCEPT ![<<active, taken>>] = "run"]
    /\ begin(<<active, taken>>)
    /\ UNCHANGED <<started, arg, queueVars, active, finished, condVars,
                   jobVars, callVars>>

WaitReady(w) ==
    /\ Awake(w)
    /\ queued = <<>>
    /\ ~ ChunkLeft
    /\ work_ready' = work_ready \cup {w}
    /\ UNCHANGED <<threadVars, bodyVars, queueVars, activeVars, work_done,
                   jobVars, callVars>>

EndJob(w) ==
    /\ worker[w] \in Jobs
    /\ at[worker[w]] = "end"
    /\ finish_one(worker[w])
    /\ wake_caller
    /\ worker' = [worker EXCEPT ![w] = Loop]
    /\ UNCHANGED <<started, bodyVars, queued, queued_last, activeVars,
                   work_ready, handle, owner, object, result, answer, callVars>>

\* Mutant: the caller is not told of the last chunk.
EndChunk_silent(w) ==
    /\ worker[w] \in Chunks
    /\ at[worker[w]] = "end"
    /\ finished' = finished + 1
    /\ worker' = [worker EXCEPT ![w] = Loop]
    /\ UNCHANGED <<started, bodyVars, queueVars, active, taken, condVars,
                   jobVars, callVars>>

EndChunk(w) ==
    /\ worker[w] \in Chunks
    /\ at[worker[w]] = "end"
    /\ finished' = finished + 1
    /\ wake_caller
    /\ worker' = [worker EXCEPT ![w] = Loop]
    /\ UNCHANGED <<started, bodyVars, queueVars, active, taken, work_ready,
                   jobVars, callVars>>

-----------------------------------------------------------------------------
(* Program code.                                                           *)

CallsRuntime(b) == b \in Callers /\ at[b] = "run"

\* The worker returns.  The thunk has written the result of a job.
Return(b) ==
    /\ at[b] = "run"
    /\ at' = [at EXCEPT ![b] = "end"]
    /\ result' = IF b \in Jobs THEN [result EXCEPT ![b] = "value"] ELSE result
    /\ UNCHANGED <<threadVars, arg, runs, queueVars, activeVars, condVars,
                   handle, owner, object, done, answer, callVars>>

-----------------------------------------------------------------------------
(* anti_rt_dispatch.                                                       *)

\* Mutant: only the queue is searched.
InFlight_queue(o) == \E k \in Queued : object[k] = o

InFlight(o) == \E k \in in_flight : object[k] = o

Dispatch(b, j, o) ==
    /\ CallsRuntime(b)
    /\ handle[j] = "none"
    /\ start
    /\ ~ InFlight(o)
    /\ handle' = [handle EXCEPT ![j] = "live"]
    /\ owner' = [owner EXCEPT ![j] = b]
    /\ object' = [object EXCEPT ![j] = o]
    /\ in_flight' = in_flight \cup {j}
    /\ queued' = Link(j)
    /\ queued_last' = j
    /\ wake_all
    /\ UNCHANGED <<bodyVars, activeVars, work_done, done, result, answer,
                   callVars>>

\* The object is in flight: the record is freed and the handle is null.
DispatchRefused(b, j, o) ==
    /\ CallsRuntime(b)
    /\ handle[j] = "none"
    /\ start
    /\ InFlight(o)
    /\ handle' = [handle EXCEPT ![j] = "null"]
    /\ owner' = [owner EXCEPT ![j] = b]
    /\ UNCHANGED <<bodyVars, queueVars, activeVars, condVars, object, done,
                   result, answer, callVars>>

-----------------------------------------------------------------------------
(* anti_rt_join.  A body joins the handles it holds, each at most once.    *)

JoinNull(b, j) ==
    /\ CallsRuntime(b)
    /\ owner[j] = b
    /\ handle[j] = "null"
    /\ answer[j] = "none"
    /\ answer' = [answer EXCEPT ![j] = "zero"]
    /\ UNCHANGED <<threadVars, bodyVars, queueVars, activeVars, condVars,
                   handle, owner, object, done, result, callVars>>

Join(b, j) ==
    /\ CallsRuntime(b)
    /\ owner[j] = b
    /\ handle[j] = "live"
    /\ at' = [at EXCEPT ![b] = "join"]
    /\ arg' = [arg EXCEPT ![b] = j]
    /\ UNCHANGED <<threadVars, runs, queueVars, activeVars, condVars, jobVars,
                   callVars>>

AtJoin(b) == at[b] = "join" /\ b \notin work_done

\* Copy the result out and free the job.
EndJoin(b) ==
    /\ answer' = [answer EXCEPT ![arg[b]] = result[arg[b]]]
    /\ handle' = [handle EXCEPT ![arg[b]] = "ended"]
    /\ at' = [at EXCEPT ![b] = "run"]

\* Mutant: a job that left the queue counts as done.
JoinDone_early(b) ==
    /\ AtJoin(b)
    /\ done[arg[b]] = 1 \/ arg[b] \notin Queued
    /\ EndJoin(b)
    /\ UNCHANGED <<threadVars, arg, runs, queueVars, activeVars, condVars,
                   owner, object, done, result, callVars>>

JoinDone(b) ==
    /\ AtJoin(b)
    /\ done[arg[b]] = 1
    /\ EndJoin(b)
    /\ UNCHANGED <<threadVars, arg, runs, queueVars, activeVars, condVars,
                   owner, object, done, result, callVars>>

\* Mutant: the job stays in the queue.
JoinTake_linked(b) ==
    /\ AtJoin(b)
    /\ done[arg[b]] = 0
    /\ arg[b] \in Queued
    /\ at' = [at EXCEPT ![b] = "help", ![arg[b]] = "run"]
    /\ begin(arg[b])
    /\ UNCHANGED <<threadVars, arg, queueVars, activeVars, condVars, jobVars,
                   callVars>>

\* Nobody has taken the job: the caller takes it.
JoinTake(b) ==
    /\ AtJoin(b)
    /\ done[arg[b]] = 0
    /\ arg[b] \in Queued
    /\ LET job == arg[b] IN
         /\ queued' = Unlink(job)
         /\ queued_last' = IF queued_last = job THEN LastOf(Unlink(job))
                                                ELSE queued_last
         /\ at' = [at EXCEPT ![b] = "help", ![job] = "run"]
         /\ begin(job)
    /\ UNCHANGED <<threadVars, arg, in_flight, activeVars, condVars, jobVars,
                   callVars>>

JoinWait(b) ==
    /\ AtJoin(b)
    /\ done[arg[b]] = 0
    /\ arg[b] \notin Queued
    /\ work_done' = work_done \cup {b}
    /\ UNCHANGED <<threadVars, bodyVars, queueVars, activeVars, work_ready,
                   jobVars, callVars>>

HelpEnd(b) ==
    /\ at[b] = "help"
    /\ at[arg[b]] = "end"
    /\ finish_one(arg[b])
    /\ wake_caller
    /\ EndJoin(b)
    /\ UNCHANGED <<threadVars, arg, runs, queued, queued_last, activeVars,
                   work_ready, owner, object, result, callVars>>

-----------------------------------------------------------------------------
(* anti_rt_parallel.                                                       *)

Opens(b, c, n, by) ==
    /\ CallsRuntime(b)
    /\ call[c] = "none"
    /\ caller' = [caller EXCEPT ![c] = b]
    /\ count' = [count EXCEPT ![c] = n]
    /\ chunks' = [chunks EXCEPT ![c] = chunk_count(n, by)]

\* Run chunk index of call c in the thread of b.
Enter(b, phase, chunk) ==
    /\ at' = [at EXCEPT ![b] = phase, ![chunk] = "run"]
    /\ arg' = [arg EXCEPT ![b] = chunk]
    /\ begin(chunk)

ParallelEmpty(b, c, by) ==
    /\ Opens(b, c, 0, by)
    /\ call' = [call EXCEPT ![c] = "closed"]
    /\ UNCHANGED <<threadVars, bodyVars, queueVars, activeVars, condVars,
                   jobVars>>

\* The pool is free: publish the call, wake the pool and take a chunk.
ParallelPooled(b, c, n, by) ==
    /\ Opens(b, c, n, by)
    /\ chunk_count(n, by) > 0
    /\ start
    /\ active = None
    /\ active' = c
    /\ taken' = 1
    /\ finished' = 0
    /\ wake_all
    /\ call' = [call EXCEPT ![c] = "open"]
    /\ Enter(b, "own", <<c, 0>>)
    /\ UNCHANGED <<queueVars, work_done, jobVars>>

\* The pool is busy: run every chunk here.
ParallelInline(b, c, n, by) ==
    /\ Opens(b, c, n, by)
    /\ chunk_count(n, by) > 0
    /\ start
    /\ active # None
    /\ call' = [call EXCEPT ![c] = "open"]
    /\ Enter(b, "inline", <<c, 0>>)
    /\ UNCHANGED <<queueVars, activeVars, condVars, jobVars>>

OwnChunkDone(b) == at[b] = "own" /\ at[arg[b]] = "end"

\* finished++, and one more turn of the loop that takes chunks.
OwnNext(b) ==
    /\ OwnChunkDone(b)
    /\ taken < chunks[active]
    /\ finished' = finished + 1
    /\ taken' = taken + 1
    /\ Enter(b, "own", <<active, taken>>)
    /\ UNCHANGED <<threadVars, queueVars, active, condVars, jobVars, callVars>>

\* No chunk is left to take, and some are still running elsewhere.
OwnWait(b) ==
    /\ OwnChunkDone(b)
    /\ taken >= chunks[active]
    /\ finished' = finished + 1
    /\ finished' < chunks[active]
    /\ at' = [at EXCEPT ![b] = "split"]
    /\ work_done' = work_done \cup {b}
    /\ UNCHANGED <<threadVars, arg, runs, queueVars, active, taken, work_ready,
                   jobVars, callVars>>

EndCall(b) ==
    /\ active' = None
    /\ call' = [call EXCEPT ![active] = "closed"]
    /\ at' = [at EXCEPT ![b] = "run"]

\* Mutant: the caller leaves when the last chunk is taken.
OwnClose_early(b) ==
    /\ OwnChunkDone(b)
    /\ taken >= chunks[active]
    /\ finished' = finished + 1
    /\ EndCall(b)
    /\ UNCHANGED <<threadVars, arg, runs, queueVars, taken, condVars, jobVars,
                   caller, count, chunks>>

OwnClose(b) ==
    /\ OwnChunkDone(b)
    /\ taken >= chunks[active]
    /\ finished' = finished + 1
    /\ finished' >= chunks[active]
    /\ EndCall(b)
    /\ UNCHANGED <<threadVars, arg, runs, queueVars, taken, condVars, jobVars,
                   caller, count, chunks>>

AtSplit(b) == at[b] = "split" /\ b \notin work_done

SplitWait(b) ==
    /\ AtSplit(b)
    /\ finished < chunks[active]
    /\ work_done' = work_done \cup {b}
    /\ UNCHANGED <<threadVars, bodyVars, queueVars, activeVars, work_ready,
                   jobVars, callVars>>

\* Mutant: one wake-up is taken for the last one.
SplitClose_once(b) ==
    /\ AtSplit(b)
    /\ EndCall(b)
    /\ UNCHANGED <<threadVars, arg, runs, queueVars, taken, finished, condVars,
                   jobVars, caller, count, chunks>>

SplitClose(b) ==
    /\ AtSplit(b)
    /\ finished >= chunks[active]
    /\ EndCall(b)
    /\ UNCHANGED <<threadVars, arg, runs, queueVars, taken, finished, condVars,
                   jobVars, caller, count, chunks>>

InlineChunkDone(b) == at[b] = "inline" /\ at[arg[b]] = "end"

InlineNext(b) ==
    /\ InlineChunkDone(b)
    /\ arg[b][2] + 1 < chunks[arg[b][1]]
    /\ Enter(b, "inline", <<arg[b][1], arg[b][2] + 1>>)
    /\ UNCHANGED <<threadVars, queueVars, activeVars, condVars, jobVars,
                   callVars>>

InlineClose(b) ==
    /\ InlineChunkDone(b)
    /\ arg[b][2] + 1 >= chunks[arg[b][1]]
    /\ call' = [call EXCEPT ![arg[b][1]] = "closed"]
    /\ at' = [at EXCEPT ![b] = "run"]
    /\ UNCHANGED <<threadVars, arg, runs, queueVars, activeVars, condVars,
                   jobVars, caller, count, chunks>>

-----------------------------------------------------------------------------
(* POSIX and Windows both let a wait return without a signal.              *)

SpuriousReady(w) ==
    /\ w \in work_ready
    /\ work_ready' = work_ready \ {w}
    /\ UNCHANGED <<threadVars, bodyVars, queueVars, activeVars, work_done,
                   jobVars, callVars>>

SpuriousDone(b) ==
    /\ b \in work_done
    /\ work_done' = work_done \ {b}
    /\ UNCHANGED <<threadVars, bodyVars, queueVars, activeVars, work_ready,
                   jobVars, callVars>>

-----------------------------------------------------------------------------
\* The process lives until main returns; its end stops every thread.
Alive == at[Main] # "end"

WorkerStep(w) ==
    /\ Alive
    /\ \/ TakeJob(w)
       \/ TakeChunk(w)
       \/ WaitReady(w)
       \/ EndJob(w)
       \/ EndChunk(w)

\* A body in program code returns or calls the runtime.
ProgramStep(b) ==
    /\ Alive
    /\ \/ Return(b)
       \/ \E j \in Jobs :
             \/ \E o \in Objects : Dispatch(b, j, o) \/ DispatchRefused(b, j, o)
             \/ JoinNull(b, j)
             \/ Join(b, j)
       \/ \E c \in Calls, by \in ByValues :
             \/ ParallelEmpty(b, c, by)
             \/ \E n \in 1 .. MaxCount :
                   ParallelPooled(b, c, n, by) \/ ParallelInline(b, c, n, by)

\* A body inside a call of the runtime goes on.
RuntimeStep(b) ==
    /\ Alive
    /\ \/ JoinDone(b)
       \/ JoinTake(b)
       \/ JoinWait(b)
       \/ HelpEnd(b)
       \/ OwnNext(b)
       \/ OwnWait(b)
       \/ OwnClose(b)
       \/ SplitWait(b)
       \/ SplitClose(b)
       \/ InlineNext(b)
       \/ InlineClose(b)

Spurious ==
    /\ Alive
    /\ \/ \E w \in Workers : SpuriousReady(w)
       \/ \E b \in Bodies : SpuriousDone(b)

Next ==
    \/ \E w \in Workers : WorkerStep(w)
    \/ \E b \in Bodies : ProgramStep(b) \/ RuntimeStep(b)
    \/ Spurious

Spec == Init /\ [][Next]_vars

\* The scheduler runs every thread that can run, and a worker function
\* terminates.  Main may run for ever, and nothing promises a wake-up without
\* a signal.
Fairness ==
    /\ \A w \in Workers : WF_vars(WorkerStep(w))
    /\ \A b \in Bodies : WF_vars(RuntimeStep(b))
    /\ \A b \in Bodies \ {Main} : WF_vars(ProgramStep(b))

FairSpec == Spec /\ Fairness

-----------------------------------------------------------------------------
\* Every variable has its type, and no `parallel` has more chunks than
\* elements, so slice_of never gives an empty chunk.
TypeOK ==
    /\ started \in BOOLEAN
    /\ worker \in [Workers -> {Absent, Loop} \cup Jobs \cup Chunks]
    /\ at \in [Bodies -> Phases]
    /\ arg \in [Bodies -> Jobs \cup Chunks \cup {None}]
    /\ runs \in [Bodies -> Nat]
    /\ queued \in Seq(Jobs)
    /\ queued_last \in Jobs \cup {None}
    /\ in_flight \in SUBSET Jobs
    /\ active \in Calls \cup {None}
    /\ taken \in Nat
    /\ finished \in Nat
    /\ work_ready \in SUBSET Workers
    /\ work_done \in SUBSET Bodies
    /\ handle \in [Jobs -> Handles]
    /\ owner \in [Jobs -> Bodies \cup {None}]
    /\ object \in [Jobs -> Objects \cup {None}]
    /\ done \in [Jobs -> {0, 1}]
    /\ result \in [Jobs -> Values]
    /\ answer \in [Jobs -> Values]
    /\ call \in [Calls -> {"none", "open", "closed"}]
    /\ caller \in [Calls -> Bodies \cup {None}]
    /\ count \in [Calls -> 0 .. MaxCount]
    /\ chunks \in [Calls -> 0 .. MaxCount]
    /\ \A c \in Calls : chunks[c] <= count[c]

Running == {b \in Bodies : at[b] \notin {"idle", "end"}}

\* Two workers never hold one object: the promise of the in-flight list of
\* anti_rt_dispatch, over workers of the pool and joins that run a job.
OneWorkerPerObject ==
    \A j, k \in Jobs \cap Running : object[j] = object[k] => j = k

\* No list of the pool and no thread that is about to finish a job holds a
\* record that anti_rt_join has freed.
NoUseAfterFree ==
    \A j \in Jobs : handle[j] = "ended" =>
        /\ j \notin in_flight
        /\ j \notin Queued
        /\ j # queued_last
        /\ \A w \in Workers : worker[w] # j
        /\ \A b \in Bodies : at[b] \in {"join", "help"} => arg[b] # j

\* `join` gives the result of a worker that ran exactly once, and the join
\* of a refused dispatch gives zero and its worker never ran.
JoinAnswers ==
    \A j \in Jobs :
        /\ answer[j] = "value" => runs[j] = 1 /\ at[j] = "end"
        /\ answer[j] = "zero"  => runs[j] = 0
        /\ answer[j] # "unset"
        /\ handle[j] = "ended" => answer[j] = "value"

\* A thread that runs a chunk holds the record of the call, which lies in
\* the frame of the caller: the caller has not returned.
CallOutlivesChunks ==
    \A x \in Chunks \cap Running :
        call[x[1]] = "open" /\ at[caller[x[1]]] \in {"own", "split", "inline"}

\* When `parallel` returns, every chunk has run exactly once.
EveryChunkOnce ==
    /\ \A x \in Chunks : runs[x] <= 1
    /\ \A c \in Calls : call[c] = "closed" =>
          \A i \in 0 .. chunks[c] - 1 :
             runs[<<c, i>>] = 1 /\ at[<<c, i>>] = "end"

\* The chunks of a call split its array: no two overlap, and together they
\* hold every element.
ChunksPartition ==
    \A c \in Calls : chunks[c] > 0 =>
        /\ UNION {slice_of(count[c], chunks[c], i) : i \in 0 .. chunks[c] - 1}
             = 0 .. count[c] - 1
        /\ \A i, k \in 0 .. chunks[c] - 1 : i # k =>
              slice_of(count[c], chunks[c], i)
                \cap slice_of(count[c], chunks[c], k) = {}

\* The list of queued jobs ends where queued_last points, so a dispatch
\* after a join that took a job out of the middle never cuts the list.
QueueEndsAtLast == queued_last = LastOf(queued)

\* A job in the queue is in flight, its handle is live and its worker has
\* not started, so the thread that takes it runs it for the first time.
QueuedIsWaiting ==
    \A j \in Queued :
        j \in in_flight /\ handle[j] = "live" /\ at[j] = "idle" /\ runs[j] = 0

\* A call of `join` returns, unless the process ends first.
JoinReturns ==
    \A b \in Callers : at[b] \in {"join", "help"} ~> (at[b] = "run" \/ ~ Alive)

\* A call of `parallel` returns, unless the process ends first.
ParallelReturns ==
    \A b \in Callers :
        at[b] \in {"own", "split", "inline"} ~> (at[b] = "run" \/ ~ Alive)

\* A dispatched job finishes, joined or not, when the pool has a thread and
\* the process lives on.
JobsFinish ==
    \A j \in Jobs :
        (handle[j] = "live" /\ \E w \in Workers : worker[w] # Absent)
            ~> (done[j] = 1 \/ ~ Alive)

-----------------------------------------------------------------------------
(* What the pool implements.                                               *)

JobState(j) ==
    CASE handle[j] = "none"  -> "none"
      [] handle[j] = "null"  -> "refused"
      [] handle[j] = "ended" -> "joined"
      [] handle[j] = "live" /\ done[j] = 1 -> "done"
      [] handle[j] = "live" /\ done[j] = 0 /\ at[j] = "idle" -> "pending"
      [] handle[j] = "live" /\ done[j] = 0 /\ at[j] = "end" -> "returned"
      [] OTHER -> "running"

ChunkState(x) ==
    CASE at[x] = "idle" -> "idle" [] at[x] = "end" -> "ran" [] OTHER -> "running"

Board == INSTANCE JobBoard WITH
    job   <- [j \in Jobs |-> JobState(j)],
    holds <- object,
    size  <- chunks,
    chunk <- [x \in Chunks |-> ChunkState(x)]

\* The pool implements the board: whatever the interleaving of threads,
\* joins and calls, a program sees exclusive objects, workers that run once
\* and calls that return after their last chunk.
ImplementsBoard == Board!Spec

=============================================================================
