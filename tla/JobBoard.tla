------------------------------ MODULE JobBoard ------------------------------
(***************************************************************************)
(* What the worker pool promises an Anti program, without threads, locks,  *)
(* lists or condition variables.                                           *)
(*                                                                         *)
(* A job is accepted only while no other job holds its object, its worker  *)
(* runs once, and `join` collects it after the worker has returned.  A     *)
(* `parallel` call runs each of its chunks once and closes after the last. *)
(***************************************************************************)
EXTENDS Naturals

CONSTANTS Jobs, Objects, Calls, MaxCount, None

VARIABLES
    job,     \* the state of each dispatch
    holds,   \* the object of each accepted dispatch
    call,    \* the state of each `parallel`
    size,    \* its number of chunks
    chunk    \* the state of each chunk

vars == <<job, holds, call, size, chunk>>

Indices   == 0 .. MaxCount - 1
JobStates == {"none", "refused", "pending", "running", "returned", "done",
              "joined"}

Held(o) == \E k \in Jobs :
              holds[k] = o /\ job[k] \in {"pending", "running", "returned"}

Init ==
    /\ job = [j \in Jobs |-> "none"]
    /\ holds = [j \in Jobs |-> None]
    /\ call = [c \in Calls |-> "none"]
    /\ size = [c \in Calls |-> 0]
    /\ chunk = [x \in Calls \X Indices |-> "idle"]

MoveJob(j, from, to) ==
    /\ job[j] \in from
    /\ job' = [job EXCEPT ![j] = to]

Accept(j, o) ==
    /\ ~ Held(o)
    /\ MoveJob(j, {"none"}, "pending")
    /\ holds' = [holds EXCEPT ![j] = o]
    /\ UNCHANGED <<call, size, chunk>>

Refuse(j, o) ==
    /\ Held(o)
    /\ MoveJob(j, {"none"}, "refused")
    /\ UNCHANGED <<holds, call, size, chunk>>

\* The worker starts, returns and leaves the pool, and join collects it.
Advance(j) ==
    /\ \/ MoveJob(j, {"pending"}, "running")
       \/ MoveJob(j, {"running"}, "returned")
       \/ MoveJob(j, {"returned"}, "done")
       \/ MoveJob(j, {"returned", "done"}, "joined")
    /\ UNCHANGED <<holds, call, size, chunk>>

OpenEmpty(c) ==
    /\ call[c] = "none"
    /\ call' = [call EXCEPT ![c] = "closed"]
    /\ UNCHANGED <<job, holds, size, chunk>>

\* The caller starts the first chunk itself.
Open(c, n) ==
    /\ call[c] = "none"
    /\ call' = [call EXCEPT ![c] = "open"]
    /\ size' = [size EXCEPT ![c] = n]
    /\ chunk' = [chunk EXCEPT ![<<c, 0>>] = "running"]
    /\ UNCHANGED <<job, holds>>

StartChunk(c, i) ==
    /\ call[c] = "open"
    /\ i < size[c]
    /\ chunk[<<c, i>>] = "idle"
    /\ chunk' = [chunk EXCEPT ![<<c, i>>] = "running"]
    /\ UNCHANGED <<job, holds, call, size>>

EndChunk(c, i) ==
    /\ chunk[<<c, i>>] = "running"
    /\ chunk' = [chunk EXCEPT ![<<c, i>>] = "ran"]
    /\ UNCHANGED <<job, holds, call, size>>

Close(c) ==
    /\ call[c] = "open"
    /\ \A i \in 0 .. size[c] - 1 : chunk[<<c, i>>] = "ran"
    /\ call' = [call EXCEPT ![c] = "closed"]
    /\ UNCHANGED <<job, holds, size, chunk>>

Next ==
    \/ \E j \in Jobs :
          \/ Advance(j)
          \/ \E o \in Objects : Accept(j, o) \/ Refuse(j, o)
    \/ \E c \in Calls :
          \/ OpenEmpty(c)
          \/ \E n \in 1 .. MaxCount : Open(c, n)
          \/ \E i \in Indices : StartChunk(c, i) \/ EndChunk(c, i)
          \/ Close(c)

Spec == Init /\ [][Next]_vars
=============================================================================
