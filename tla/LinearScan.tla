----------------------------- MODULE LinearScan -----------------------------
(***************************************************************************)
(* linear_scan of src/regalloc.c: a register or a spill slot for every     *)
(* live interval, in the order of the starts.  One action is one turn of   *)
(* its loop.                                                               *)
(***************************************************************************)
EXTENDS Integers, Sequences, FiniteSets

CONSTANTS
    VRegs,        \* the numbers of the virtual registers
    Pregs,        \* the numbers of the physical registers
    allocatable   \* [float class -> the registers to hand out, in order]

NONE == -1

ASSUME RegisterAssumption ==
    /\ VRegs \subseteq Nat
    /\ Pregs \subseteq Nat
    /\ allocatable \in [BOOLEAN -> Seq(Pregs)]
    /\ IsFiniteSet(VRegs)

VARIABLES
    iv,       \* the live interval of each virtual register
    fixed,    \* the ranges in which the machine code names each register
    left,     \* the intervals that have no place yet
    active,   \* the intervals that hold a register at the current position
    preg,     \* interval.preg
    slot      \* interval.slot

scanVars  == <<left, active, preg, slot>>
rangeVars == <<iv, fixed>>

Interval == [start : Nat, end : Nat \cup {NONE}, fp : BOOLEAN, weight : Nat,
             hint_preg : Pregs \cup {NONE}, hint_vreg : VRegs \cup {NONE}]
FixedRange == [from : Nat, to : Nat]

-----------------------------------------------------------------------------
overlaps_fixed(r, v) ==
    \E x \in fixed[r] : x.from <= iv[v].end /\ iv[v].start <= x.to

is_free(act, r, v) ==
    /\ \A u \in act : preg[u] # r
    /\ ~ overlaps_fixed(r, v)

class_registers(v) == allocatable[iv[v].fp]

is_allocatable(v, r) ==
    \E i \in DOMAIN class_registers(v) : class_registers(v)[i] = r

\* The register a move suggests: that of the other side, when it has one.
Hint(v) ==
    IF iv[v].hint_preg # NONE THEN iv[v].hint_preg
    ELSE IF iv[v].hint_vreg # NONE THEN preg[iv[v].hint_vreg] ELSE NONE

FirstFree(act, v) ==
    LET regs == class_registers(v)
        free == {i \in DOMAIN regs : is_free(act, regs[i], v)}
    IN  IF free = {} THEN NONE
        ELSE regs[CHOOSE i \in free : \A k \in free : i <= k]

\* Mutant: the hinted register may be taken.
choose_taken(act, v) ==
    IF Hint(v) # NONE /\ is_allocatable(v, Hint(v)) /\ ~ overlaps_fixed(Hint(v), v)
    THEN Hint(v)
    ELSE FirstFree(act, v)

\* Mutant: the hinted register may be in a fixed range.
choose_unfixed(act, v) ==
    IF /\ Hint(v) # NONE
       /\ is_allocatable(v, Hint(v))
       /\ \A u \in act : preg[u] # Hint(v)
    THEN Hint(v)
    ELSE FirstFree(act, v)

choose(act, v) ==
    IF Hint(v) # NONE /\ is_allocatable(v, Hint(v)) /\ is_free(act, Hint(v), v)
    THEN Hint(v)
    ELSE FirstFree(act, v)

\* The order of qsort with by_start.
by_start(v, u) ==
    \/ iv[v].start < iv[u].start
    \/ iv[v].start = iv[u].start /\ v <= u

Expire(v) == {u \in active : iv[u].end >= iv[v].start}

\* The intervals whose register v could take.
Candidates(act, v) ==
    {u \in act : /\ iv[u].end > iv[v].end
                 /\ iv[u].fp = iv[v].fp
                 /\ ~ overlaps_fixed(preg[u], v)}

\* A candidate of the lowest weight.  The order of the array decides between
\* equal weights, and any of them is possible here.
Cheapest(act, v) ==
    {u \in Candidates(act, v) :
        \A x \in Candidates(act, v) : iv[u].weight <= iv[x].weight}

NewSlot == Cardinality({v \in VRegs : slot[v] # NONE})

-----------------------------------------------------------------------------
ScanInit ==
    /\ left = {v \in VRegs : iv[v].end # NONE}
    /\ active = {}
    /\ preg = [v \in VRegs |-> NONE]
    /\ slot = [v \in VRegs |-> NONE]

Current(v) == v \in left /\ \A u \in left : by_start(v, u)

Assign(v) ==
    /\ Current(v)
    /\ choose(Expire(v), v) # NONE
    /\ left' = left \ {v}
    /\ preg' = [preg EXCEPT ![v] = choose(Expire(v), v)]
    /\ active' = Expire(v) \cup {v}
    /\ UNCHANGED slot

\* No register is free, and v is the cheapest.
SpillCurrent(v) ==
    /\ Current(v)
    /\ choose(Expire(v), v) = NONE
    /\ \A u \in Cheapest(Expire(v), v) : iv[u].weight >= iv[v].weight
    /\ left' = left \ {v}
    /\ slot' = [slot EXCEPT ![v] = NewSlot]
    /\ active' = Expire(v)
    /\ UNCHANGED preg

\* Mutant: the victim keeps its register.
SpillVictim_keeps(v, u) ==
    /\ Current(v)
    /\ choose(Expire(v), v) = NONE
    /\ u \in Cheapest(Expire(v), v)
    /\ iv[u].weight < iv[v].weight
    /\ left' = left \ {v}
    /\ preg' = [preg EXCEPT ![v] = preg[u]]
    /\ slot' = [slot EXCEPT ![u] = NewSlot]
    /\ active' = (Expire(v) \ {u}) \cup {v}

\* No register is free, and u gives up its own.
SpillVictim(v, u) ==
    /\ Current(v)
    /\ choose(Expire(v), v) = NONE
    /\ u \in Cheapest(Expire(v), v)
    /\ iv[u].weight < iv[v].weight
    /\ left' = left \ {v}
    /\ preg' = [preg EXCEPT ![u] = NONE, ![v] = preg[u]]
    /\ slot' = [slot EXCEPT ![u] = NewSlot]
    /\ active' = (Expire(v) \ {u}) \cup {v}

ScanStep ==
    \E v \in VRegs :
        Assign(v) \/ SpillCurrent(v) \/ \E u \in VRegs : SpillVictim(v, u)

-----------------------------------------------------------------------------
(* The scan alone, over any intervals and fixed ranges.                    *)

Init ==
    /\ iv \in [VRegs -> Interval]
    /\ \A v \in VRegs : iv[v].end # NONE => iv[v].start <= iv[v].end
    /\ fixed \in [Pregs -> SUBSET FixedRange]
    /\ ScanInit

Next == ScanStep /\ UNCHANGED rangeVars

vars == <<scanVars, rangeVars>>

Spec == Init /\ [][Next]_vars

-----------------------------------------------------------------------------
Overlap(v, u) == iv[v].start <= iv[u].end /\ iv[u].start <= iv[v].end

\* Two values that live at one position never share a register, whatever
\* the hints, the spills and the victims that gave up theirs.
NoSharing ==
    \A v, u \in VRegs : v # u /\ preg[v] # NONE /\ preg[v] = preg[u] =>
        ~ Overlap(v, u)

\* A value is never in a register while the machine code uses that register
\* for a calling convention or a call overwrites it.
FixedRespected ==
    \A v \in VRegs : preg[v] # NONE =>
        is_allocatable(v, preg[v]) /\ ~ overlaps_fixed(preg[v], v)

\* Every value that the scan has passed has a register or a spill slot, not
\* both, and no two values share a spill slot.
PlacedOnce ==
    /\ \A v \in VRegs : iv[v].end # NONE /\ v \notin left =>
          (preg[v] # NONE) # (slot[v] # NONE)
    /\ \A v, u \in VRegs : slot[v] # NONE /\ slot[v] = slot[u] => v = u
=============================================================================
