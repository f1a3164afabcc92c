--------------------------- MODULE RegAllocProofs ---------------------------
(***************************************************************************)
(* The linear scan of src/regalloc.c is safe for every set of intervals,   *)
(* every calling convention and every choice of victims; then the passes   *)
(* around the scan: liveness, the rewritten instructions and the frame,    *)
(* for every function.                                                     *)
(*                                                                         *)
(* None of the properties is inductive.  The scan compares a new interval  *)
(* with the active ones only; ScanInv adds what makes that enough: an      *)
(* interval that has a register and is no longer active ended before every *)
(* interval that is left (PassedOK), and no two active ones hold the same  *)
(* register (ActiveOK).  LiveInv adds what a sweep that has changed        *)
(* nothing so far has established, and that no sweep finds a register that *)
(* is not live.  SavesInv adds which registers the rewritten code can      *)
(* write at all.  FrameInv says that the frame is the one the two loops of *)
(* layout_frame compute; what they compute is proved by induction over     *)
(* their turns (Loops).                                                    *)
(***************************************************************************)
EXTENDS RegAlloc, Loops

ScanType ==
    /\ \A v \in VRegs : /\ iv[v].start \in Nat
                        /\ iv[v].end \in Nat \cup {NONE}
                        /\ iv[v].fp \in BOOLEAN
    /\ fixed \in [Pregs -> SUBSET FixedRange]
    /\ left \subseteq VRegs
    /\ active \subseteq VRegs
    /\ preg \in [VRegs -> Pregs \cup {NONE}]
    /\ slot \in [VRegs -> Nat \cup {NONE}]

LeftOK ==
    \A v \in left : iv[v].end # NONE /\ preg[v] = NONE /\ slot[v] = NONE

ActiveOK ==
    /\ \A v \in active : iv[v].end # NONE /\ preg[v] # NONE
    /\ \A v, u \in active : preg[v] = preg[u] => v = u

PassedOK ==
    \A v \in VRegs \ active : preg[v] # NONE =>
        /\ iv[v].end # NONE
        /\ \A u \in left : iv[v].end < iv[u].start

SlotOK ==
    \A v \in VRegs : slot[v] # NONE => slot[v] < NewSlot

ScanInv ==
    ScanType /\ LeftOK /\ ActiveOK /\ PassedOK /\ SlotOK
      /\ NoSharing /\ FixedRespected /\ PlacedOnce

-----------------------------------------------------------------------------
(* The helpers of the scan.                                                *)

\* Every register that choose answers is one of the class of the interval,
\* held by no active interval and free of fixed ranges over its whole length.
LEMMA ChooseSound ==
    ASSUME ScanType, NEW v \in VRegs, NEW act \in SUBSET VRegs,
           choose(act, v) # NONE
    PROVE  /\ is_allocatable(v, choose(act, v))
           /\ is_free(act, choose(act, v), v)
           /\ choose(act, v) \in Pregs
<1> DEFINE regs == class_registers(v)
           free == {i \in DOMAIN regs : is_free(act, regs[i], v)}
<1>1. regs \in Seq(Pregs)
  <2>1. iv[v].fp \in BOOLEAN
    BY DEF ScanType, Interval
  <2> QED BY <2>1, RegisterAssumption DEF class_registers
<1>2. is_allocatable(v, choose(act, v)) /\ is_free(act, choose(act, v), v)
  <2>1. CASE Hint(v) # NONE /\ is_allocatable(v, Hint(v)) /\ is_free(act, Hint(v), v)
    BY <2>1 DEF choose
  <2>2. CASE ~ (Hint(v) # NONE /\ is_allocatable(v, Hint(v)) /\ is_free(act, Hint(v), v))
    <3>1. choose(act, v) = FirstFree(act, v)
      BY <2>2 DEF choose
    <3>2. free # {}
      BY <3>1 DEF FirstFree
    <3>3. free \subseteq Nat
      BY <1>1
    <3>4. PICK i \in free : \A k \in free : i <= k
      BY <3>2, <3>3, LeastNat
    <3>5. PICK j \in free : FirstFree(act, v) = regs[j]
      BY <3>2, <3>4 DEF FirstFree
    <3> QED BY <3>1, <3>5 DEF is_allocatable
  <2> QED BY <2>1, <2>2
<1>3. choose(act, v) \in Pregs
  BY <1>1, <1>2 DEF is_allocatable
<1> QED BY <1>2, <1>3

\* An interval that holds a register and does not survive the expiry ended
\* before the current interval, and before all the ones that follow it.
LEMMA ExpireOK ==
    ASSUME ScanInv, NEW v \in VRegs, Current(v)
    PROVE  /\ Expire(v) \subseteq active
           /\ \A u \in VRegs \ Expire(v) : preg[u] # NONE =>
                 /\ iv[u].end # NONE
                 /\ \A x \in left : iv[u].end < iv[x].start
<1>1. Expire(v) \subseteq active
  BY DEF Expire
<1>2. \A x \in left : iv[v].start <= iv[x].start
  <2> TAKE x \in left
  <2>1. by_start(v, x) /\ x \in VRegs
    BY DEF Current, ScanInv, ScanType
  <2>2. iv[v].start \in Nat /\ iv[x].start \in Nat
    BY <2>1 DEF ScanInv, ScanType, Interval
  <2> QED BY <2>1, <2>2 DEF by_start
<1>3. ASSUME NEW u \in VRegs \ Expire(v), preg[u] # NONE
      PROVE  iv[u].end # NONE /\ \A x \in left : iv[u].end < iv[x].start
  <2>1. CASE u \notin active
    BY <1>3, <2>1 DEF ScanInv, PassedOK
  <2>2. CASE u \in active
    <3>1. iv[u].end # NONE /\ ~ (iv[u].end >= iv[v].start)
      BY <1>3, <2>2 DEF ScanInv, ActiveOK, Expire
    <3>2. iv[u].end \in Nat /\ iv[v].start \in Nat
      BY <3>1 DEF ScanInv, ScanType, Interval
    <3>3. \A x \in left : iv[x].start \in Nat
      BY DEF ScanInv, ScanType, Interval
    <3> QED BY <1>2, <3>1, <3>2, <3>3
  <2> QED BY <2>1, <2>2
<1> QED BY <1>1, <1>3

\* mach_slot_add numbers the slots in the order it is called.
LEMMA NewSlotNat ==
    ASSUME ScanType
    PROVE  /\ IsFiniteSet({v \in VRegs : slot[v] # NONE})
           /\ NewSlot \in Nat
<1>1. IsFiniteSet({v \in VRegs : slot[v] # NONE})
  BY RegisterAssumption, FS_Subset
<1> QED BY <1>1, FS_CardinalityType DEF NewSlot

LEMMA SlotAdded ==
    ASSUME ScanType, NEW u \in VRegs, slot[u] = NONE,
           slot' = [slot EXCEPT ![u] = NewSlot]
    PROVE  NewSlot' = NewSlot + 1
<1> DEFINE T == {v \in VRegs : slot[v] # NONE}
<1>1. {v \in VRegs : slot'[v] # NONE} = T \cup {u}
  <2>1. NewSlot # NONE
    BY NewSlotNat DEF NONE
  <2> QED BY <2>1 DEF ScanType
<1>2. IsFiniteSet(T) /\ u \notin T
  BY NewSlotNat
<1>3. Cardinality(T \cup {u}) = Cardinality(T) + 1
  BY <1>2, FS_AddElement
<1> QED BY <1>1, <1>3 DEF NewSlot

-----------------------------------------------------------------------------
(* One turn of the loop.                                                   *)

LEMMA AssignPreserves ==
    ASSUME ScanInv, NEW v \in VRegs, Assign(v), UNCHANGED rangeVars
    PROVE  ScanInv'
<1> DEFINE r == choose(Expire(v), v)
<1>1. /\ v \in left /\ Current(v) /\ r # NONE
      /\ left' = left \ {v} /\ preg' = [preg EXCEPT ![v] = r]
      /\ active' = Expire(v) \cup {v} /\ slot' = slot
      /\ iv' = iv /\ fixed' = fixed
  BY DEF Assign, Current, rangeVars
<1>2. /\ Expire(v) \subseteq active
      /\ \A u \in VRegs \ Expire(v) : preg[u] # NONE =>
            iv[u].end # NONE /\ \A x \in left : iv[u].end < iv[x].start
  BY <1>1, ExpireOK
<1>3. is_allocatable(v, r) /\ is_free(Expire(v), r, v) /\ r \in Pregs
  <2>1. ScanType /\ Expire(v) \in SUBSET VRegs
    BY <1>2 DEF ScanInv, ScanType
  <2> QED BY <1>1, <2>1, ChooseSound
<1>4. iv[v].end # NONE /\ preg[v] = NONE /\ slot[v] = NONE
  BY <1>1 DEF ScanInv, LeftOK
<1>5. v \notin active
  BY <1>4 DEF ScanInv, ActiveOK
<1> HIDE DEF r
<1>6. ScanType'
  BY <1>1, <1>2, <1>3 DEF ScanInv, ScanType
<1>7. LeftOK'
  BY <1>1 DEF ScanInv, LeftOK, ScanType
<1>8. ActiveOK'
  <2>1. \A u \in Expire(v) : preg'[u] = preg[u] /\ preg[u] # r /\ preg[u] # NONE
    BY <1>1, <1>2, <1>3, <1>5 DEF is_free, ScanInv, ScanType, ActiveOK
  <2>2. preg'[v] = r
    BY <1>1 DEF ScanInv, ScanType
  <2> QED BY <1>1, <1>2, <1>4, <2>1, <2>2 DEF ScanInv, ActiveOK
<1>9. PassedOK'
  BY <1>1, <1>2 DEF PassedOK, ScanInv, ScanType
<1>10. SlotOK'
  <2>1. NewSlot' = NewSlot
    BY <1>1 DEF NewSlot
  <2> QED BY <1>1, <2>1 DEF ScanInv, SlotOK
<1>11. NoSharing'
  <2>1. ASSUME NEW u \in VRegs, u # v, preg[u] = r
        PROVE  ~ (iv[v].start <= iv[u].end) /\ ~ (iv[u].end >= iv[v].start)
    <3>1. u \notin Expire(v)
      BY <1>3, <2>1 DEF is_free
    <3>2. iv[u].end # NONE /\ iv[u].end < iv[v].start
      BY <1>1, <1>2, <2>1, <3>1
    <3>3. iv[u].end \in Nat /\ iv[v].start \in Nat
      BY <3>2 DEF ScanInv, ScanType, Interval
    <3> QED BY <3>2, <3>3
  <2>2. \A u \in VRegs : u # v => preg'[u] = preg[u]
    BY <1>1 DEF ScanInv, ScanType
  <2>3. preg'[v] = r
    BY <1>1 DEF ScanInv, ScanType
  <2> QED BY <1>1, <2>1, <2>2, <2>3 DEF ScanInv, NoSharing, Overlap
<1>12. FixedRespected'
  <2>1. \A u \in VRegs : u # v => preg'[u] = preg[u]
    BY <1>1 DEF ScanInv, ScanType
  <2>2. preg'[v] = r
    BY <1>1 DEF ScanInv, ScanType
  <2>3. ~ overlaps_fixed(r, v)
    BY <1>3 DEF is_free
  <2> QED
    BY <1>1, <1>3, <2>1, <2>2, <2>3
    DEF ScanInv, FixedRespected, is_allocatable, overlaps_fixed, class_registers
<1>13. PlacedOnce'
  <2>1. \A u \in VRegs : u # v => preg'[u] = preg[u]
    BY <1>1 DEF ScanInv, ScanType
  <2>2. preg'[v] = r
    BY <1>1 DEF ScanInv, ScanType
  <2> QED BY <1>1, <1>4, <2>1, <2>2 DEF ScanInv, PlacedOnce
<1> QED BY <1>6, <1>7, <1>8, <1>9, <1>10, <1>11, <1>12, <1>13 DEF ScanInv

LEMMA SpillCurrentPreserves ==
    ASSUME ScanInv, NEW v \in VRegs, SpillCurrent(v), UNCHANGED rangeVars
    PROVE  ScanInv'
<1>1. /\ v \in left /\ Current(v)
      /\ left' = left \ {v} /\ preg' = preg
      /\ slot' = [slot EXCEPT ![v] = NewSlot]
      /\ active' = Expire(v)
      /\ iv' = iv /\ fixed' = fixed
  BY DEF SpillCurrent, Current, rangeVars
<1>2. /\ Expire(v) \subseteq active
      /\ \A u \in VRegs \ Expire(v) : preg[u] # NONE =>
            iv[u].end # NONE /\ \A x \in left : iv[u].end < iv[x].start
  BY <1>1, ExpireOK
<1>3. preg[v] = NONE /\ slot[v] = NONE
  BY <1>1 DEF ScanInv, LeftOK
<1>4. NewSlot \in Nat /\ NewSlot' = NewSlot + 1
  BY <1>1, <1>3, NewSlotNat, SlotAdded DEF ScanInv
<1>5. \A u \in VRegs : slot'[u] = IF u = v THEN NewSlot ELSE slot[u]
  BY <1>1 DEF ScanInv, ScanType
<1>6. ScanType'
  BY <1>1, <1>2, <1>4 DEF ScanInv, ScanType
<1>7. LeftOK'
  BY <1>1, <1>5 DEF ScanInv, LeftOK, ScanType
<1>8. ActiveOK'
  BY <1>1, <1>2 DEF ScanInv, ActiveOK
<1>9. PassedOK'
  BY <1>1, <1>2 DEF PassedOK
<1>10. SlotOK'
  <2>1. \A u \in VRegs : slot[u] \in Nat \cup {NONE}
    BY DEF ScanInv, ScanType
  <2> QED BY <1>4, <1>5, <2>1 DEF ScanInv, SlotOK
<1>11. NoSharing'
  BY <1>1 DEF ScanInv, NoSharing, Overlap
<1>12. FixedRespected'
  BY <1>1 DEF ScanInv, FixedRespected, is_allocatable, overlaps_fixed, class_registers
<1>13. PlacedOnce'
  <2>1. NewSlot # NONE
    BY <1>4 DEF NONE
  <2>2. \A u \in VRegs : slot[u] # NewSlot
    BY <1>4, <2>1 DEF ScanInv, SlotOK
  <2> QED BY <1>1, <1>3, <1>5, <2>1, <2>2 DEF ScanInv, PlacedOnce
<1> QED BY <1>6, <1>7, <1>8, <1>9, <1>10, <1>11, <1>12, <1>13 DEF ScanInv

LEMMA SpillVictimPreserves ==
    ASSUME ScanInv, NEW v \in VRegs, NEW u \in VRegs, SpillVictim(v, u),
           UNCHANGED rangeVars
    PROVE  ScanInv'
<1>1. /\ v \in left /\ Current(v)
      /\ u \in Expire(v) /\ iv[u].end > iv[v].end /\ iv[u].fp = iv[v].fp
      /\ ~ overlaps_fixed(preg[u], v)
      /\ left' = left \ {v}
      /\ preg' = [preg EXCEPT ![u] = NONE, ![v] = preg[u]]
      /\ slot' = [slot EXCEPT ![u] = NewSlot]
      /\ active' = (Expire(v) \ {u}) \cup {v}
      /\ iv' = iv /\ fixed' = fixed
  BY DEF SpillVictim, Current, Cheapest, Candidates, rangeVars
<1>2. /\ Expire(v) \subseteq active
      /\ \A w \in VRegs \ Expire(v) : preg[w] # NONE =>
            iv[w].end # NONE /\ \A x \in left : iv[w].end < iv[x].start
  BY <1>1, ExpireOK
<1>3. iv[v].end # NONE /\ preg[v] = NONE /\ slot[v] = NONE
  BY <1>1 DEF ScanInv, LeftOK
<1>4. iv[u].end # NONE /\ preg[u] # NONE /\ u # v /\ u \notin left
  BY <1>1, <1>2, <1>3 DEF ScanInv, ActiveOK, LeftOK
<1>5. slot[u] = NONE
  BY <1>4 DEF ScanInv, PlacedOnce
<1>6. NewSlot \in Nat /\ NewSlot' = NewSlot + 1
  BY <1>1, <1>5, NewSlotNat, SlotAdded DEF ScanInv
<1>7. \A w \in VRegs : slot'[w] = IF w = u THEN NewSlot ELSE slot[w]
  BY <1>1 DEF ScanInv, ScanType
<1>8. \A w \in VRegs : preg'[w] = IF w = v THEN preg[u]
                                  ELSE IF w = u THEN NONE ELSE preg[w]
  BY <1>1, <1>4 DEF ScanInv, ScanType
<1>9. ScanType'
  BY <1>1, <1>2, <1>6 DEF ScanInv, ScanType
<1>10. LeftOK'
  BY <1>1, <1>4, <1>7, <1>8 DEF ScanInv, LeftOK, ScanType
<1>11. ActiveOK'
  BY <1>1, <1>2, <1>3, <1>4, <1>8 DEF ScanInv, ActiveOK, ScanType
<1>12. PassedOK'
  BY <1>1, <1>2, <1>8 DEF PassedOK
<1>13. SlotOK'
  <2>1. \A w \in VRegs : slot[w] \in Nat \cup {NONE}
    BY DEF ScanInv, ScanType
  <2> QED BY <1>6, <1>7, <2>1 DEF ScanInv, SlotOK
<1>14. NoSharing'
  <2>1. ASSUME NEW w \in VRegs, w # v, w # u, preg[w] = preg[u]
        PROVE  ~ (iv[v].start <= iv[w].end)
    <3>1. w \notin Expire(v)
      BY <1>1, <1>2, <2>1 DEF ScanInv, ActiveOK
    <3>2. iv[w].end # NONE /\ iv[w].end < iv[v].start
      BY <1>1, <1>2, <1>4, <2>1, <3>1
    <3>3. iv[w].end \in Nat /\ iv[v].start \in Nat
      BY <3>2 DEF ScanInv, ScanType, Interval
    <3> QED BY <3>2, <3>3
  <2> QED BY <1>1, <1>4, <1>8, <2>1 DEF ScanInv, NoSharing, Overlap
<1>15. FixedRespected'
  <2>1. is_allocatable(v, preg[u])
    BY <1>1, <1>4 DEF ScanInv, FixedRespected, is_allocatable, class_registers
  <2>2. \A w \in VRegs : preg'[w] # NONE =>
            is_allocatable(w, preg'[w]) /\ ~ overlaps_fixed(preg'[w], w)
    BY <1>1, <1>8, <2>1 DEF ScanInv, FixedRespected
  <2>3. ASSUME NEW w \in VRegs, NEW r, is_allocatable(w, r) /\ ~ overlaps_fixed(r, w)
        PROVE  is_allocatable(w, r)' /\ ~ overlaps_fixed(r, w)'
    BY <1>1, <2>3 DEF is_allocatable, overlaps_fixed, class_registers
  <2> QED
    BY <2>2, <2>3
    DEF FixedRespected, is_allocatable, overlaps_fixed, class_registers
<1>16. PlacedOnce'
  <2>1. NewSlot # NONE
    BY <1>6 DEF NONE
  <2>2. \A w \in VRegs : slot[w] # NewSlot
    <3> TAKE w \in VRegs
    <3>1. slot[w] = NONE \/ (slot[w] \in Nat /\ slot[w] < NewSlot)
      BY DEF ScanInv, ScanType, SlotOK
    <3> QED BY <1>6, <2>1, <3>1
  <2>3. ASSUME NEW w \in VRegs, iv[w].end # NONE, w \notin left'
        PROVE  (preg'[w] # NONE) # (slot'[w] # NONE)
    <3>1. CASE w = v
      BY <1>3, <1>4, <1>7, <1>8, <3>1
    <3>2. CASE w = u
      BY <1>4, <1>7, <1>8, <2>1, <3>2
    <3>3. CASE w # v /\ w # u
      <4>1. (preg[w] # NONE) # (slot[w] # NONE)
        BY <1>1, <2>3, <3>3 DEF ScanInv, PlacedOnce
      <4> QED BY <1>7, <1>8, <3>3, <4>1
    <3> QED BY <3>1, <3>2, <3>3
  <2>4. \A w, x \in VRegs : slot'[w] # NONE /\ slot'[w] = slot'[x] => w = x
    BY <1>7, <2>2 DEF ScanInv, PlacedOnce
  <2> QED BY <1>1, <2>3, <2>4 DEF PlacedOnce
<1> QED BY <1>9, <1>10, <1>11, <1>12, <1>13, <1>14, <1>15, <1>16 DEF ScanInv

-----------------------------------------------------------------------------
LEMMA ScanStart == Init => ScanInv
<1> SUFFICES ASSUME Init PROVE ScanInv
  OBVIOUS
<1>1. ScanType
  BY DEF Init, ScanInit, ScanType, Interval
<1>2. LeftOK /\ ActiveOK /\ PassedOK /\ SlotOK
  BY DEF Init, ScanInit, LeftOK, ActiveOK, PassedOK, SlotOK
<1>3. NoSharing /\ FixedRespected /\ PlacedOnce
  BY DEF Init, ScanInit, NoSharing, FixedRespected, PlacedOnce
<1> QED BY <1>1, <1>2, <1>3 DEF ScanInv

LEMMA ScanInductive == ScanInv /\ [Next]_vars => ScanInv'
<1> SUFFICES ASSUME ScanInv, [Next]_vars PROVE ScanInv'
  OBVIOUS
<1>1. CASE Next
  BY <1>1, AssignPreserves, SpillCurrentPreserves, SpillVictimPreserves
  DEF Next, ScanStep
<1>2. CASE UNCHANGED vars
  BY <1>2
  DEF vars, scanVars, rangeVars, ScanInv, ScanType, LeftOK, ActiveOK, PassedOK, SlotOK,
      NewSlot, NoSharing, Overlap, FixedRespected, is_allocatable, overlaps_fixed,
      class_registers, PlacedOnce
<1> QED BY <1>1, <1>2

\* ScanInv holds in every state of the scan.
LEMMA ScanInvariant == Spec => []ScanInv
  BY ScanStart, ScanInductive, PTL DEF Spec

\* linear_scan never puts two values that live at one position into one
\* register, for any intervals, hints, spill costs and set of registers.
THEOREM ScanNoSharing == Spec => []NoSharing
<1>1. ScanInv => NoSharing
  BY DEF ScanInv
<1> QED BY <1>1, ScanInvariant, PTL

\* linear_scan gives a value only registers of its own class, none of which
\* the machine code names or a call overwrites while the value lives.
THEOREM ScanRespectsFixed == Spec => []FixedRespected
<1>1. ScanInv => FixedRespected
  BY DEF ScanInv
<1> QED BY <1>1, ScanInvariant, PTL

\* Every interval that the scan has passed has a register or a spill slot of
\* its own, and never both, a victim that gave up its register included.
THEOREM ScanPlacesOnce == Spec => []PlacedOnce
<1>1. ScanInv => PlacedOnce
  BY DEF ScanInv
<1> QED BY <1>1, ScanInvariant, PTL

-----------------------------------------------------------------------------
(* Liveness.                                                               *)

ProgOK == prog \in Programs

\* The blocks of a function are numbered, and control stays in it.
LEMMA BlockFacts ==
    ASSUME ProgOK
    PROVE  /\ Blocks = 1 .. Len(prog.last)
           /\ Len(prog.last) \in Nat /\ Len(prog.last) > 0
           /\ Idx = 1 .. Len(prog.insts)
           /\ Len(prog.insts) \in Nat
           /\ \A b \in Blocks : Members(b) \subseteq Idx
           /\ \A b \in Blocks : successors(b) \subseteq Blocks
<1> USE DEF ProgOK, Blocks, Idx
<1>1. /\ prog.insts \in Seq(Instruction(DOMAIN prog.last))
      /\ prog.last \in Seq(0 .. Len(prog.insts)) /\ prog.last # <<>>
  BY ProgramAssumption
<1>2. /\ Blocks = 1 .. Len(prog.last)
      /\ Len(prog.last) \in Nat /\ Len(prog.last) > 0
      /\ Idx = 1 .. Len(prog.insts)
      /\ Len(prog.insts) \in Nat
  BY <1>1
<1>3. ASSUME NEW b \in Blocks PROVE Members(b) \subseteq Idx
  <2>1. prog.last[b] \in 0 .. Len(prog.insts)
    BY <1>1
  <2>2. First(b) \in Nat /\ First(b) >= 1
    BY <1>1, <1>2 DEF First
  <2> QED BY <1>2, <2>1, <2>2 DEF Members
<1>4. ASSUME NEW b \in Blocks PROVE successors(b) \subseteq Blocks
  <2>1. \A i \in Idx : Inst(i) \in Instruction(Blocks)
    BY <1>1 DEF Inst
  <2>2. \A i \in Idx : Inst(i).to \subseteq Blocks
    BY <2>1 DEF Instruction
  <2>3. Targets(b) \subseteq Blocks
    BY <1>3, <2>2 DEF Targets
  <2> QED BY <2>3 DEF successors
<1> QED BY <1>2, <1>3, <1>4

\* One turn of the search from a set of blocks.
Spread(v, s) == s \cup UNION {successors(c) : c \in {d \in s : v \notin def(d)}}

\* f holds the blocks that n turns of the search find.
SearchOf(f, b, v, n) ==
    /\ f \in [0 .. n -> SUBSET Blocks]
    /\ f[0] = {b}
    /\ \A k \in 1 .. n : f[k] = Spread(v, f[k - 1])

\* The search behind Unwritten.
LEMMA SearchSteps ==
    ASSUME ProgOK, NEW b \in Blocks, NEW v, NEW n \in Nat
    PROVE  \E f : SearchOf(f, b, v, n) /\ Unwritten(b, v, n) = f[n]
<1> DEFINE G == [x \in (SUBSET Blocks) \X (1 .. n) |-> Spread(v, x[1])]
           Search(f) == f = [k \in 0 .. n |->
             IF k = 0 THEN {b}
             ELSE f[k - 1] \cup
                    UNION {successors(c) : c \in {d \in f[k - 1] : v \notin def(d)}}]
           reach == CHOOSE f : Search(f)
<1>1. \A s \in SUBSET Blocks : Spread(v, s) \in SUBSET Blocks
  BY BlockFacts DEF Spread
<1>2. G \in [(SUBSET Blocks) \X (1 .. n) -> SUBSET Blocks]
  BY <1>1
<1>3. {b} \in SUBSET Blocks
  OBVIOUS
<1>4. PICK f : LoopOf(f, SUBSET Blocks, {b}, n, G)
  <2> HIDE DEF G
  <2> QED BY <1>2, <1>3, LoopExists
<1>5. \A k \in 1 .. n : G[<<f[k - 1], k>>] = Spread(v, f[k - 1])
  <2> TAKE k \in 1 .. n
  <2>1. k - 1 \in 0 .. n
    OBVIOUS
  <2>2. <<f[k - 1], k>> \in (SUBSET Blocks) \X (1 .. n)
    BY <1>4, <2>1 DEF LoopOf
  <2> QED BY <2>2
<1>6. Search(f)
  <2>1. \A k \in 0 .. n : k # 0 => k \in 1 .. n
    OBVIOUS
  <2> HIDE DEF G
  <2>2. \A k \in 0 .. n : f[k] = IF k = 0 THEN {b} ELSE Spread(v, f[k - 1])
    BY <1>4, <1>5, <2>1 DEF LoopOf
  <2>3. f = [k \in 0 .. n |-> f[k]]
    BY <1>4 DEF LoopOf
  <2> QED BY <2>2, <2>3 DEF Spread
<1>7. Search(reach)
  BY <1>6
<1>8. Unwritten(b, v, n) = reach[n]
  BY DEF Unwritten
<1> HIDE DEF reach
<1>9. /\ reach[0] = {b}
      /\ \A k \in 1 .. n : reach[k] = Spread(v, reach[k - 1])
      /\ DOMAIN reach = 0 .. n
  BY <1>7 DEF Spread
<1>10. reach \in [0 .. n -> SUBSET Blocks]
  <2> DEFINE T == {k \in 0 .. n : reach[k] \in SUBSET Blocks}
  <2>1. 0 \in T
    BY <1>3, <1>9
  <2>2. \A k \in 1 .. n : k - 1 \in T => k \in T
    BY <1>1, <1>9
  <2>3. T \in SUBSET (0 .. n)
    OBVIOUS
  <2> HIDE DEF T
  <2>4. T = 0 .. n
    BY <2>1, <2>2, <2>3, UpTo
  <2>5. \A k \in 0 .. n : reach[k] \in SUBSET Blocks
    BY <2>4 DEF T
  <2>6. reach = [k \in DOMAIN reach |-> reach[k]]
    BY <1>7
  <2> QED BY <1>9, <2>5, <2>6
<1> QED BY <1>8, <1>9, <1>10 DEF SearchOf

\* The search finds nothing that is not in every set it cannot leave.
LEMMA SearchLeast ==
    ASSUME ProgOK, NEW b \in Blocks, NEW v, NEW n \in Nat,
           NEW C \in SUBSET Blocks, b \in C,
           \A d \in C : v \notin def(d) => successors(d) \subseteq C
    PROVE  Unwritten(b, v, n) \subseteq C
<1>1. PICK f : SearchOf(f, b, v, n) /\ Unwritten(b, v, n) = f[n]
  BY SearchSteps
<1> USE DEF SearchOf
<1> DEFINE T == {k \in 0 .. n : f[k] \subseteq C}
<1>2. 0 \in T
  BY <1>1
<1>3. ASSUME NEW k \in 1 .. n, k - 1 \in T PROVE k \in T
  <2>1. f[k] = Spread(v, f[k - 1]) /\ f[k - 1] \subseteq C
    BY <1>1, <1>3
  <2>2. Spread(v, f[k - 1]) \subseteq C
    BY <2>1 DEF Spread
  <2> QED BY <2>1, <2>2
<1>4. T \in SUBSET (0 .. n)
  OBVIOUS
<1>5. T = 0 .. n
  <2> HIDE DEF T
  <2> QED BY <1>2, <1>3, <1>4, UpTo
<1>6. n \in T
  BY <1>5
<1> QED BY <1>1, <1>6

\* The search over as many turns as there are blocks is complete: every turn
\* that does not end it finds a new block.
LEMMA SearchCloses ==
    ASSUME ProgOK, NEW b \in Blocks, NEW v
    PROVE  LET R == Unwritten(b, v, Len(prog.last))
           IN  /\ R \subseteq Blocks
               /\ b \in R
               /\ \A d \in R : v \notin def(d) => successors(d) \subseteq R
<1> DEFINE n == Len(prog.last)
<1>1. n \in Nat /\ n > 0 /\ Blocks = 1 .. n
  BY BlockFacts
<1> HIDE DEF n
<1>2. PICK f : SearchOf(f, b, v, n) /\ Unwritten(b, v, n) = f[n]
  BY <1>1, SearchSteps
<1> USE DEF SearchOf
<1>3. IsFiniteSet(Blocks) /\ Cardinality(Blocks) = n
  BY <1>1, FS_Interval
<1>4. \A k \in 0 .. n : IsFiniteSet(f[k]) /\ Cardinality(f[k]) \in Nat /\ Cardinality(f[k]) <= n
  BY <1>2, <1>3, FS_Subset, FS_CardinalityType
<1>5. \A k \in 1 .. n : f[k - 1] \subseteq f[k]
  BY <1>2 DEF Spread
<1>6. PICK k \in 1 .. n : f[k] = f[k - 1]
  <2> SUFFICES ASSUME \A k \in 1 .. n : f[k] # f[k - 1] PROVE FALSE
    OBVIOUS
  <2> DEFINE T == {k \in 0 .. n : Cardinality(f[k]) > k}
  <2>1. 0 \in T
    <3>1. Cardinality(f[0]) = 1
      BY <1>2, FS_Singleton
    <3> QED BY <1>1, <3>1
  <2>2. ASSUME NEW k \in 1 .. n, k - 1 \in T PROVE k \in T
    <3>1. k - 1 \in 0 .. n /\ k \in 0 .. n
      BY <1>1
    <3>2. f[k - 1] \subseteq f[k] /\ f[k - 1] # f[k]
      BY <1>5
    <3>3. Cardinality(f[k - 1]) < Cardinality(f[k])
      BY <1>4, <3>1, <3>2, FS_Subset
    <3>4. Cardinality(f[k - 1]) > k - 1
      BY <2>2
    <3> QED BY <1>4, <3>1, <3>3, <3>4
  <2>3. T \in SUBSET (0 .. n)
    OBVIOUS
  <2>4. T = 0 .. n
    <3> HIDE DEF T
    <3> QED BY <1>1, <2>1, <2>2, <2>3, UpTo
  <2>5. n \in T /\ n \in 0 .. n
    BY <1>1, <2>4
  <2>6. Cardinality(f[n]) > n
    BY <2>5
  <2> QED BY <1>1, <1>4, <2>5, <2>6
<1>7. f[n] = f[k]
  <2> DEFINE T == {j \in 0 .. n : j < k \/ f[j] = f[k]}
  <2>1. 0 \in T
    BY <1>1
  <2>2. ASSUME NEW j \in 1 .. n, j - 1 \in T PROVE j \in T
    <3>1. CASE j <= k
      BY <3>1
    <3>2. CASE j > k
      <4>1. f[j - 1] = f[k]
        BY <2>2, <3>2
      <4>2. f[j] = Spread(v, f[k])
        BY <1>2, <4>1
      <4>3. f[k] = Spread(v, f[k])
        BY <1>2, <1>6
      <4> QED BY <4>2, <4>3
    <3> QED BY <3>1, <3>2
  <2>3. T \in SUBSET (0 .. n)
    OBVIOUS
  <2>4. T = 0 .. n
    <3> HIDE DEF T
    <3> QED BY <1>1, <2>1, <2>2, <2>3, UpTo
  <2>5. n \in T
    BY <1>1, <2>4
  <2> QED BY <1>1, <2>5
<1>8. f[n] = Spread(v, f[n])
  BY <1>2, <1>6, <1>7
<1>9. f[n] \subseteq Blocks
  BY <1>1, <1>2
<1>10. b \in f[n]
  <2> DEFINE T == {j \in 0 .. n : b \in f[j]}
  <2>1. 0 \in T
    BY <1>1, <1>2
  <2>2. \A j \in 1 .. n : j - 1 \in T => j \in T
    BY <1>5
  <2>3. T \in SUBSET (0 .. n)
    OBVIOUS
  <2>4. T = 0 .. n
    <3> HIDE DEF T
    <3> QED BY <1>1, <2>1, <2>2, <2>3, UpTo
  <2>5. n \in T
    BY <1>1, <2>4
  <2> QED BY <2>5
<1>11. \A d \in f[n] : v \notin def(d) => successors(d) \subseteq f[n]
  BY <1>8 DEF Spread
<1> QED BY <1>2, <1>9, <1>10, <1>11 DEF n

\* The equations of the dataflow problem at block b.
Solved(b) ==
    /\ live_out[b] = UNION {live_in[s] : s \in successors(b)}
    /\ live_in[b] = use(b) \cup (live_out[b] \ def(b))

\* Something after the start of b reads v before a write.
ReadAfter(b, v) == \E c \in Unwritten(b, v, Len(prog.last)) : v \in use(c)

\* The sweep goes from the last block to the first: while it has changed
\* nothing, the equations hold at the blocks it has passed.  What it has
\* found at any time is live.
LiveInv ==
    /\ ProgOK
    /\ live_in \in [Blocks -> SUBSET VRegs]
    /\ live_out \in [Blocks -> SUBSET VRegs]
    /\ block \in Blocks
    /\ changed \in BOOLEAN
    /\ phase = "select" => block = Len(prog.last) /\ \A b \in Blocks : live_in[b] = {}
    /\ phase = "live" /\ ~ changed => \A b \in Blocks : b > block => Solved(b)
    /\ phase = "intervals" => \A b \in Blocks : Solved(b)
    /\ \A b \in Blocks : \A v \in live_in[b] : ReadAfter(b, v)

\* A solution that holds only what is live is exact: what is not in it stays
\* out of it along every path that does not write it.
LEMMA SolutionExact ==
    ASSUME LiveInv PROVE LiveExact
<1> SUFFICES ASSUME phase = "intervals", NEW b \in Blocks, NEW v \in VRegs,
                    v \notin live_in[b],
                    NEW c \in Unwritten(b, v, Len(prog.last)), v \in use(c)
             PROVE  FALSE
  BY DEF LiveExact, LiveInv, ReadAfter
<1>1. ProgOK /\ \A d \in Blocks : Solved(d)
  BY DEF LiveInv
<1> DEFINE C == {d \in Blocks : v \notin live_in[d]}
<1>2. ASSUME NEW d \in C, v \notin def(d) PROVE successors(d) \subseteq C
  <2>1. successors(d) \subseteq Blocks
    BY <1>1, BlockFacts
  <2>2. \A s \in successors(d) : v \notin live_in[s]
    BY <1>1, <1>2 DEF Solved
  <2> QED BY <2>1, <2>2
<1>3. Unwritten(b, v, Len(prog.last)) \subseteq C
  <2>1. Len(prog.last) \in Nat
    BY <1>1, BlockFacts
  <2>2. b \in C /\ C \in SUBSET Blocks
    OBVIOUS
  <2> HIDE DEF C
  <2> QED BY <1>1, <1>2, <2>1, <2>2, SearchLeast
<1>4. c \in Blocks /\ v \notin live_in[c]
  BY <1>3
<1> QED BY <1>1, <1>4 DEF Solved

\* What is live into a successor is live into the block that does not write it.
LEMMA ReadThrough ==
    ASSUME ProgOK, NEW b \in Blocks, NEW v, v \notin def(b),
           NEW s \in successors(b), ReadAfter(s, v)
    PROVE  ReadAfter(b, v)
<1> DEFINE R == Unwritten(b, v, Len(prog.last))
<1>1. s \in Blocks /\ Len(prog.last) \in Nat
  BY BlockFacts
<1>2. /\ R \subseteq Blocks
      /\ b \in R
      /\ \A d \in R : v \notin def(d) => successors(d) \subseteq R
  BY SearchCloses
<1>3. s \in R /\ R \in SUBSET Blocks
  BY <1>2
<1>4. Unwritten(s, v, Len(prog.last)) \subseteq R
  <2> HIDE DEF R
  <2> QED BY <1>1, <1>2, <1>3, SearchLeast
<1> QED BY <1>4 DEF ReadAfter

\* The problem stays the same while the code does.
LEMMA SameFlow ==
    ASSUME prog' = prog, code' = code
    PROVE  /\ Blocks' = Blocks
           /\ \A b : /\ use(b)' = use(b)
                     /\ def(b)' = def(b)
                     /\ successors(b)' = successors(b)
           /\ \A b, v : ReadAfter(b, v)' = ReadAfter(b, v)
<1>1. \A b : Points(b)' = Points(b) /\ Members(b)' = Members(b)
  BY DEF Points, Members, First
<1>2. \A x : At(x)' = At(x) /\ Reads(x)' = Reads(x)
  BY DEF At, Reads
<1>3. Blocks' = Blocks /\ \A i : Inst(i)' = Inst(i)
  BY DEF Blocks, Inst
<1>4. \A b : use(b)' = use(b) /\ def(b)' = def(b)
  BY <1>1, <1>2 DEF use, def
<1>5. \A b : successors(b)' = successors(b)
  BY <1>1, <1>3 DEF successors, Targets
<1>6. \A b, v, n : Unwritten(b, v, n)' = Unwritten(b, v, n)
  BY DEF Unwritten, successors, Targets, Inst, Members, First, def, Points, At, Blocks
<1>7. \A b, v : ReadAfter(b, v)' = ReadAfter(b, v)
  BY <1>4, <1>6 DEF ReadAfter
<1> QED BY <1>3, <1>4, <1>5, <1>7

LEMMA LiveInit ==
    ASSUME AllocInit PROVE LiveInv
<1>1. ProgOK
  BY DEF AllocInit, ProgOK
<1>2. Len(prog.last) \in Blocks
  BY <1>1, BlockFacts
<1>3. \A b \in Blocks : live_in[b] = {}
  BY DEF AllocInit
<1> QED BY <1>1, <1>2, <1>3 DEF AllocInit, LiveInv, ScanInit

\* One turn of the sweep.
LEMMA LiveTurn ==
    ASSUME LiveInv, LiveBlock PROVE LiveInv'
<1> DEFINE out == UNION {live_in[s] : s \in successors(block)}
           in  == use(block) \cup (out \ def(block))
           new == changed \/ out # live_out[block] \/ in # live_in[block]
<1>1. /\ ProgOK /\ ProgOK'
      /\ live_in \in [Blocks -> SUBSET VRegs]
      /\ live_out \in [Blocks -> SUBSET VRegs]
      /\ block \in Blocks
      /\ changed \in BOOLEAN
      /\ phase = "live"
      /\ prog' = prog /\ code' = code
  BY DEF LiveInv, LiveBlock, ProgOK
<1>2. /\ live_out' = [live_out EXCEPT ![block] = out]
      /\ live_in' = [live_in EXCEPT ![block] = in]
      /\ changed' = IF block = 1 THEN FALSE ELSE new
      /\ phase' = IF block = 1 /\ ~ new THEN "intervals" ELSE "live"
      /\ block' = IF block = 1 THEN Len(prog.last) ELSE block - 1
  BY DEF LiveBlock
<1>3. /\ Blocks' = Blocks
      /\ \A b : /\ use(b)' = use(b)
                /\ def(b)' = def(b)
                /\ successors(b)' = successors(b)
      /\ \A b, v : ReadAfter(b, v)' = ReadAfter(b, v)
  BY <1>1, SameFlow
<1>4. /\ Blocks = 1 .. Len(prog.last)
      /\ Len(prog.last) \in Nat /\ Len(prog.last) > 0
      /\ \A b \in Blocks : successors(b) \subseteq Blocks
  BY <1>1, BlockFacts
<1>5. out \in SUBSET VRegs /\ in \in SUBSET VRegs
  <2>1. use(block) \subseteq VRegs
    BY DEF use
  <2>2. out \in SUBSET VRegs
    BY <1>1, <1>4
  <2> QED BY <2>1, <2>2
<1>6. /\ live_in' \in [Blocks' -> SUBSET VRegs]
      /\ live_out' \in [Blocks' -> SUBSET VRegs]
  BY <1>1, <1>2, <1>3, <1>5
<1>7. block' \in Blocks'
  BY <1>1, <1>2, <1>3, <1>4
<1>8. changed' \in BOOLEAN
  BY <1>1, <1>2
<1>9. phase' # "select"
  BY <1>2
<1>10. ASSUME ~ new PROVE live_in' = live_in /\ live_out' = live_out
  BY <1>1, <1>2, <1>10
<1>11. ASSUME ~ new, NEW b \in Blocks, b >= block PROVE Solved(b)'
  <2>1. CASE b = block
    <3>1. live_out[block] = out /\ live_in[block] = in
      BY <1>11
    <3>2. live_out'[b] = UNION {live_in'[s] : s \in successors(b)}
      BY <1>10, <1>11, <2>1, <3>1
    <3>3. live_in'[b] = use(b) \cup (live_out'[b] \ def(b))
      BY <1>10, <1>11, <2>1, <3>1
    <3> QED BY <1>3, <3>2, <3>3 DEF Solved
  <2>2. CASE b # block
    <3>1. b > block
      BY <1>1, <1>4, <1>11, <2>2
    <3>2. Solved(b)
      BY <1>1, <1>11, <3>1 DEF LiveInv
    <3> QED BY <1>3, <1>10, <1>11, <3>2 DEF Solved
  <2> QED BY <2>1, <2>2
<1>12. ASSUME phase' = "live", ~ changed', NEW b \in Blocks, b > block'
       PROVE  Solved(b)'
  <2>1. CASE block = 1
    BY <1>2, <1>4, <1>12, <2>1
  <2>2. CASE block # 1
    <3>1. ~ new /\ b > block - 1
      BY <1>2, <1>12, <2>2
    <3>2. b >= block
      BY <1>1, <1>4, <3>1
    <3> QED BY <1>11, <3>1, <3>2
  <2> QED BY <2>1, <2>2
<1>13. ASSUME phase' = "intervals", NEW b \in Blocks PROVE Solved(b)'
  <2>1. block = 1 /\ ~ new
    BY <1>2, <1>13
  <2>2. b >= block
    BY <1>4, <2>1
  <2> QED BY <1>11, <2>1, <2>2
<1>14. ASSUME NEW b \in Blocks, NEW v \in live_in'[b] PROVE ReadAfter(b, v)
  <2>1. CASE b # block
    <3>1. v \in live_in[b]
      BY <1>1, <1>2, <2>1
    <3> QED BY <1>1, <3>1 DEF LiveInv
  <2>2. CASE b = block
    <3>1. v \in in
      BY <1>1, <1>2, <2>2
    <3>2. CASE v \in use(b)
      <4>1. b \in Unwritten(b, v, Len(prog.last))
        BY <1>1, SearchCloses
      <4> QED BY <3>2, <4>1 DEF ReadAfter
    <3>3. CASE v \notin use(b)
      <4>1. v \in out /\ v \notin def(b)
        BY <2>2, <3>1, <3>3
      <4>2. PICK s \in successors(b) : v \in live_in[s]
        BY <2>2, <4>1
      <4>3. ReadAfter(s, v)
        BY <1>1, <1>4, <4>2 DEF LiveInv
      <4> QED BY <1>1, <4>1, <4>2, <4>3, ReadThrough
    <3> QED BY <3>2, <3>3
  <2> QED BY <2>1, <2>2
<1> HIDE DEF out, in, new
<1> QED BY <1>1, <1>3, <1>6, <1>7, <1>8, <1>9, <1>12, <1>13, <1>14 DEF LiveInv

\* Every pass leaves the liveness alone but the sweep.
LEMMA LiveNext ==
    ASSUME LiveInv, [AllocNext]_allVars PROVE LiveInv'
<1> USE DEF liveVars, execVars, scanVars, rangeVars
<1>1. CASE LiveBlock
  BY <1>1, LiveTurn
<1>2. CASE Rematerialise
  <2>1. /\ ProgOK /\ ProgOK'
        /\ Blocks' = Blocks /\ prog' = prog
        /\ phase' = "live" /\ phase = "select"
        /\ UNCHANGED <<live_in, live_out, block, changed>>
    BY <1>2 DEF Rematerialise, LiveInv, ProgOK, Blocks
  <2>2. Blocks = 1 .. Len(prog.last) /\ Len(prog.last) \in Nat
    BY <2>1, BlockFacts
  <2>3. block = Len(prog.last) /\ \A b \in Blocks : live_in[b] = {}
    BY <2>1 DEF LiveInv
  <2>4. \A b \in Blocks' : ~ (b > block')
    BY <2>1, <2>2, <2>3
  <2>5. \A b \in Blocks' : live_in'[b] = {}
    BY <2>1, <2>3
  <2>6. /\ live_in' \in [Blocks' -> SUBSET VRegs]
        /\ live_out' \in [Blocks' -> SUBSET VRegs]
        /\ block' \in Blocks'
        /\ changed' \in BOOLEAN
    BY <2>1 DEF LiveInv
  <2> QED BY <2>1, <2>4, <2>5, <2>6 DEF LiveInv
<1>3. ASSUME \/ BuildIntervals \/ Scan \/ LayoutFrame \/ RunCopy \/ RunInst \/ RunRet
             \/ UNCHANGED allVars
      PROVE  LiveInv'
  <2>1. /\ UNCHANGED <<prog, code, live_in, live_out, block, changed>>
        /\ \/ phase' = phase
           \/ phase' \notin {"select", "live", "intervals"}
    BY <1>3 DEF BuildIntervals, Scan, LayoutFrame, RunCopy, RunInst, RunRet, allVars
  <2>2. /\ ProgOK'
        /\ Blocks' = Blocks
        /\ \A b : /\ use(b)' = use(b)
                  /\ def(b)' = def(b)
                  /\ successors(b)' = successors(b)
        /\ \A b, v : ReadAfter(b, v)' = ReadAfter(b, v)
    BY <2>1, SameFlow DEF LiveInv, ProgOK
  <2>3. \A b : Solved(b)' = Solved(b)
    BY <2>1, <2>2 DEF Solved
  <2>4. phase' = phase \/ (phase' # "select" /\ phase' # "live" /\ phase' # "intervals")
    BY <2>1
  <2> QED BY <2>1, <2>2, <2>3, <2>4 DEF LiveInv
<1> QED BY <1>1, <1>2, <1>3 DEF AllocNext

\* compute_liveness answers the registers that are live, no more and no
\* fewer, for every function and every shape of its loops.
THEOREM LivenessExact == AllocSpec => []LiveExact
<1>1. AllocInit => LiveInv
  BY LiveInit
<1>2. LiveInv /\ [AllocNext]_allVars => LiveInv'
  BY LiveNext
<1>3. LiveInv => LiveExact
  BY SolutionExact
<1> QED BY <1>1, <1>2, <1>3, PTL DEF AllocSpec

-----------------------------------------------------------------------------
(* The rewritten instructions.                                             *)

LEMMA MaxIsLargest ==
    ASSUME NEW N \in Nat, NEW S \in SUBSET (0 .. N), S # {}
    PROVE  Max(S) \in S /\ \A k \in S : k <= Max(S)
<1> DEFINE D == {N - k : k \in S}
<1>1. D \in SUBSET Nat /\ D # {}
  <2>1. \A k \in S : N - k \in Nat
    OBVIOUS
  <2>2. PICK k \in S : TRUE
    OBVIOUS
  <2>3. N - k \in D
    BY <2>2
  <2> QED BY <2>1, <2>3
<1>2. PICK d \in D : \A e \in D : d <= e
  <2> HIDE DEF D
  <2> QED BY <1>1, LeastNat
<1>3. PICK m \in S : d = N - m
  BY <1>2
<1>4. \A k \in S : k \in 0 .. N /\ m \in 0 .. N /\ N - m <= N - k
  BY <1>2, <1>3
<1>5. \A k \in S : m >= k
  BY <1>4
<1>6. Max(S) \in S /\ \A k \in S : Max(S) >= k
  BY <1>3, <1>5 DEF Max
<1> QED BY <1>4, <1>6

\* Instructions that write no callee-saved register, and the items of the
\* code made of them.
SafeInsts == {x \in Instruction(Blocks) : x.kills \cap callee_saved = {}}
Items == [inst : SafeInsts, at : Idx]

LEMMA InstFacts ==
    ASSUME ProgOK
    PROVE  /\ \A i \in Idx : Inst(i) \in SafeInsts /\ Inst(i).reads \in Seq(Operand)
           /\ VCount .. VCount + Cardinality(ConstantReads(prog)) \subseteq VRegs
           /\ VCount \in Nat
<1> USE DEF ProgOK
<1>1. /\ prog.insts \in Seq(Instruction(DOMAIN prog.last))
      /\ \A i \in DOMAIN prog.insts : prog.insts[i].kills \cap callee_saved = {}
      /\ VCount .. VCount + Cardinality(ConstantReads(prog)) \subseteq VRegs
      /\ VCount \in Nat
  BY ProgramAssumption
<1>2. \A i \in Idx : Inst(i) \in Instruction(Blocks) /\ Inst(i).kills \cap callee_saved = {}
  BY <1>1 DEF Inst, Idx, Blocks
<1>3. \A i \in Idx : Inst(i).reads \in Seq(Operand)
  BY <1>2 DEF Instruction
<1> QED BY <1>1, <1>2, <1>3 DEF SafeInsts

\* The entry of a register in `definition` is its last writer.
LEMMA DefinitionFacts ==
    ASSUME ProgOK, NEW v, definition(v) # 0
    PROVE  /\ definition(v) \in Idx
           /\ defines_constant(Inst(definition(v)))
           /\ Inst(definition(v)).def = v
<1> DEFINE writers == {i \in Idx : Entry(i) = v}
<1>1. writers # {} /\ defines_constant(Inst(Max(writers)))
      /\ definition(v) = Max(writers)
  BY DEF definition
<1>2. Idx = 1 .. Len(prog.insts) /\ Len(prog.insts) \in Nat
  BY BlockFacts
<1>3. Max(writers) \in writers
  <2>1. writers \in SUBSET (0 .. Len(prog.insts))
    BY <1>2
  <2> HIDE DEF writers
  <2> QED BY <1>1, <1>2, <2>1, MaxIsLargest
<1>4. Entry(Max(writers)) = v /\ Max(writers) \in Idx
  BY <1>3
<1> HIDE DEF writers
<1> QED BY <1>1, <1>4 DEF Entry, defines_constant

\* VRegs has room for a register for every copy.
LEMMA MadeFits ==
    ASSUME ProgOK, NEW i, NEW j
    PROVE  Made(i, j) \in VRegs
<1> DEFINE S == {x \in Replacements : Earlier(x, <<i, j>>)}
           C == ConstantReads(prog)
<1>1. Replacements \subseteq C
  <2> SUFFICES ASSUME NEW x \in Replacements PROVE x \in C
    OBVIOUS
  <2>1. /\ x \in Idx \X (1 .. 4)
        /\ x[2] \in DOMAIN Inst(x[1]).reads
        /\ definition(Inst(x[1]).reads[x[2]].v) # 0
    BY DEF Replacements, Replaced
  <2> DEFINE d == definition(Inst(x[1]).reads[x[2]].v)
  <2>2. d \in Idx /\ Inst(d).imm /\ Inst(d).def = Inst(x[1]).reads[x[2]].v
    BY <2>1, DefinitionFacts DEF defines_constant
  <2> HIDE DEF d
  <2> QED BY <2>1, <2>2 DEF ConstantReads, Inst, Idx
<1>2. IsFiniteSet(C)
  <2>1. Idx = 1 .. Len(prog.insts) /\ Len(prog.insts) \in Nat
    BY BlockFacts
  <2>2. IsFiniteSet(Idx) /\ IsFiniteSet(1 .. 4)
    <3>1. \A m \in Nat : IsFiniteSet(1 .. m)
      BY FS_Interval
    <3>2. 4 \in Nat
      OBVIOUS
    <3> QED BY <2>1, <3>1, <3>2
  <2>3. IsFiniteSet(Idx \X (1 .. 4))
    BY <2>2, FS_Product
  <2>4. C \subseteq Idx \X (1 .. 4)
    BY DEF ConstantReads, Idx
  <2> QED BY <2>3, <2>4, FS_Subset
<1>3. S \subseteq C
  BY <1>1
<1>4. Cardinality(S) \in Nat /\ Cardinality(C) \in Nat /\ Cardinality(S) <= Cardinality(C)
  <2> HIDE DEF S, C
  <2> QED BY <1>2, <1>3, FS_Subset, FS_CardinalityType
<1>5. Made(i, j) = VCount + Cardinality(S)
  BY DEF Made
<1>6. VCount .. VCount + Cardinality(C) \subseteq VRegs /\ VCount \in Nat
  BY InstFacts
<1> HIDE DEF S, C
<1> QED BY <1>4, <1>5, <1>6

\* A copy is an instruction of the function that defines another register.
LEMMA CopyFits ==
    ASSUME ProgOK, NEW i \in Idx, NEW j \in DOMAIN Inst(i).reads, Replaced(i, j)
    PROVE  CopyFor(i, j) \in Items
<1> DEFINE d == definition(Inst(i).reads[j].v)
<1>1. d \in Idx
  BY DefinitionFacts DEF Replaced
<1>2. Made(i, j) \in VRegs
  BY MadeFits
<1> HIDE DEF d
<1>3. Inst(d) \in SafeInsts
  BY <1>1, InstFacts
<1>4. [Inst(d) EXCEPT !.def = Made(i, j)] \in SafeInsts
  BY <1>2, <1>3 DEF SafeInsts, Instruction
<1> QED BY <1>1, <1>4 DEF CopyFor, Items, d

\* The loop over the operands of an instruction appends copies.
LEMMA CopiesSteps ==
    ASSUME ProgOK, NEW i \in Idx, NEW N, N = Len(Inst(i).reads)
    PROVE  \E f \in [0 .. N -> Seq(Items)] :
              /\ f[0] = <<>> /\ Copies(i) = f[N]
              /\ \A j \in 1 .. N :
                    f[j] = IF Replaced(i, j) THEN Append(f[j - 1], CopyFor(i, j))
                           ELSE f[j - 1]
<1> DEFINE G == [x \in Seq(Items) \X (1 .. N) |->
                   IF Replaced(i, x[2]) THEN Append(x[1], CopyFor(i, x[2])) ELSE x[1]]
           Loop(f) == f = [j \in 0 .. N |->
             IF j = 0 THEN <<>>
             ELSE IF Replaced(i, j) THEN Append(f[j - 1], CopyFor(i, j))
             ELSE f[j - 1]]
           upto == CHOOSE f : Loop(f)
<1>1. N \in Nat /\ DOMAIN Inst(i).reads = 1 .. N
  BY InstFacts
<1>2. \A j \in 1 .. N : Replaced(i, j) => CopyFor(i, j) \in Items
  BY <1>1, CopyFits
<1>3. G \in [Seq(Items) \X (1 .. N) -> Seq(Items)]
  BY <1>2
<1>4. <<>> \in Seq(Items)
  OBVIOUS
<1>5. PICK f : LoopOf(f, Seq(Items), <<>>, N, G)
  <2> HIDE DEF G
  <2> QED BY <1>1, <1>3, <1>4, LoopExists
<1>6. \A j \in 1 .. N : G[<<f[j - 1], j>>] =
         IF Replaced(i, j) THEN Append(f[j - 1], CopyFor(i, j)) ELSE f[j - 1]
  <2> TAKE j \in 1 .. N
  <2>1. j - 1 \in 0 .. N
    BY <1>1
  <2>2. <<f[j - 1], j>> \in Seq(Items) \X (1 .. N)
    BY <1>5, <2>1 DEF LoopOf
  <2> QED BY <2>2
<1>7. Loop(f)
  <2> HIDE DEF G
  <2>1. \A j \in 0 .. N : j # 0 => j \in 1 .. N
    BY <1>1
  <2>2. \A j \in 0 .. N : f[j] = IF j = 0 THEN <<>>
             ELSE IF Replaced(i, j) THEN Append(f[j - 1], CopyFor(i, j))
             ELSE f[j - 1]
    BY <1>5, <1>6, <2>1 DEF LoopOf
  <2>3. f = [j \in 0 .. N |-> f[j]]
    BY <1>5 DEF LoopOf
  <2> QED BY <2>2, <2>3
<1>8. Loop(upto)
  BY <1>7
<1>9. Copies(i) = upto[N]
  BY DEF Copies
<1> HIDE DEF upto
<1> DEFINE Turn(q, j) == IF Replaced(i, j) THEN Append(q, CopyFor(i, j)) ELSE q
<1>10. /\ upto[0] = <<>>
       /\ \A j \in 1 .. N : upto[j] = Turn(upto[j - 1], j)
  <2>1. upto = [j \in 0 .. N |-> IF j = 0 THEN <<>> ELSE Turn(upto[j - 1], j)]
    BY <1>8
  <2>2. 0 \in 0 .. N /\ \A j \in 1 .. N : j \in 0 .. N /\ j # 0
    BY <1>1
  <2> HIDE DEF Turn, Loop
  <2>3. \A j \in 0 .. N : upto[j] = IF j = 0 THEN <<>> ELSE Turn(upto[j - 1], j)
    BY ONLY <2>1
  <2> QED BY ONLY <2>2, <2>3
<1>11. \A q \in Seq(Items) : \A j \in 1 .. N : Turn(q, j) \in Seq(Items)
  BY <1>2
<1> HIDE DEF Turn, Loop
<1> DEFINE T == {j \in 0 .. N : upto[j] \in Seq(Items)}
<1>12. 0 \in T /\ \A j \in 1 .. N : j - 1 \in T => j \in T
  <2>1. 0 \in T
    <3>1. upto[0] \in Seq(Items)
      BY ONLY <1>4, <1>10, Zenon
    <3>2. 0 \in 0 .. N
      BY <1>1
    <3> QED BY <3>1, <3>2
  <2>2. ASSUME NEW j \in 1 .. N, j - 1 \in T PROVE j \in T
    <3>1. upto[j - 1] \in Seq(Items) /\ j \in 0 .. N
      BY <2>2
    <3>2. upto[j] \in Seq(Items)
      BY ONLY <1>10, <1>11, <3>1, j \in 1 .. N
    <3> QED BY <3>1, <3>2
  <2> QED BY <2>1, <2>2
<1>13. T = 0 .. N
  <2>1. T \in SUBSET (0 .. N)
    OBVIOUS
  <2> HIDE DEF T
  <2> QED BY <1>1, <1>12, <2>1, UpTo
<1>14. upto \in [0 .. N -> Seq(Items)]
  BY <1>8, <1>13 DEF Loop
<1> QED BY <1>9, <1>10, <1>14 DEF Turn

LEMMA CopiesFit ==
    ASSUME ProgOK, NEW i \in Idx
    PROVE  Copies(i) \in Seq(Items)
<1> DEFINE N == Len(Inst(i).reads)
<1>1. N \in Nat
  BY InstFacts
<1>2. \E f \in [0 .. N -> Seq(Items)] : Copies(i) = f[N]
  BY CopiesSteps
<1> HIDE DEF N
<1> QED BY <1>1, <1>2

\* What replaces an instruction.
LEMMA RebuiltFits ==
    ASSUME ProgOK, NEW i \in Idx
    PROVE  Rebuilt(i) \in Seq(Items)
<1>1. Inst(i) \in SafeInsts /\ Inst(i).reads \in Seq(Operand)
  BY InstFacts
<1> DEFINE reads == [j \in DOMAIN Inst(i).reads |->
                       IF Replaced(i, j)
                       THEN [Inst(i).reads[j] EXCEPT !.v = Made(i, j)]
                       ELSE Inst(i).reads[j]]
<1>2. \A j \in DOMAIN Inst(i).reads : reads[j] \in Operand
  <2> TAKE j \in DOMAIN Inst(i).reads
  <2>1. Inst(i).reads[j] \in Operand
    BY <1>1
  <2>2. Made(i, j) \in VRegs
    BY MadeFits
  <2> QED BY <2>1, <2>2 DEF Operand
<1>3. reads \in Seq(Operand)
  <2>1. DOMAIN Inst(i).reads = 1 .. Len(Inst(i).reads) /\ Len(Inst(i).reads) \in Nat
    BY <1>1
  <2>2. DOMAIN reads = DOMAIN Inst(i).reads
    OBVIOUS
  <2>3. reads = [j \in 1 .. Len(Inst(i).reads) |-> reads[j]]
    BY <2>1
  <2> HIDE DEF reads
  <2>4. \A n \in Nat : \A s : s = [j \in 1 .. n |-> s[j]] /\ (\A j \in 1 .. n : s[j] \in Operand)
                                => s \in Seq(Operand)
    OBVIOUS
  <2> QED BY <1>2, <2>1, <2>3, <2>4
<1> HIDE DEF reads
<1>4. [Inst(i) EXCEPT !.reads = reads] \in SafeInsts
  BY <1>1, <1>3 DEF SafeInsts, Instruction
<1>5. Kept(i) \in Items
  BY <1>4 DEF Kept, Items, reads
<1>6. Copies(i) \in Seq(Items)
  BY CopiesFit
<1> QED BY <1>5, <1>6 DEF Rebuilt

-----------------------------------------------------------------------------
(* Callee-saved registers.                                                 *)

FloatOK == \A v \in VRegs : iv[v].fp \in BOOLEAN

\* A spilled register never goes through a callee-saved one.
LEMMA ReloadScratch ==
    ASSUME FloatOK, NEW inst, inst.reads \in Seq(Operand), NEW j \in DOMAIN inst.reads
    PROVE  ReloadReg(inst, j) \notin callee_saved
<1> DEFINE fp == iv[inst.reads[j].v].fp
           S == {k \in Reloads(inst) : k < j /\ iv[inst.reads[k].v].fp = fp}
<1>1. fp \in BOOLEAN
  <2>1. inst.reads[j] \in Operand
    OBVIOUS
  <2>2. inst.reads[j].v \in VRegs
    BY <2>1 DEF Operand
  <2> QED BY <2>2 DEF FloatOK
<1>2. Cardinality(S) \in Nat
  <2>1. Len(inst.reads) \in Nat /\ DOMAIN inst.reads = 1 .. Len(inst.reads)
    OBVIOUS
  <2>2. IsFiniteSet(1 .. Len(inst.reads))
    <3>1. \A m \in Nat : IsFiniteSet(1 .. m)
      BY FS_Interval
    <3> QED BY <2>1, <3>1
  <2>3. S \subseteq 1 .. Len(inst.reads)
    BY <2>1 DEF Reloads
  <2>4. IsFiniteSet(S)
    BY <2>2, <2>3, FS_Subset
  <2> QED BY <2>4, FS_CardinalityType
<1>3. ReloadReg(inst, j) = scratch_at(fp, Cardinality(S))
  BY DEF ReloadReg
<1> HIDE DEF fp, S
<1>4. CASE Cardinality(S) < 2
  <2>1. Cardinality(S) = 0 \/ Cardinality(S) = 1
    BY <1>2, <1>4
  <2>2. scratch_at(fp, Cardinality(S)) \in {scratch[fp][1], scratch[fp][2]}
    BY <1>4, <2>1 DEF scratch_at
  <2> QED BY <1>1, <1>3, <2>2, ConventionAssumption
<1>5. CASE ~ (Cardinality(S) < 2)
  BY <1>1, <1>3, <1>5, ConventionAssumption DEF scratch_at
<1> QED BY <1>4, <1>5

\* A register that place answers is a scratch register, or one that the scan
\* gave to an interval and the frame saves when it is callee-saved.
LEMMA PlaceSaved ==
    ASSUME FloatOK, NEW inst, inst.reads \in Seq(Operand), NEW v \in VRegs,
           place(inst, v) \in callee_saved
    PROVE  place(inst, v) \in Saved
<1>1. CASE ~ Spilled(v)
  BY <1>1 DEF place, Saved
<1>2. CASE Spilled(v) /\ \E j \in Reloads(inst) : inst.reads[j].v = v
  <2> DEFINE j == CHOOSE j \in Reloads(inst) : inst.reads[j].v = v
  <2>1. j \in Reloads(inst)
    BY <1>2
  <2>2. j \in DOMAIN inst.reads
    BY <2>1 DEF Reloads
  <2>3. place(inst, v) = ReloadReg(inst, j)
    BY <1>2 DEF place
  <2> HIDE DEF j
  <2> QED BY <2>2, <2>3, ReloadScratch
<1>3. CASE Spilled(v) /\ ~ \E j \in Reloads(inst) : inst.reads[j].v = v
  <2>1. place(inst, v) = scratch_at(iv[v].fp, 0)
    BY <1>3 DEF place
  <2>2. scratch_at(iv[v].fp, 0) = scratch[iv[v].fp][1]
    BY DEF scratch_at
  <2> QED BY <2>1, <2>2, ConventionAssumption DEF FloatOK
<1> QED BY <1>1, <1>2, <1>3

\* An instruction of the rewritten code changes no other callee-saved register.
LEMMA RunKeeps ==
    ASSUME FloatOK, NEW inst \in SafeInsts, NEW i, NEW r \in callee_saved, r \notin Saved
    PROVE  RunAfter(inst, i).preg[r] = after.preg[r]
<1>1. /\ inst.reads \in Seq(Operand)
      /\ inst.def \in VRegs \cup {NONE}
      /\ r \notin inst.kills
  BY DEF SafeInsts, Instruction
<1>2. r \in Pregs
  BY ConventionAssumption
<1>3. Reloaded(inst)[r] = after.preg[r]
  <2>1. \A j \in Reloads(inst) : ReloadReg(inst, j) # r
    BY <1>1, ReloadScratch DEF Reloads
  <2>2. {j \in Reloads(inst) : ReloadReg(inst, j) = r} = {}
    BY <2>1
  <2> QED BY <1>2, <2>2 DEF Reloaded
<1>4. ~ (inst.def # NONE /\ r = place(inst, inst.def))
  BY <1>1, PlaceSaved
<1> DEFINE value == IF inst.move
                    THEN Copied(inst, [v \in {inst.reads[j].v : j \in DOMAIN inst.reads} |->
                                         Reloaded(inst)[place(inst, v)]], Reloaded(inst))
                    ELSE MadeBy(i)
           done  == [q \in Pregs |->
                    IF inst.def # NONE /\ q = place(inst, inst.def) THEN value
                    ELSE IF q \notin inst.kills THEN Reloaded(inst)[q]
                    ELSE IF inst.move THEN value ELSE Killed(i, q)]
<1>5. RunAfter(inst, i).preg = done
  BY DEF RunAfter
<1>6. done[r] = Reloaded(inst)[r]
  <2> HIDE DEF value
  <2> QED BY <1>1, <1>2, <1>4
<1> QED BY <1>3, <1>5, <1>6

Planning == {"select", "live", "intervals", "scan"}

\* A callee-saved register that the frame does not save holds what the caller
\* left in it: only the registers that the scan handed out and the scratch
\* registers are written.
SavesInv ==
    /\ ProgOK
    /\ FloatOK
    /\ code \in [Idx -> Seq(Items)]
    /\ pc[2] \in Nat \ {0}
    /\ pc[2] = 1 \/ pc[2] <= Len(code[pc[1]])
    /\ phase \in Planning => frame.saved = {} /\ pc[2] = 1
    /\ phase = "run" => frame.saved = Saved
    /\ phase # "end" => \A r \in callee_saved :
                           r \notin frame.saved => after.preg[r] = Initially(r)
    /\ CalleeKept

LEMMA SavesInit ==
    ASSUME AllocInit PROVE SavesInv
<1>1. ProgOK
  BY DEF AllocInit, ProgOK
<1>2. FloatOK
  BY DEF AllocInit, FloatOK
<1>3. code \in [Idx -> Seq(Items)]
  <2>1. <<>> \in Seq(Items)
    OBVIOUS
  <2> QED BY <2>1 DEF AllocInit
<1>4. pc[2] = 1 /\ frame.saved = {} /\ phase = "select"
  BY DEF AllocInit
<1>5. \A r \in callee_saved : after.preg[r] = Initially(r)
  BY ConventionAssumption DEF AllocInit
<1> QED BY <1>1, <1>2, <1>3, <1>4, <1>5 DEF SavesInv, CalleeKept

\* The code stays the same after the constants.
LEMMA SameSaves ==
    ASSUME prog' = prog
    PROVE  Idx' = Idx /\ Items' = Items /\ ProgOK' = ProgOK
BY DEF Idx, Items, SafeInsts, Blocks, ProgOK

\* The instruction that runs is one of the rewritten code.
LEMMA HereFits ==
    ASSUME SavesInv, Running, code[pc[1]] # <<>>
    PROVE  Here.inst \in SafeInsts
<1>1. pc[1] \in Idx /\ code[pc[1]] \in Seq(Items)
  BY DEF Running, SavesInv
<1>2. Len(code[pc[1]]) \in Nat /\ Len(code[pc[1]]) >= 1
  BY <1>1
<1>3. pc[2] \in 1 .. Len(code[pc[1]])
  BY <1>2 DEF SavesInv
<1>4. Here \in Items
  BY <1>1, <1>3 DEF Here
<1> QED BY <1>4 DEF Items

\* While the code runs.
LEMMA SavesRun ==
    ASSUME SavesInv, RunCopy \/ RunInst \/ RunRet
    PROVE  SavesInv'
<1> USE DEF scanVars, rangeVars
<1>1. /\ UNCHANGED <<prog, code, frame, preg, iv>>
      /\ Running
      /\ phase = "run"
  BY DEF RunCopy, RunInst, RunRet, Running
<1>2. ProgOK' /\ Idx' = Idx /\ Items' = Items /\ FloatOK' /\ Saved' = Saved
  BY <1>1, SameSaves DEF SavesInv, FloatOK, Saved
<1>3. code' \in [Idx' -> Seq(Items')]
  BY <1>1, <1>2 DEF SavesInv
<1>4. /\ frame.saved = Saved
      /\ \A r \in callee_saved : r \notin Saved => after.preg[r] = Initially(r)
  BY <1>1 DEF SavesInv
<1>5. ASSUME NEW x, after' = RunAfter(Here.inst, x), code[pc[1]] # <<>>,
             NEW r \in callee_saved, r \notin Saved
      PROVE  after'.preg[r] = Initially(r)
  <2>1. Here.inst \in SafeInsts
    BY <1>1, <1>5, HereFits
  <2>2. FloatOK
    BY DEF SavesInv
  <2>3. RunAfter(Here.inst, x).preg[r] = after.preg[r]
    BY <1>5, <2>1, <2>2, RunKeeps
  <2> QED BY <1>4, <1>5, <2>3
<1>6. CASE RunCopy
  <2>1. /\ ~ IsLast
        /\ after' = RunAfter(Here.inst, Here.at)
        /\ pc' = <<pc[1], pc[2] + 1>>
        /\ phase' = phase
    BY <1>6 DEF RunCopy
  <2>2. pc[1] \in Idx /\ code[pc[1]] \in Seq(Items) /\ pc[2] \in Nat \ {0}
    BY <1>1 DEF Running, SavesInv
  <2>3. pc[2] < Len(code[pc[1]]) /\ Len(code[pc[1]]) \in Nat
    BY <2>1, <2>2 DEF IsLast
  <2>4. code[pc[1]] # <<>>
    BY <2>2, <2>3
  <2>5. pc'[2] \in Nat \ {0} /\ pc'[2] <= Len(code'[pc'[1]])
    BY <1>1, <2>1, <2>2, <2>3
  <2>6. phase' = "run" /\ frame'.saved = Saved'
    BY <1>1, <1>2, <1>4, <2>1
  <2>7. \A r \in callee_saved : r \notin Saved => after'.preg[r] = Initially(r)
    BY <1>5, <2>1, <2>4
  <2> QED BY <1>1, <1>2, <1>3, <1>4, <2>5, <2>6, <2>7 DEF SavesInv, CalleeKept, Planning, Initially
<1>7. CASE RunInst
  <2>1. /\ after' = IF code[pc[1]] = <<>> THEN after ELSE RunAfter(Here.inst, pc[1])
        /\ phase' = phase
        /\ pc'[2] = 1
    BY <1>7 DEF RunInst, GoTo
  <2>2. phase' = "run" /\ frame'.saved = Saved'
    BY <1>1, <1>2, <1>4, <2>1
  <2>3. \A r \in callee_saved : r \notin Saved => after'.preg[r] = Initially(r)
    <3>1. CASE code[pc[1]] = <<>>
      BY <1>4, <2>1, <3>1
    <3>2. CASE code[pc[1]] # <<>>
      BY <1>5, <2>1, <3>2
    <3> QED BY <3>1, <3>2
  <2> QED BY <1>1, <1>2, <1>3, <1>4, <2>1, <2>2, <2>3 DEF SavesInv, CalleeKept, Planning, Initially
<1>8. CASE RunRet
  <2>1. /\ after' = [after EXCEPT !.preg = Restored]
        /\ phase' = "end"
        /\ pc' = pc
    BY <1>8 DEF RunRet
  <2>2. ASSUME NEW r \in callee_saved PROVE Restored[r] = Initially(r)
    <3>1. r \in Pregs
      BY ConventionAssumption
    <3> QED BY <1>4, <3>1 DEF Restored
  <2>3. after'.preg = Restored
    BY <2>1
  <2>4. CalleeKept'
    BY <2>2, <2>3 DEF CalleeKept, Initially
  <2>5. pc'[2] \in Nat \ {0} /\ (pc'[2] = 1 \/ pc'[2] <= Len(code'[pc'[1]]))
    BY <1>1, <2>1 DEF SavesInv
  <2> QED BY <1>2, <1>3, <2>1, <2>4, <2>5 DEF SavesInv, Planning
<1> QED BY <1>6, <1>7, <1>8

LEMMA SavesNext ==
    ASSUME SavesInv, [AllocNext]_allVars PROVE SavesInv'
<1> USE DEF liveVars, execVars, scanVars, rangeVars
<1>1. CASE Rematerialise
  <2>1. /\ UNCHANGED <<prog, frame, pc, after, iv>>
        /\ phase' = "live" /\ phase = "select"
        /\ code' = [i \in Idx |-> Rebuilt(i)]
    BY <1>1 DEF Rematerialise
  <2>2. ProgOK /\ ProgOK' /\ Idx' = Idx /\ Items' = Items /\ FloatOK'
    BY <2>1, SameSaves DEF SavesInv, FloatOK
  <2>3. code' \in [Idx' -> Seq(Items')]
    BY <2>1, <2>2, RebuiltFits
  <2>4. frame.saved = {} /\ pc[2] = 1
    BY <2>1 DEF SavesInv, Planning
  <2>5. \A r \in callee_saved : r \notin frame'.saved => after'.preg[r] = Initially(r)
    BY <2>1 DEF SavesInv
  <2> QED BY <2>1, <2>2, <2>3, <2>4, <2>5 DEF SavesInv, CalleeKept, Planning, Initially
<1>2. CASE BuildIntervals
  <2>1. /\ UNCHANGED <<prog, code, frame, pc, after>>
        /\ phase' = "scan" /\ phase = "intervals"
    BY <1>2 DEF BuildIntervals
  <2>2. FloatOK'
    <3>1. \A v \in VRegs : iv'[v].fp = IsFloat(v)
      BY <1>2 DEF BuildIntervals
    <3>2. \A v \in VRegs : IsFloat(v) \in BOOLEAN
      BY DEF IsFloat
    <3> QED BY <3>1, <3>2 DEF FloatOK
  <2>3. ProgOK' /\ Idx' = Idx /\ Items' = Items
    BY <2>1, SameSaves DEF SavesInv
  <2> QED BY <2>1, <2>2, <2>3 DEF SavesInv, CalleeKept, Planning, Initially
<1>3. CASE LayoutFrame
  <2>1. /\ UNCHANGED <<prog, code, pc, after, iv, preg>>
        /\ phase' \in {"run", "refused"} /\ phase = "scan"
        /\ frame'.saved = Saved
    BY <1>3 DEF LayoutFrame
  <2>2. ProgOK' /\ Idx' = Idx /\ Items' = Items /\ FloatOK' /\ Saved' = Saved
    BY <2>1, SameSaves DEF SavesInv, FloatOK, Saved
  <2>3. \A r \in callee_saved : after'.preg[r] = Initially(r)
    BY <2>1 DEF SavesInv, Planning
  <2> QED BY <2>1, <2>2, <2>3 DEF SavesInv, CalleeKept, Planning, Initially
<1>4. ASSUME LiveBlock \/ Scan PROVE SavesInv'
  <2>1. /\ UNCHANGED <<prog, code, frame, pc, after, iv>>
        /\ phase \in Planning /\ phase' \in Planning
    BY <1>4 DEF LiveBlock, Scan, Planning
  <2>2. ProgOK' /\ Idx' = Idx /\ Items' = Items /\ FloatOK'
    BY <2>1, SameSaves DEF SavesInv, FloatOK
  <2>3. phase' # "run" /\ phase' # "end" /\ phase # "end"
    BY <2>1 DEF Planning
  <2> QED BY <2>1, <2>2, <2>3 DEF SavesInv, CalleeKept, Initially
<1>5. CASE UNCHANGED allVars
  <2>1. UNCHANGED <<prog, code, frame, pc, after, iv, preg, phase>>
    BY <1>5 DEF allVars
  <2>2. ProgOK' /\ Idx' = Idx /\ Items' = Items /\ FloatOK' /\ Saved' = Saved
    BY <2>1, SameSaves DEF SavesInv, FloatOK, Saved
  <2> QED BY <2>1, <2>2 DEF SavesInv, CalleeKept, Initially
<1>6. ASSUME RunCopy \/ RunInst \/ RunRet PROVE SavesInv'
  BY <1>6, SavesRun
<1> QED BY <1>1, <1>2, <1>3, <1>4, <1>5, <1>6 DEF AllocNext

\* A function gives its caller back every callee-saved register, whatever the
\* scan, the spills and the copies of constants write.
THEOREM CallerRegistersKept == AllocSpec => []CalleeKept
<1>1. AllocInit => SavesInv
  BY SavesInit
<1>2. SavesInv /\ [AllocNext]_allVars => SavesInv'
  BY SavesNext
<1>3. SavesInv => CalleeKept
  BY DEF SavesInv
<1> QED BY <1>1, <1>2, <1>3, PTL DEF AllocSpec

-----------------------------------------------------------------------------
(* The layout of the frame.                                                *)

LEMMA DivMod ==
    ASSUME NEW n \in Nat, NEW p \in Nat, p > 0
    PROVE  \E d \in Nat, m \in Nat :
              d = n \div p /\ m = n % p /\ m < p /\ n = d * p + m
OBVIOUS

LEMMA Products ==
    ASSUME NEW a \in Nat, NEW b \in Nat, NEW q \in Nat, a < b
    PROVE  a * q \in Nat /\ b * q \in Nat /\ a * q + q <= b * q
<1>1. a * q \in Nat /\ b * q \in Nat /\ (a + 1) * q = a * q + q
  OBVIOUS
<1>2. \A x, y \in Nat : x <= y => x * q <= y * q
  OBVIOUS
<1>3. a + 1 \in Nat /\ a + 1 <= b
  OBVIOUS
<1>4. (a + 1) * q <= b * q
  BY <1>2, <1>3
<1> QED BY <1>1, <1>4

LEMMA MultipleMod ==
    ASSUME NEW q \in Nat, NEW p \in Nat, p > 0
    PROVE  (q * p) % p = 0
<1> DEFINE n == q * p
<1>1. n \in Nat
  OBVIOUS
<1> HIDE DEF n
<1>2. PICK d \in Nat, m \in Nat :
         d = n \div p /\ m = n % p /\ m < p /\ n = d * p + m
  BY <1>1, DivMod
<1> DEFINE dp == d * p
<1>3. dp \in Nat /\ n = dp + m
  BY <1>2
<1>4. CASE q < d
  <2>1. n + p <= dp
    BY <1>2, <1>4, Products DEF n
  <2> HIDE DEF dp
  <2> QED BY <1>1, <1>2, <1>3, <2>1
<1>5. CASE d < q
  <2>1. dp + p <= n
    BY <1>2, <1>5, Products DEF n
  <2> HIDE DEF dp
  <2> QED BY <1>1, <1>2, <1>3, <2>1
<1>6. CASE q = d
  <2>1. n = dp
    BY <1>6 DEF n
  <2> HIDE DEF dp
  <2>2. m = 0
    BY <1>1, <1>2, <1>3, <2>1
  <2> QED BY <1>2, <2>2 DEF n
<1> QED BY <1>2, <1>4, <1>5, <1>6

\* align_up answers the next multiple.
LEMMA AlignUp ==
    ASSUME NEW value \in Nat, NEW align \in Nat \ {0}
    PROVE  /\ align_up(value, align) \in Nat
           /\ align_up(value, align) >= value
           /\ align_up(value, align) % align = 0
<1> DEFINE n == value + align - 1
<1>1. n \in Nat /\ align \in Nat /\ align > 0
  OBVIOUS
<1> HIDE DEF n
<1>2. PICK d \in Nat, m \in Nat :
         d = n \div align /\ m = n % align /\ m < align /\ n = d * align + m
  BY <1>1, DivMod
<1>3. align_up(value, align) = d * align
  BY <1>2 DEF align_up, n
<1>4. (d * align) % align = 0
  BY <1>1, <1>2, MultipleMod
<1> DEFINE da == d * align
<1>5. da \in Nat /\ n = da + m
  BY <1>1, <1>2
<1>6. da >= value
  <2> HIDE DEF da
  <2> QED BY <1>1, <1>2, <1>5 DEF n
<1> QED BY <1>3, <1>4, <1>5, <1>6

SlotType == [size : Nat, align : Nat \ {0}]

LEMMA SlotsFit ==
    ASSUME ProgOK
    PROVE  /\ Slots \in Seq(SlotType)
           /\ Len(Slots) \in Nat
           /\ DOMAIN Slots = 1 .. Len(Slots)
           /\ \A n \in 1 .. Len(Slots) : Slots[n].size \in Nat /\ Slots[n].align \in Nat \ {0}
           /\ prog.outgoing \in Nat
<1>1. NewSlot \in Nat
  <2>1. {v \in VRegs : slot[v] # NONE} \subseteq VRegs
    OBVIOUS
  <2>2. IsFiniteSet({v \in VRegs : slot[v] # NONE})
    BY <2>1, RegisterAssumption, FS_Subset
  <2> QED BY <2>2, FS_CardinalityType DEF NewSlot
<1> DEFINE new == [n \in 1 .. NewSlot |-> [size |-> 8, align |-> 8]]
<1>2. new \in Seq(SlotType)
  BY <1>1 DEF SlotType
<1>3. prog.locals \in Seq(SlotType) /\ prog.outgoing \in Nat
  BY ProgramAssumption DEF ProgOK, SlotType
<1>4. Slots \in Seq(SlotType)
  <2> HIDE DEF new
  <2>1. prog.locals \o new \in Seq(SlotType)
    BY <1>2, <1>3
  <2> QED BY <2>1 DEF Slots, new
<1>5. Len(Slots) \in Nat /\ DOMAIN Slots = 1 .. Len(Slots)
  BY <1>4
<1>6. \A n \in 1 .. Len(Slots) : Slots[n] \in SlotType
  BY <1>4
<1> QED BY <1>3, <1>4, <1>5, <1>6 DEF SlotType

\* Slot n starts at the first multiple of its alignment after slot n - 1.
SlotAt(n) == align_up(SlotEnd[n - 1], Slots[n].align)

LEMMA SlotEndSteps ==
    ASSUME ProgOK
    PROVE  /\ SlotEnd \in [0 .. Len(Slots) -> Nat]
           /\ SlotEnd[0] = prog.outgoing
           /\ \A n \in 1 .. Len(Slots) : SlotEnd[n] = SlotAt(n) + Slots[n].size
<1> DEFINE N == Len(Slots)
           Turn(x, n) == align_up(x, Slots[n].align) + Slots[n].size
           G == [x \in Nat \X (1 .. N) |-> Turn(x[1], x[2])]
           Loop(f) == f = [n \in 0 .. N |->
                             IF n = 0 THEN prog.outgoing ELSE Turn(f[n - 1], n)]
<1>1. N \in Nat /\ prog.outgoing \in Nat
  BY SlotsFit
<1>2. \A x \in Nat : \A n \in 1 .. N : Turn(x, n) \in Nat
  <2> TAKE x \in Nat
  <2> TAKE n \in 1 .. N
  <2>1. Slots[n].size \in Nat /\ Slots[n].align \in Nat \ {0}
    BY SlotsFit
  <2>2. align_up(x, Slots[n].align) \in Nat
    BY <2>1, AlignUp
  <2> QED BY <2>1, <2>2
<1>3. SlotEnd = CHOOSE f : Loop(f)
  BY DEF SlotEnd
<1> HIDE DEF N, Turn
<1>4. G \in [Nat \X (1 .. N) -> Nat]
  BY <1>2
<1>5. PICK f : LoopOf(f, Nat, prog.outgoing, N, G)
  <2> HIDE DEF G
  <2> QED BY <1>1, <1>4, LoopExists
<1>6. \A n \in 1 .. N : f[n] = Turn(f[n - 1], n)
  <2> TAKE n \in 1 .. N
  <2>1. n - 1 \in 0 .. N
    BY <1>1
  <2>2. <<f[n - 1], n>> \in Nat \X (1 .. N)
    BY <1>5, <2>1 DEF LoopOf
  <2>3. G[<<f[n - 1], n>>] = Turn(f[n - 1], n)
    BY <2>2
  <2> HIDE DEF G
  <2> QED BY <1>5, <2>3 DEF LoopOf
<1>7. Loop(f)
  <2>1. f = [n \in 0 .. N |-> f[n]] /\ f[0] = prog.outgoing
    BY <1>5 DEF LoopOf
  <2>2. \A n \in 0 .. N : n # 0 => n \in 1 .. N
    BY <1>1
  <2> QED BY <1>6, <2>1, <2>2
<1>8. Loop(SlotEnd)
  BY <1>3, <1>7
<1>9. /\ SlotEnd[0] = prog.outgoing
      /\ \A n \in 1 .. N : SlotEnd[n] = Turn(SlotEnd[n - 1], n)
      /\ DOMAIN SlotEnd = 0 .. N
      /\ SlotEnd = [n \in 0 .. N |-> SlotEnd[n]]
  <2> DEFINE e == SlotEnd
  <2>1. e = [n \in 0 .. N |-> IF n = 0 THEN prog.outgoing ELSE Turn(e[n - 1], n)]
    BY <1>8
  <2> HIDE DEF e
  <2>2. 0 \in 0 .. N /\ \A n \in 1 .. N : n \in 0 .. N /\ n # 0
    BY <1>1
  <2>3. \A n \in 0 .. N : e[n] = IF n = 0 THEN prog.outgoing ELSE Turn(e[n - 1], n)
    BY ONLY <2>1
  <2>4. DOMAIN e = 0 .. N /\ e = [n \in 0 .. N |-> e[n]]
    BY ONLY <2>1
  <2>5. e[0] = prog.outgoing /\ \A n \in 1 .. N : e[n] = Turn(e[n - 1], n)
    BY ONLY <2>2, <2>3
  <2> QED BY <2>4, <2>5 DEF e
<1> HIDE DEF Loop
<1> DEFINE T == {n \in 0 .. N : SlotEnd[n] \in Nat}
<1>10. T = 0 .. N
  <2>1. 0 \in T
    BY <1>1, <1>9
  <2>2. ASSUME NEW n \in 1 .. N, n - 1 \in T PROVE n \in T
    <3>1. SlotEnd[n - 1] \in Nat /\ n \in 0 .. N
      BY <2>2
    <3>2. SlotEnd[n] \in Nat
      BY ONLY <1>2, <1>9, <3>1, n \in 1 .. N
    <3> QED BY <3>1, <3>2
  <2>3. T \in SUBSET (0 .. N)
    OBVIOUS
  <2> HIDE DEF T
  <2> QED BY <1>1, <2>1, <2>2, <2>3, UpTo
<1>11. SlotEnd \in [0 .. N -> Nat]
  BY <1>9, <1>10
<1> QED BY <1>9, <1>11 DEF N, Turn, SlotAt

\* The slots lie one after the other.
LEMMA SlotsInOrder ==
    ASSUME ProgOK
    PROVE  /\ \A n \in 1 .. Len(Slots) :
                 /\ SlotAt(n) \in Nat
                 /\ SlotAt(n) % Slots[n].align = 0
                 /\ SlotEnd[n - 1] <= SlotAt(n)
           /\ \A n \in 0 .. Len(Slots) : \A m \in 0 .. n : SlotEnd[m] <= SlotEnd[n]
<1> DEFINE N == Len(Slots)
<1>1. /\ N \in Nat
      /\ \A n \in 1 .. N : Slots[n].size \in Nat /\ Slots[n].align \in Nat \ {0}
  BY SlotsFit
<1>2. /\ SlotEnd \in [0 .. N -> Nat]
      /\ \A n \in 1 .. N : SlotEnd[n] = SlotAt(n) + Slots[n].size
  BY SlotEndSteps
<1> HIDE DEF N
<1>3. ASSUME NEW n \in 1 .. N
      PROVE  SlotAt(n) \in Nat /\ SlotAt(n) % Slots[n].align = 0 /\ SlotEnd[n - 1] <= SlotAt(n)
  <2>1. SlotEnd[n - 1] \in Nat
    BY <1>1, <1>2
  <2> QED BY <1>1, <2>1, AlignUp DEF SlotAt
<1> DEFINE T == {n \in 0 .. N : \A m \in 0 .. n : SlotEnd[m] <= SlotEnd[n]}
<1>4. T = 0 .. N
  <2>1. 0 \in T
    BY <1>1, <1>2
  <2>2. ASSUME NEW n \in 1 .. N, n - 1 \in T PROVE n \in T
    <3>1. n - 1 \in 0 .. N /\ n \in 0 .. N
      BY <1>1
    <3>2. SlotEnd[n - 1] <= SlotEnd[n] /\ SlotEnd[n - 1] \in Nat /\ SlotEnd[n] \in Nat
      <4>1. SlotEnd[n - 1] \in Nat /\ SlotEnd[n] \in Nat
        BY <1>2, <3>1
      <4>2. SlotEnd[n] = SlotAt(n) + Slots[n].size /\ Slots[n].size \in Nat
        BY <1>1, <1>2
      <4>3. SlotAt(n) \in Nat /\ SlotEnd[n - 1] <= SlotAt(n)
        BY <1>3
      <4> QED BY ONLY <4>1, <4>2, <4>3
    <3>3. ASSUME NEW m \in 0 .. n PROVE SlotEnd[m] <= SlotEnd[n]
      <4>1. CASE m = n
        BY <3>2, <4>1
      <4>2. CASE m # n
        <5>1. m \in 0 .. n - 1 /\ m \in 0 .. N
          BY <1>1, <4>2
        <5>2. SlotEnd[m] <= SlotEnd[n - 1] /\ SlotEnd[m] \in Nat
          BY <1>2, <2>2, <5>1
        <5> QED BY <3>2, <5>2
      <4> QED BY <4>1, <4>2
    <3> QED BY <3>1, <3>3
  <2>3. T \in SUBSET (0 .. N)
    OBVIOUS
  <2> HIDE DEF T
  <2> QED BY <1>1, <2>1, <2>2, <2>3, UpTo
<1>5. \A n \in 0 .. N : \A m \in 0 .. n : SlotEnd[m] <= SlotEnd[n]
  BY <1>4
<1> QED BY <1>3, <1>5 DEF N

LEMMA SaveSizes == \A r : save_size(r) \in {8, 16}
BY ConventionAssumption DEF save_size

\* The registers of one turn of the loop over the saved registers.
SaveTurn(x, n) == IF n - 1 \in Saved THEN save_end(n - 1, x) ELSE x

LEMMA SaveTurns ==
    ASSUME NEW x \in Nat, NEW n \in 1 .. PREG_LIMIT
    PROVE  /\ SaveTurn(x, n) \in Nat
           /\ x <= SaveTurn(x, n)
           /\ n - 1 \in Saved =>
                 /\ x + save_size(n - 1) <= SaveTurn(x, n)
                 /\ SaveTurn(x, n) % save_size(n - 1) = 0
<1>1. CASE n - 1 \notin Saved
  BY <1>1 DEF SaveTurn
<1>2. CASE n - 1 \in Saved
  <2> DEFINE z == save_size(n - 1)
             a == align_up(x, z)
  <2>1. z \in {8, 16}
    BY SaveSizes
  <2>2. SaveTurn(x, n) = a + z
    BY <1>2 DEF SaveTurn, save_end
  <2> HIDE DEF z
  <2>3. a \in Nat /\ a >= x /\ a % z = 0
    BY <2>1, AlignUp
  <2> HIDE DEF a
  <2>4. (a + z) % z = 0
    <3>1. CASE z = 8
      BY <2>3, <3>1
    <3>2. CASE z = 16
      BY <2>3, <3>2
    <3> QED BY <2>1, <3>1, <3>2
  <2>5. a + z \in Nat /\ x + z <= a + z /\ x <= a + z
    BY <2>1, <2>3
  <2> QED BY <2>2, <2>4, <2>5 DEF z
<1> QED BY <1>1, <1>2

LEMMA SaveEndSteps ==
    /\ SaveEnd \in [0 .. PREG_LIMIT -> Nat]
    /\ SaveEnd[0] = 0
    /\ \A n \in 1 .. PREG_LIMIT : SaveEnd[n] = SaveTurn(SaveEnd[n - 1], n)
<1> DEFINE N == PREG_LIMIT
           G == [x \in Nat \X (1 .. N) |-> SaveTurn(x[1], x[2])]
           Loop(f) == f = [n \in 0 .. N |-> IF n = 0 THEN 0 ELSE SaveTurn(f[n - 1], n)]
<1>1. N \in Nat /\ 0 \in Nat
  BY DEF PREG_LIMIT
<1>2. \A x \in Nat : \A n \in 1 .. N : SaveTurn(x, n) \in Nat
  BY SaveTurns
<1>3. SaveEnd = CHOOSE f : Loop(f)
  BY DEF SaveEnd, SaveTurn
<1> HIDE DEF N
<1>4. G \in [Nat \X (1 .. N) -> Nat]
  BY <1>2
<1>5. PICK f : LoopOf(f, Nat, 0, N, G)
  <2> HIDE DEF G
  <2> QED BY <1>1, <1>4, LoopExists
<1>6. \A n \in 1 .. N : f[n] = SaveTurn(f[n - 1], n)
  <2> TAKE n \in 1 .. N
  <2>1. n - 1 \in 0 .. N
    BY <1>1
  <2>2. <<f[n - 1], n>> \in Nat \X (1 .. N)
    BY <1>5, <2>1 DEF LoopOf
  <2>3. G[<<f[n - 1], n>>] = SaveTurn(f[n - 1], n)
    BY <2>2
  <2> HIDE DEF G
  <2> QED BY <1>5, <2>3 DEF LoopOf
<1>7. Loop(f)
  <2>1. f = [n \in 0 .. N |-> f[n]] /\ f[0] = 0
    BY <1>5 DEF LoopOf
  <2>2. \A n \in 0 .. N : n # 0 => n \in 1 .. N
    BY <1>1
  <2> QED BY <1>6, <2>1, <2>2
<1>8. Loop(SaveEnd)
  BY <1>3, <1>7
<1>9. /\ SaveEnd[0] = 0
      /\ \A n \in 1 .. N : SaveEnd[n] = SaveTurn(SaveEnd[n - 1], n)
      /\ DOMAIN SaveEnd = 0 .. N
      /\ SaveEnd = [n \in 0 .. N |-> SaveEnd[n]]
  <2> DEFINE e == SaveEnd
  <2>1. e = [n \in 0 .. N |-> IF n = 0 THEN 0 ELSE SaveTurn(e[n - 1], n)]
    BY <1>8
  <2> HIDE DEF e
  <2>2. 0 \in 0 .. N /\ \A n \in 1 .. N : n \in 0 .. N /\ n # 0
    BY <1>1
  <2>3. \A n \in 0 .. N : e[n] = IF n = 0 THEN 0 ELSE SaveTurn(e[n - 1], n)
    BY ONLY <2>1
  <2>4. DOMAIN e = 0 .. N /\ e = [n \in 0 .. N |-> e[n]]
    BY ONLY <2>1
  <2>5. e[0] = 0 /\ \A n \in 1 .. N : e[n] = SaveTurn(e[n - 1], n)
    BY ONLY <2>2, <2>3
  <2> QED BY <2>4, <2>5 DEF e
<1> HIDE DEF Loop
<1> DEFINE T == {n \in 0 .. N : SaveEnd[n] \in Nat}
<1>10. T = 0 .. N
  <2>1. 0 \in T
    BY <1>1, <1>9
  <2>2. ASSUME NEW n \in 1 .. N, n - 1 \in T PROVE n \in T
    <3>1. SaveEnd[n - 1] \in Nat /\ n \in 0 .. N
      BY <2>2
    <3>2. SaveEnd[n] \in Nat
      BY ONLY <1>2, <1>9, <3>1, n \in 1 .. N
    <3> QED BY <3>1, <3>2
  <2>3. T \in SUBSET (0 .. N)
    OBVIOUS
  <2> HIDE DEF T
  <2> QED BY <1>1, <2>1, <2>2, <2>3, UpTo
<1>11. SaveEnd \in [0 .. N -> Nat]
  BY <1>9, <1>10
<1> QED BY <1>9, <1>11 DEF N

\* The saves lie one below the other.
LEMMA SavesInOrder ==
    \A n \in 0 .. PREG_LIMIT : \A m \in 0 .. n : SaveEnd[m] <= SaveEnd[n]
<1> DEFINE N == PREG_LIMIT
           T == {n \in 0 .. N : \A m \in 0 .. n : SaveEnd[m] <= SaveEnd[n]}
<1>1. N \in Nat
  BY DEF PREG_LIMIT
<1>2. /\ SaveEnd \in [0 .. N -> Nat]
      /\ \A n \in 1 .. N : SaveEnd[n] = SaveTurn(SaveEnd[n - 1], n)
  BY SaveEndSteps
<1>3. \A x \in Nat : \A n \in 1 .. N : x <= SaveTurn(x, n)
  BY SaveTurns
<1> HIDE DEF N
<1>4. T = 0 .. N
  <2>1. 0 \in T
    BY <1>1, <1>2
  <2>2. ASSUME NEW n \in 1 .. N, n - 1 \in T PROVE n \in T
    <3>1. n - 1 \in 0 .. N /\ n \in 0 .. N
      BY <1>1
    <3>2. SaveEnd[n - 1] <= SaveEnd[n] /\ SaveEnd[n - 1] \in Nat /\ SaveEnd[n] \in Nat
      BY <1>2, <1>3, <3>1
    <3>3. ASSUME NEW m \in 0 .. n PROVE SaveEnd[m] <= SaveEnd[n]
      <4>1. CASE m = n
        BY <3>2, <4>1
      <4>2. CASE m # n
        <5>1. m \in 0 .. n - 1 /\ m \in 0 .. N
          BY <1>1, <4>2
        <5>2. SaveEnd[m] <= SaveEnd[n - 1] /\ SaveEnd[m] \in Nat
          BY <1>2, <2>2, <5>1
        <5> QED BY <3>2, <5>2
      <4> QED BY <4>1, <4>2
    <3> QED BY <3>1, <3>3
  <2>3. T \in SUBSET (0 .. N)
    OBVIOUS
  <2> HIDE DEF T
  <2> QED BY <1>1, <2>1, <2>2, <2>3, UpTo
<1> QED BY <1>4 DEF N

LaidOut ==
    /\ frame.size = FrameSize
    /\ frame.offset = [n \in DOMAIN Slots |-> SlotEnd[n] - Slots[n].size]
    /\ frame.saved = Saved
    /\ frame.saved_offset = [r \in Saved |-> FrameSize - SaveEnd[r + 1]]

FrameInv == ProgOK /\ (phase \in {"run", "end"} => LaidOut)

\* Where the slots are.
LEMMA SlotPart ==
    ASSUME ProgOK, LaidOut, NEW n \in DOMAIN frame.offset
    PROVE  /\ n \in 1 .. Len(Slots)
           /\ frame.offset[n] = SlotAt(n)
           /\ SlotAt(n) + Slots[n].size = SlotEnd[n]
           /\ SlotAt(n) \in Nat /\ Slots[n].size \in Nat /\ SlotEnd[n] \in Nat
           /\ prog.outgoing <= SlotAt(n)
           /\ SlotEnd[n] <= SlotEnd[Len(Slots)]
<1>1. n \in 1 .. Len(Slots) /\ Len(Slots) \in Nat
  BY SlotsFit DEF LaidOut
<1>2. Slots[n].size \in Nat
  BY <1>1, SlotsFit
<1>3. SlotEnd[n] = SlotAt(n) + Slots[n].size /\ SlotEnd \in [0 .. Len(Slots) -> Nat]
      /\ SlotEnd[0] = prog.outgoing
  BY <1>1, SlotEndSteps
<1>4. SlotAt(n) \in Nat /\ SlotEnd[n - 1] <= SlotAt(n)
  BY <1>1, SlotsInOrder
<1>5. frame.offset[n] = SlotEnd[n] - Slots[n].size
  BY DEF LaidOut
<1>6. n - 1 \in 0 .. Len(Slots) /\ 0 \in 0 .. n - 1
      /\ n \in 0 .. Len(Slots) /\ Len(Slots) \in 0 .. Len(Slots)
  BY <1>1
<1>7. SlotEnd[0] <= SlotEnd[n - 1] /\ SlotEnd[n] <= SlotEnd[Len(Slots)]
  BY <1>6, SlotsInOrder
<1>8. SlotEnd[0] \in Nat /\ SlotEnd[n - 1] \in Nat /\ SlotEnd[n] \in Nat
  BY <1>3, <1>6
<1>9. frame.offset[n] = SlotAt(n)
  BY ONLY <1>2, <1>3, <1>4, <1>5
<1>10. prog.outgoing <= SlotAt(n)
  BY ONLY <1>3, <1>4, <1>7, <1>8
<1> QED BY <1>1, <1>2, <1>3, <1>4, <1>7, <1>8, <1>9, <1>10

\* The frame has room for the slots and the saves.
LEMMA FrameRoom ==
    ASSUME ProgOK
    PROVE  /\ FrameSize \in Nat
           /\ FrameSize % 16 = 0
           /\ SlotEnd[Len(Slots)] \in Nat
           /\ SlotEnd[Len(Slots)] + SaveEnd[PREG_LIMIT] <= FrameSize
<1>1. Len(Slots) \in 0 .. Len(Slots) /\ PREG_LIMIT \in 0 .. PREG_LIMIT
  BY SlotsFit DEF PREG_LIMIT
<1>2. SlotEnd[Len(Slots)] \in Nat /\ SaveEnd[PREG_LIMIT] \in Nat
  BY <1>1, SlotEndSteps, SaveEndSteps
<1>3. SlotEnd[Len(Slots)] + SaveEnd[PREG_LIMIT] \in Nat /\ 16 \in Nat \ {0}
  BY <1>2
<1> QED BY <1>2, <1>3, AlignUp DEF FrameSize

LEMMA Aligned8 ==
    ASSUME NEW x \in Nat, NEW y \in Nat, x % 16 = 0, y % 8 = 0
    PROVE  (x - y) % 8 = 0
OBVIOUS

LEMMA Aligned16 ==
    ASSUME NEW x \in Nat, NEW y \in Nat, x % 16 = 0, y % 16 = 0
    PROVE  (x - y) % 16 = 0
OBVIOUS

\* Where the saved registers are.
LEMMA SavePart ==
    ASSUME ProgOK, LaidOut, NEW r \in frame.saved
    PROVE  /\ r \in 0 .. PREG_LIMIT - 1
           /\ frame.saved_offset[r] = FrameSize - SaveEnd[r + 1]
           /\ frame.saved_offset[r] \in Nat
           /\ SlotEnd[Len(Slots)] <= frame.saved_offset[r]
           /\ save_size(r) \in {8, 16}
           /\ frame.saved_offset[r] % save_size(r) = 0
           /\ SaveEnd[r] \in Nat
           /\ SaveEnd[r] + save_size(r) <= SaveEnd[r + 1]
           /\ SaveEnd[r + 1] \in Nat
<1>1. r \in Saved /\ r \in 0 .. PREG_LIMIT - 1
  BY ConventionAssumption DEF LaidOut, Saved
<1>2. /\ r + 1 \in 1 .. PREG_LIMIT /\ r \in 0 .. PREG_LIMIT
      /\ r + 1 \in 0 .. PREG_LIMIT /\ (r + 1) - 1 = r
      /\ PREG_LIMIT \in 0 .. PREG_LIMIT /\ r + 1 \in 0 .. PREG_LIMIT
  BY <1>1 DEF PREG_LIMIT
<1>3. /\ SaveEnd[r] \in Nat /\ SaveEnd[r + 1] \in Nat /\ SaveEnd[PREG_LIMIT] \in Nat
      /\ SaveEnd[r + 1] = SaveTurn(SaveEnd[r], r + 1)
  BY <1>2, SaveEndSteps
<1>4. /\ SaveEnd[r] + save_size(r) <= SaveEnd[r + 1]
      /\ SaveEnd[r + 1] % save_size(r) = 0
  BY <1>1, <1>2, <1>3, SaveTurns
<1>5. save_size(r) \in {8, 16}
  BY SaveSizes
<1>6. SaveEnd[r + 1] <= SaveEnd[PREG_LIMIT]
  BY <1>2, SavesInOrder
<1>7. frame.saved_offset[r] = FrameSize - SaveEnd[r + 1]
  BY <1>1 DEF LaidOut
<1>8. /\ FrameSize \in Nat
      /\ FrameSize % 16 = 0
      /\ SlotEnd[Len(Slots)] \in Nat
      /\ SlotEnd[Len(Slots)] + SaveEnd[PREG_LIMIT] <= FrameSize
  BY FrameRoom
<1>9. frame.saved_offset[r] \in Nat /\ SlotEnd[Len(Slots)] <= frame.saved_offset[r]
  BY ONLY <1>3, <1>6, <1>7, <1>8
<1>10. frame.saved_offset[r] % save_size(r) = 0
  <2>1. CASE save_size(r) = 8
    BY ONLY <1>3, <1>4, <1>7, <1>8, <2>1, Aligned8, SMTT(30)
  <2>2. CASE save_size(r) = 16
    BY ONLY <1>3, <1>4, <1>7, <1>8, <2>2, Aligned16, SMTT(30)
  <2> QED BY <1>5, <2>1, <2>2
<1> QED BY <1>1, <1>3, <1>4, <1>5, <1>7, <1>9, <1>10

\* Two parts of a frame that is laid out.
LEMMA PartsApart ==
    ASSUME ProgOK, LaidOut, NEW x \in Parts, NEW y \in Parts, x # y
    PROVE  \/ PartFrom(x) + PartSize(x) <= PartFrom(y)
           \/ PartFrom(y) + PartSize(y) <= PartFrom(x)
<1> DEFINE N == Len(Slots)
<1>1. N \in Nat /\ \A m \in 0 .. N : SlotEnd[m] \in Nat
  BY SlotsFit, SlotEndSteps
<1>2. ASSUME NEW m \in DOMAIN frame.offset, NEW n \in DOMAIN frame.offset, m < n
      PROVE  frame.offset[m] + Slots[m].size <= frame.offset[n]
  <2>1. /\ m \in 1 .. N /\ n \in 1 .. N
        /\ frame.offset[m] = SlotAt(m) /\ frame.offset[n] = SlotAt(n)
        /\ SlotAt(m) + Slots[m].size = SlotEnd[m] /\ SlotAt(n) \in Nat
    BY SlotPart
  <2>2. m \in 0 .. n - 1 /\ n - 1 \in 0 .. N /\ m \in 0 .. N
    BY <1>1, <1>2, <2>1
  <2>3. SlotEnd[m] <= SlotEnd[n - 1] /\ SlotEnd[n - 1] <= SlotAt(n)
    BY <2>1, <2>2, SlotsInOrder
  <2>4. SlotEnd[m] \in Nat /\ SlotEnd[n - 1] \in Nat
    BY <1>1, <2>2
  <2> QED BY ONLY <2>1, <2>3, <2>4
<1>3. ASSUME NEW r \in frame.saved, NEW q \in frame.saved, r < q
      PROVE  frame.saved_offset[q] + save_size(q) <= frame.saved_offset[r]
  <2>1. /\ q \in 0 .. PREG_LIMIT - 1
        /\ frame.saved_offset[q] = FrameSize - SaveEnd[q + 1]
        /\ save_size(q) \in {8, 16}
        /\ SaveEnd[q] + save_size(q) <= SaveEnd[q + 1]
        /\ SaveEnd[q] \in Nat /\ SaveEnd[q + 1] \in Nat
    BY SavePart
  <2>2. /\ r \in 0 .. PREG_LIMIT - 1
        /\ frame.saved_offset[r] = FrameSize - SaveEnd[r + 1]
        /\ SaveEnd[r + 1] \in Nat
    BY SavePart
  <2>3. r + 1 \in 0 .. q /\ q \in 0 .. PREG_LIMIT
    BY <1>3, <2>1, <2>2 DEF PREG_LIMIT
  <2>4. SaveEnd[r + 1] <= SaveEnd[q]
    BY <2>3, SavesInOrder
  <2>5. FrameSize \in Nat
    BY FrameRoom
  <2> QED BY ONLY <2>1, <2>2, <2>4, <2>5
<1>4. ASSUME NEW n \in DOMAIN frame.offset, NEW r \in frame.saved
      PROVE  frame.offset[n] + Slots[n].size <= frame.saved_offset[r]
  <2>1. /\ frame.offset[n] = SlotAt(n)
        /\ SlotAt(n) + Slots[n].size = SlotEnd[n]
        /\ SlotEnd[n] \in Nat /\ SlotEnd[n] <= SlotEnd[N]
    BY SlotPart
  <2>2. SlotEnd[N] <= frame.saved_offset[r] /\ frame.saved_offset[r] \in Nat
    BY SavePart
  <2>3. SlotEnd[N] \in Nat
    BY FrameRoom
  <2> QED BY ONLY <2>1, <2>2, <2>3
<1> USE DEF PartFrom, PartSize
<1>5. CASE x[1] = "slot" /\ y[1] = "slot"
  <2>1. x[2] \in DOMAIN frame.offset /\ y[2] \in DOMAIN frame.offset /\ x[2] # y[2]
    BY <1>5 DEF Parts
  <2>2. x[2] \in 1 .. N /\ y[2] \in 1 .. N
    BY <2>1, SlotPart
  <2>3. x[2] < y[2] \/ y[2] < x[2]
    BY <1>1, <2>1, <2>2
  <2> QED BY <1>2, <1>5, <2>1, <2>3
<1>6. CASE x[1] = "save" /\ y[1] = "save"
  <2>1. x[2] \in frame.saved /\ y[2] \in frame.saved /\ x[2] # y[2]
    BY <1>6 DEF Parts
  <2>2. x[2] \in 0 .. PREG_LIMIT - 1 /\ y[2] \in 0 .. PREG_LIMIT - 1
    BY <2>1, SavePart
  <2>3. x[2] < y[2] \/ y[2] < x[2]
    BY <2>1, <2>2 DEF PREG_LIMIT
  <2> QED BY <1>3, <1>6, <2>1, <2>3
<1>7. CASE x[1] = "slot" /\ y[1] = "save"
  <2>1. x[2] \in DOMAIN frame.offset /\ y[2] \in frame.saved
    BY <1>7 DEF Parts
  <2> QED BY <1>4, <1>7, <2>1
<1>8. CASE x[1] = "save" /\ y[1] = "slot"
  <2>1. y[2] \in DOMAIN frame.offset /\ x[2] \in frame.saved
    BY <1>8 DEF Parts
  <2> QED BY <1>4, <1>8, <2>1
<1>9. x[1] \in {"slot", "save"} /\ y[1] \in {"slot", "save"}
  BY DEF Parts
<1> QED BY <1>5, <1>6, <1>7, <1>8, <1>9

LEMMA FrameSound ==
    ASSUME FrameInv PROVE FrameDisjoint
<1> SUFFICES ASSUME phase \in {"run", "end"}, NEW x \in Parts
             PROVE  /\ PartFrom(x) % PartAlign(x) = 0
                    /\ prog.outgoing <= PartFrom(x)
                    /\ PartFrom(x) + PartSize(x) <= frame.size
                    /\ \A y \in Parts : x # y =>
                          \/ PartFrom(x) + PartSize(x) <= PartFrom(y)
                          \/ PartFrom(y) + PartSize(y) <= PartFrom(x)
  BY DEF FrameDisjoint
<1>1. ProgOK /\ LaidOut
  BY DEF FrameInv
<1>2. \A y \in Parts : x # y =>
                          \/ PartFrom(x) + PartSize(x) <= PartFrom(y)
                          \/ PartFrom(y) + PartSize(y) <= PartFrom(x)
  BY <1>1, PartsApart
<1>3. frame.size = FrameSize
  BY <1>1 DEF LaidOut
<1>4. /\ FrameSize \in Nat
      /\ SlotEnd[Len(Slots)] \in Nat
      /\ SlotEnd[Len(Slots)] + SaveEnd[PREG_LIMIT] <= FrameSize
      /\ SaveEnd[PREG_LIMIT] \in Nat
  <2>1. PREG_LIMIT \in 0 .. PREG_LIMIT
    BY DEF PREG_LIMIT
  <2> QED BY <1>1, <2>1, FrameRoom, SaveEndSteps
<1>5. CASE x[1] = "slot"
  <2>1. x[2] \in DOMAIN frame.offset
    BY <1>5 DEF Parts
  <2> DEFINE n == x[2]
  <2>2. /\ n \in 1 .. Len(Slots)
        /\ frame.offset[n] = SlotAt(n)
        /\ SlotAt(n) + Slots[n].size = SlotEnd[n]
        /\ SlotAt(n) \in Nat /\ Slots[n].size \in Nat /\ SlotEnd[n] \in Nat
        /\ prog.outgoing <= SlotAt(n)
        /\ SlotEnd[n] <= SlotEnd[Len(Slots)]
    BY <1>1, <2>1, SlotPart
  <2>3. SlotAt(n) % Slots[n].align = 0
    BY <1>1, <2>2, SlotsInOrder
  <2>4. PartFrom(x) = SlotAt(n) /\ PartSize(x) = Slots[n].size /\ PartAlign(x) = Slots[n].align
    BY <1>5, <2>2 DEF PartFrom, PartSize, PartAlign
  <2> HIDE DEF n
  <2>5. SlotAt(n) + Slots[n].size <= FrameSize
    BY ONLY <1>4, <2>2
  <2> QED BY <1>2, <1>3, <2>2, <2>3, <2>4, <2>5
<1>6. CASE x[1] = "save"
  <2>1. x[2] \in frame.saved
    BY <1>6 DEF Parts
  <2> DEFINE r == x[2]
  <2>2. /\ frame.saved_offset[r] = FrameSize - SaveEnd[r + 1]
        /\ frame.saved_offset[r] \in Nat
        /\ SlotEnd[Len(Slots)] <= frame.saved_offset[r]
        /\ save_size(r) \in {8, 16}
        /\ frame.saved_offset[r] % save_size(r) = 0
        /\ SaveEnd[r] \in Nat
        /\ SaveEnd[r] + save_size(r) <= SaveEnd[r + 1]
        /\ SaveEnd[r + 1] \in Nat
    BY <1>1, <2>1, SavePart
  <2>3. prog.outgoing <= SlotEnd[Len(Slots)] /\ prog.outgoing \in Nat
    <3>1. Len(Slots) \in 0 .. Len(Slots) /\ 0 \in 0 .. Len(Slots) /\ prog.outgoing \in Nat
      BY <1>1, SlotsFit
    <3>2. SlotEnd[0] <= SlotEnd[Len(Slots)] /\ SlotEnd[0] = prog.outgoing
      BY <1>1, <3>1, SlotsInOrder, SlotEndSteps
    <3> QED BY <3>1, <3>2
  <2>4. PartFrom(x) = frame.saved_offset[r] /\ PartSize(x) = save_size(r)
        /\ PartAlign(x) = save_size(r)
    BY <1>6 DEF PartFrom, PartSize, PartAlign
  <2> HIDE DEF r
  <2>5. frame.saved_offset[r] + save_size(r) <= FrameSize
    <3>1. save_size(r) \in Nat
      BY ONLY <2>2
    <3> QED BY ONLY <1>4, <2>2, <3>1, SMTT(30)
  <2>6. prog.outgoing <= frame.saved_offset[r]
    BY ONLY <1>4, <2>2, <2>3
  <2> QED BY <1>2, <1>3, <2>2, <2>4, <2>5, <2>6
<1>7. x[1] = "slot" \/ x[1] = "save"
  BY DEF Parts
<1> QED BY <1>5, <1>6, <1>7

\* The layout is a function of what the scan leaves.
LEMMA SameFrame ==
    ASSUME UNCHANGED <<prog, slot, preg>>
    PROVE  /\ Slots' = Slots
           /\ Saved' = Saved
           /\ SlotEnd' = SlotEnd
           /\ SaveEnd' = SaveEnd
           /\ FrameSize' = FrameSize
<1>1. Slots' = Slots /\ Saved' = Saved
  BY DEF Slots, Saved, NewSlot
<1>2. SlotEnd' = SlotEnd
  BY DEF SlotEnd, Slots, NewSlot
<1>3. SaveEnd' = SaveEnd
  BY DEF SaveEnd, Saved
<1> QED BY <1>1, <1>2, <1>3 DEF FrameSize

LEMMA FrameNext ==
    ASSUME FrameInv, [AllocNext]_allVars PROVE FrameInv'
<1> USE DEF liveVars, execVars, scanVars, rangeVars
<1>1. prog' = prog
  BY DEF AllocNext, Rematerialise, LiveBlock, BuildIntervals, Scan, LayoutFrame,
         RunCopy, RunInst, RunRet, allVars
<1>2. ProgOK'
  BY <1>1 DEF FrameInv, ProgOK
<1>3. CASE LayoutFrame
  <2>1. UNCHANGED <<prog, slot, preg>>
    BY <1>3 DEF LayoutFrame
  <2>2. /\ frame'.size = FrameSize
        /\ frame'.offset = [n \in DOMAIN Slots |-> SlotEnd[n] - Slots[n].size]
        /\ frame'.saved = Saved
        /\ frame'.saved_offset = [r \in Saved |-> FrameSize - SaveEnd[r + 1]]
    BY <1>3 DEF LayoutFrame
  <2>3. LaidOut'
    BY <2>1, <2>2, SameFrame DEF LaidOut
  <2> QED BY <1>2, <2>3 DEF FrameInv
<1>4. ASSUME Rematerialise \/ LiveBlock \/ BuildIntervals \/ Scan PROVE FrameInv'
  <2>1. phase' \notin {"run", "end"}
    BY <1>4 DEF Rematerialise, LiveBlock, BuildIntervals, Scan
  <2> QED BY <1>2, <2>1 DEF FrameInv
<1>5. ASSUME \/ RunCopy \/ RunInst \/ RunRet \/ UNCHANGED allVars PROVE FrameInv'
  <2>1. /\ UNCHANGED <<prog, slot, preg, frame>>
        /\ phase' \in {"run", "end"} => phase \in {"run", "end"}
    BY <1>5 DEF RunCopy, RunInst, RunRet, Running, allVars
  <2>2. LaidOut' = LaidOut
    BY <2>1, SameFrame DEF LaidOut
  <2> QED BY <1>2, <2>1, <2>2 DEF FrameInv
<1> QED BY <1>3, <1>4, <1>5 DEF AllocNext

\* No two slots or saved registers of a frame share a byte, whatever their
\* sizes and alignments and whichever registers are saved.
THEOREM FramePartsDisjoint == AllocSpec => []FrameDisjoint
<1>1. AllocInit => FrameInv
  BY DEF AllocInit, FrameInv, ProgOK
<1>2. FrameInv /\ [AllocNext]_allVars => FrameInv'
  BY FrameNext
<1>3. FrameInv => FrameDisjoint
  BY FrameSound
<1> QED BY <1>1, <1>2, <1>3, PTL DEF AllocSpec
=============================================================================
