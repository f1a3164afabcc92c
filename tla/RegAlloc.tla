------------------------------ MODULE RegAlloc ------------------------------
(***************************************************************************)
(* regalloc_function of src/regalloc.c over one function of machine code:  *)
(* constants are re-emitted at their uses, liveness gives intervals, the   *)
(* linear scan places them, and the rewriting gives each instruction its   *)
(* registers, reloads and spill stores.                                    *)
(*                                                                         *)
(* Then the rewritten code runs in step with the code before allocation.   *)
(* A value is the instruction that made it, so reading the value of        *)
(* another instruction shows as a difference.                              *)
(***************************************************************************)
EXTENDS LinearScan, FiniteSetsExt

CONSTANTS
    Programs,     \* the functions that reach the allocator
    VCount,       \* f->vreg_count before allocation
    floats,       \* the virtual registers of the float class
    scratch,      \* [float class -> the two scratch registers]
    beyond,       \* [float class -> the byte after them in struct abi]
    callee_saved,
    fp_save_size,
    frame_limit   \* 0 when the target has none

PREG_LIMIT == 64

(* An instruction: the virtual register it defines, the ones it reads in   *)
(* the order of its operands with mem for the base or index of a memory    *)
(* operand, imm when every other operand is an immediate, the physical     *)
(* registers it reads and writes, whether it moves one register into       *)
(* another, the blocks it may jump to, and how control leaves it.          *)

Operand == [v : VRegs, mem : BOOLEAN]

Instruction(blocks) ==
    [def : VRegs \cup {NONE}, reads : Seq(Operand), imm : BOOLEAN,
     uses : SUBSET Pregs, kills : SUBSET Pregs, move : BOOLEAN,
     to : SUBSET blocks, exit : {"next", "jump", "ret"}]

\* The operands that read a virtual register which some instruction sets to
\* a constant: each of them may get a virtual register of its own.
ConstantReads(p) ==
    {x \in (DOMAIN p.insts) \X (1 .. 4) :
        /\ x[2] \in DOMAIN p.insts[x[1]].reads
        /\ \E k \in DOMAIN p.insts : /\ p.insts[k].imm
                                     /\ p.insts[k].def = p.insts[x[1]].reads[x[2]].v}

\* The blocks that a block may jump to.
JumpTargets(p, b) ==
    UNION {p.insts[i].to : i \in {j \in 1 .. p.last[b] : b > 1 => j > p.last[b - 1]}}

\* What selection hands over.  Machine code writes physical registers to
\* pass arguments and results, for a division, a shift and what a call
\* overwrites: none of them is callee-saved in any convention.  A block
\* jumps to two others at most: successors keeps no more, and a block ends
\* in one branch and one jump.
ASSUME ProgramAssumption ==
    /\ VCount \in Nat
    /\ floats \subseteq 0 .. VCount - 1
    /\ \A p \in Programs :
          /\ p.insts \in Seq(Instruction(DOMAIN p.last))
          /\ \A i \in DOMAIN p.insts : /\ Len(p.insts[i].reads) <= 4
                                       /\ p.insts[i].kills \cap callee_saved = {}
          /\ p.last \in Seq(0 .. Len(p.insts)) /\ p.last # <<>>
          /\ \A b \in DOMAIN p.last : b > 1 => p.last[b - 1] <= p.last[b]
          /\ p.last[Len(p.last)] = Len(p.insts)
          /\ \A b \in DOMAIN p.last : Cardinality(JumpTargets(p, b)) <= 2
          /\ p.locals \in Seq([size : Nat, align : Nat \ {0}])
          /\ p.outgoing \in Nat
          /\ VCount .. VCount + Cardinality(ConstantReads(p)) \subseteq VRegs

\* The conventions of the targets: the four scratch registers differ and are
\* never handed out; they are caller-saved, and so is what follows them in
\* struct abi when it is a register at all; a callee saves 8 or 16 bytes of a
\* float register.
ASSUME ConventionAssumption ==
    /\ Pregs \subseteq 0 .. PREG_LIMIT - 1
    /\ callee_saved \subseteq Pregs
    /\ \A fp, gp \in BOOLEAN : \A m, n \in {1, 2} :
          /\ scratch[fp][m] = scratch[gp][n] => fp = gp /\ m = n
          /\ scratch[fp][m] \in Pregs
          /\ \A i \in DOMAIN allocatable[gp] : allocatable[gp][i] # scratch[fp][m]
    /\ \A fp \in BOOLEAN : /\ scratch[fp][1] \notin callee_saved
                            /\ scratch[fp][2] \notin callee_saved
                            /\ beyond[fp] \notin callee_saved
    /\ fp_save_size \in {8, 16}

SameBlock(p, i, k) == \A b \in DOMAIN p.last : i <= p.last[b] <=> k <= p.last[b]

\* The one instruction that sets its virtual register, to a constant.
OnlyConstant(p, i) ==
    /\ p.insts[i].imm
    /\ p.insts[i].def # NONE
    /\ \A k \in DOMAIN p.insts \ {i} : p.insts[k].def # p.insts[i].def

\* Physical register r holds what instruction i of p reads: no instruction
\* and no allocation writes it, as the stack pointer; or an instruction of
\* the same block has written it, for a call, a division or a result; or it
\* is a parameter, which the block reads that control enters only once.
HoldsParameter(p, i, r) ==
    \/ /\ \A k \in DOMAIN p.insts : r \notin p.insts[k].kills
       /\ \A fp \in BOOLEAN : \A n \in DOMAIN allocatable[fp] : allocatable[fp][n] # r
    \/ \E k \in 1 .. i - 1 : SameBlock(p, k, i) /\ r \in p.insts[k].kills
    \/ /\ SameBlock(p, 1, i)
       /\ \A k \in DOMAIN p.insts : \A b \in p.insts[k].to : b > 1 /\ p.last[b - 1] > 0

\* What instruction i of p has to be for the allocator to treat it well.
\* Selection promises most of it.  Not all: a multiply-subtract of ARM64
\* reads three registers of one class, and register 0 may hold a constant.
InstSelected(p, i) ==
    LET inst == p.insts[i]
    IN  /\ inst.def < VCount
        /\ \A j \in DOMAIN inst.reads :
              /\ inst.reads[j].v < VCount
              /\ inst.reads[j].mem => \A k \in DOMAIN p.insts :
                    OnlyConstant(p, k) => p.insts[k].def # inst.reads[j].v
        /\ \A j, k, m \in DOMAIN inst.reads : j < k /\ k < m =>
              ~ \E fp \in BOOLEAN : \A n \in {j, k, m} :
                    (inst.reads[n].v \in floats) = fp
        /\ inst.move => inst.reads # <<>> \/ inst.uses # {}
        /\ inst.imm => inst.def # 0
        /\ OnlyConstant(p, i) =>
              inst = [inst EXCEPT !.reads = <<>>, !.uses = {}, !.kills = {},
                                  !.move = FALSE, !.to = {}, !.exit = "next"]
        /\ inst.to # {} => \A k \in i + 1 .. Len(p.insts) :
              SameBlock(p, i, k) => p.insts[k].def = NONE
        /\ \A r \in inst.uses :
              /\ HoldsParameter(p, i, r)
              /\ \A fp \in BOOLEAN : r # scratch[fp][1] /\ r # scratch[fp][2]

WellSelected(p) == \A i \in DOMAIN p.insts : InstSelected(p, i)

VARIABLES
    prog,         \* the function
    phase,        \* what regalloc_function does
    code,         \* the instructions that replace each one of prog
    live_in,
    live_out,
    block,        \* the block the liveness sweep is at
    changed,      \* whether the sweep has changed a set
    frame,
    pc,           \* <<an instruction of prog, one of its replacements>>
    turn,         \* flips when a jump goes back, so that the values of two
                  \* turns of a loop differ
    before,       \* the values in the registers of the code of prog
    after         \* those in the registers and slots of the rewritten code

liveVars == <<live_in, live_out, block, changed>>
execVars == <<pc, turn, before, after>>
allVars  == <<prog, phase, code, liveVars, frame, execVars, scanVars, rangeVars>>

Idx        == DOMAIN prog.insts
Inst(i)    == prog.insts[i]
Blocks     == DOMAIN prog.last
First(b)   == IF b = 1 THEN 1 ELSE prog.last[b - 1] + 1
Members(b) == First(b) .. prog.last[b]

-----------------------------------------------------------------------------
(* rematerialise_constants.                                                *)

defines_constant(inst) == inst.def # NONE /\ inst.imm

Defs(v) == {i \in Idx : Inst(i).def = v}
many(v) == Cardinality(Defs(v)) > 1

\* The entry of `definition` that instruction i writes.  It is entry 0 for
\* an instruction that defines no virtual register.
Entry(i) == IF Inst(i).def = NONE THEN 0 ELSE Inst(i).def

\* The instruction that defines the constant v, 0 when the entry is empty.
definition(v) ==
    LET writers == {i \in Idx : Entry(i) = v}
    IN  IF writers # {} /\ defines_constant(Inst(Max(writers)))
        THEN Max(writers) ELSE 0

\* Operand j of instruction i gets a definition of its own.
Replaced(i, j) ==
    LET o == Inst(i).reads[j]
    IN  ~ o.mem /\ ~ many(o.v) /\ definition(o.v) # 0

Replacements == {x \in Idx \X (1 .. 4) :
                    x[2] \in DOMAIN Inst(x[1]).reads /\ Replaced(x[1], x[2])}

Earlier(x, y) == x[1] < y[1] \/ (x[1] = y[1] /\ x[2] < y[2])

\* The number mach_vreg_add gives to the copy for operand j of i.
Made(i, j) == VCount + Cardinality({x \in Replacements : Earlier(x, <<i, j>>)})

\* The original definition goes.
Dropped(i) == defines_constant(Inst(i)) /\ ~ many(Inst(i).def)

\* Every item of the new code says whose result it makes.
CopyFor(i, j) ==
    LET d == definition(Inst(i).reads[j].v)
    IN  [inst |-> [Inst(d) EXCEPT !.def = Made(i, j)], at |-> d]

\* The copies for the operands of i, in their order.
Copies(i) ==
    LET upto[j \in 0 .. Len(Inst(i).reads)] ==
          IF j = 0 THEN <<>>
          ELSE IF Replaced(i, j) THEN Append(upto[j - 1], CopyFor(i, j))
          ELSE upto[j - 1]
    IN  upto[Len(Inst(i).reads)]

\* The instruction reads the copies.
Kept(i) ==
    [inst |-> [Inst(i) EXCEPT !.reads =
                 [j \in DOMAIN Inst(i).reads |->
                    IF Replaced(i, j)
                    THEN [Inst(i).reads[j] EXCEPT !.v = Made(i, j)]
                    ELSE Inst(i).reads[j]]],
     at   |-> i]

Rebuilt(i) == IF Dropped(i) THEN Copies(i) ELSE Append(Copies(i), Kept(i))

Rematerialise ==
    /\ phase = "select"
    /\ code' = [i \in Idx |-> Rebuilt(i)]
    /\ phase' = "live"
    /\ UNCHANGED <<prog, liveVars, frame, execVars, scanVars, rangeVars>>

-----------------------------------------------------------------------------
(* compute_liveness.                                                       *)

Points(b) == UNION {{i} \X DOMAIN code[i] : i \in Members(b)}
At(x)     == code[x[1]][x[2]].inst
Reads(x)  == {At(x).reads[j].v : j \in DOMAIN At(x).reads}

def(b) == {At(x).def : x \in Points(b)} \ {NONE}

\* What the block reads before it writes it.
use(b) == {v \in VRegs : \E x \in Points(b) :
              v \in Reads(x) /\ \A y \in Points(b) :
                                   Earlier(y, x) => At(y).def # v}

Targets(b) == UNION {Inst(i).to : i \in Members(b)}

successors(b) ==
    Targets(b) \cup
        {c \in Blocks : /\ c = b + 1
                        /\ Members(b) # {} => Inst(prog.last[b]).exit = "next"}

\* Mutant: one sweep over the blocks.
LiveBlock_once ==
    /\ phase = "live"
    /\ LET out == UNION {live_in[s] : s \in successors(block)}
       IN  /\ live_out' = [live_out EXCEPT ![block] = out]
           /\ live_in' = [live_in EXCEPT ![block] = use(block) \cup (out \ def(block))]
    /\ changed' = FALSE
    /\ phase' = IF block = 1 THEN "intervals" ELSE "live"
    /\ block' = IF block = 1 THEN Len(prog.last) ELSE block - 1
    /\ UNCHANGED <<prog, code, frame, execVars, scanVars, rangeVars>>

\* One turn of the inner loop; a sweep that changed nothing is the last one.
LiveBlock ==
    /\ phase = "live"
    /\ LET out == UNION {live_in[s] : s \in successors(block)}
           in  == use(block) \cup (out \ def(block))
           new == changed \/ out # live_out[block] \/ in # live_in[block]
       IN  /\ live_out' = [live_out EXCEPT ![block] = out]
           /\ live_in' = [live_in EXCEPT ![block] = in]
           /\ changed' = IF block = 1 THEN FALSE ELSE new
           /\ phase' = IF block = 1 /\ ~ new THEN "intervals" ELSE "live"
    /\ block' = IF block = 1 THEN Len(prog.last) ELSE block - 1
    /\ UNCHANGED <<prog, code, frame, execVars, scanVars, rangeVars>>

-----------------------------------------------------------------------------
(* build_intervals.                                                        *)

\* How many instructions replace the first n.
Offset[n \in 0 .. Len(prog.insts)] ==
    IF n = 0 THEN 0 ELSE Offset[n - 1] + Len(code[n])

Number(x)      == Offset[x[1] - 1] + x[2] - 1
block_start(b) == 2 * Offset[First(b) - 1]
block_end(b)   ==
    IF Points(b) = {} THEN block_start(b) ELSE 2 * Offset[prog.last[b]] - 1

AllPoints == UNION {Points(b) : b \in Blocks}

Positions(v) ==
    {2 * Number(x) : x \in {y \in AllPoints : v \in Reads(y)}}
      \cup {2 * Number(x) + 1 : x \in {y \in AllPoints : At(y).def = v}}
      \cup {block_start(b) : b \in {c \in Blocks : v \in live_in[c]}}
      \cup {block_end(b) : b \in {c \in Blocks : v \in live_out[c]}}

\* Every use and definition counts one, times ten for each loop around it.
BlockWeight(b) == 10 ^ (IF prog.depth[b] > 8 THEN 8 ELSE prog.depth[b])

Visits(v, x) ==
    Cardinality({j \in DOMAIN At(x).reads : At(x).reads[j].v = v})
      + (IF At(x).def = v THEN 1 ELSE 0)

Weight(v) ==
    MapThenSumSet(LAMBDA b :
        BlockWeight(b) * MapThenSumSet(LAMBDA x : Visits(v, x), Points(b)),
        Blocks)

\* record_hint: the first move of v from or to a register of each kind.
MovesOf(v) == {x \in AllPoints : At(x).move /\ (At(x).def = v \/ v \in Reads(x))}
FirstOf(s) == CHOOSE x \in s : \A y \in s : ~ Earlier(y, x)

hint_preg(v) ==
    LET moves == {x \in MovesOf(v) : At(x).uses \cup At(x).kills # {}}
    IN  IF moves = {} THEN NONE
        ELSE CHOOSE r \in At(FirstOf(moves)).uses \cup At(FirstOf(moves)).kills :
                TRUE

hint_vreg(v) ==
    LET moves == {x \in MovesOf(v) : At(x).uses \cup At(x).kills = {}}
    IN  IF moves = {} THEN NONE
        ELSE LET inst == At(FirstOf(moves))
             IN  IF inst.def = v THEN inst.reads[1].v ELSE inst.def

IsFloat(v) ==
    v \in floats \/ \E x \in Replacements :
                       Made(x[1], x[2]) = v /\ Inst(x[1]).reads[x[2]].v \in floats

\* The ranges of register r in block b: each write opens one, a read extends
\* the open one, and a read before any write reaches back to the block start.
BlockRanges(r, b) ==
    LET writes == {2 * Number(x) + 1 : x \in {y \in Points(b) : r \in At(y).kills}}
        rds    == {2 * Number(x) : x \in {y \in Points(b) : r \in At(y).uses}}
        until(w) == {p \in rds : p > w /\ ~ \E q \in writes : w < q /\ q < p}
        entry  == {p \in rds : ~ \E q \in writes : q < p}
    IN  {[from |-> w, to |-> Max({w} \cup until(w))] : w \in writes}
          \cup (IF entry = {} THEN {}
                ELSE {[from |-> block_start(b), to |-> Max(entry)]})

BuildIntervals ==
    /\ phase = "intervals"
    /\ iv' = [v \in VRegs |->
                [start     |-> IF Positions(v) = {} THEN 0 ELSE Min(Positions(v)),
                 end       |-> IF Positions(v) = {} THEN NONE
                               ELSE Max(Positions(v)),
                 fp        |-> IsFloat(v),
                 weight    |-> Weight(v),
                 hint_preg |-> hint_preg(v),
                 hint_vreg |-> hint_vreg(v)]]
    /\ fixed' = [r \in Pregs |-> UNION {BlockRanges(r, b) : b \in Blocks}]
    /\ left' = {v \in VRegs : Positions(v) # {}}
    /\ phase' = "scan"
    /\ UNCHANGED <<prog, code, liveVars, frame, execVars, active, preg, slot>>

Scan ==
    /\ phase = "scan"
    /\ ScanStep
    /\ UNCHANGED <<prog, phase, code, liveVars, frame, execVars, rangeVars>>

-----------------------------------------------------------------------------
(* layout_frame.                                                           *)

align_up(value, align) == ((value + align - 1) \div align) * align

\* The slots of the function, and those the scan added.
Slots == prog.locals \o [n \in 1 .. NewSlot |-> [size |-> 8, align |-> 8]]

\* The first byte after slot n.
SlotEnd[n \in 0 .. Len(Slots)] ==
    IF n = 0 THEN prog.outgoing
    ELSE align_up(SlotEnd[n - 1], Slots[n].align) + Slots[n].size

\* Mutant: float registers are not saved.
Saved_integers ==
    {preg[v] : v \in {u \in VRegs : ~ iv[u].fp}} \cap callee_saved

Saved == {preg[v] : v \in VRegs} \cap callee_saved

save_size(r) ==
    IF \E i \in DOMAIN allocatable[TRUE] : allocatable[TRUE][i] = r
    THEN fp_save_size ELSE 8

\* Mutant: a save takes the next bytes whatever its size.
save_end_packed(r, used) == used + save_size(r)

save_end(r, used) == align_up(used, save_size(r)) + save_size(r)

\* The bytes from the top of the frame to the end of the saves of the
\* registers below n.
SaveEnd[n \in 0 .. PREG_LIMIT] ==
    IF n = 0 THEN 0
    ELSE IF n - 1 \in Saved THEN save_end(n - 1, SaveEnd[n - 1])
    ELSE SaveEnd[n - 1]

FrameSize == align_up(SlotEnd[Len(Slots)] + SaveEnd[PREG_LIMIT], 16)

\* A frame above the limit of the target ends the build with an error.
LayoutFrame ==
    /\ phase = "scan"
    /\ left = {}
    /\ frame' = [size   |-> FrameSize,
                 offset |-> [n \in DOMAIN Slots |-> SlotEnd[n] - Slots[n].size],
                 saved  |-> Saved,
                 saved_offset |-> [r \in Saved |-> FrameSize - SaveEnd[r + 1]]]
    /\ phase' = IF frame_limit # 0 /\ FrameSize > frame_limit
                THEN "refused" ELSE "run"
    /\ UNCHANGED <<prog, code, liveVars, execVars, scanVars, rangeVars>>

-----------------------------------------------------------------------------
(* rewrite_inst and place.                                                 *)

Spilled(v) == slot[v] # NONE

\* The operands that are loaded before the instruction: the first one that
\* reads each spilled register.
Reloads(inst) ==
    {j \in DOMAIN inst.reads :
        /\ Spilled(inst.reads[j].v)
        /\ \A k \in 1 .. j - 1 : inst.reads[k].v # inst.reads[j].v}

\* abi->scratch[n] in C: past its two elements, the next byte of the struct.
scratch_at(fp, n) == IF n < 2 THEN scratch[fp][n + 1] ELSE beyond[fp]

\* Each reload takes the next scratch register of its class.
ReloadReg(inst, j) ==
    LET fp == iv[inst.reads[j].v].fp
    IN  scratch_at(fp, Cardinality({k \in Reloads(inst) :
                                      k < j /\ iv[inst.reads[k].v].fp = fp}))

\* A spilled register that the instruction only writes takes the first one.
place(inst, v) ==
    IF ~ Spilled(v) THEN preg[v]
    ELSE IF \E j \in Reloads(inst) : inst.reads[j].v = v
         THEN ReloadReg(inst, CHOOSE j \in Reloads(inst) : inst.reads[j].v = v)
         ELSE scratch_at(iv[v].fp, 0)

\* Mutant: the store goes together with a move of a register into itself.
stores_result_moved(inst) ==
    /\ inst.def # NONE
    /\ Spilled(inst.def)
    /\ ~ (/\ inst.move
          /\ inst.reads # <<>>
          /\ place(inst, inst.def) = place(inst, inst.reads[1].v))

\* The store after a spilled result stays when the move itself goes.
stores_result(inst) == inst.def # NONE /\ Spilled(inst.def)

-----------------------------------------------------------------------------
(* The rewritten code and the code before allocation, in step.             *)

\* What instruction i leaves in a virtual register, and in register r.
Constant(i)   == <<i, NONE, 0>>
MadeBy(i)     == IF Inst(i).imm /\ Inst(i).reads = <<>>
                 THEN Constant(i) ELSE <<i, NONE, turn>>
Killed(i, r)  == <<i, r, turn>>
Initially(r)  == <<0, r, 0>>
Undefined     == <<0, NONE, 0>>

Running == phase = "run" /\ pc[1] \in Idx
Here    == code[pc[1]][pc[2]]
IsLast  == pc[2] >= Len(code[pc[1]])

\* The registers after the reloads.  A later one overwrites an earlier one.
Reloaded(inst) ==
    [r \in Pregs |->
        LET into == {j \in Reloads(inst) : ReloadReg(inst, j) = r}
        IN  IF into = {} THEN after.preg[r]
            ELSE after.slot[slot[inst.reads[Max(into)].v]]]

\* What a move copies out of registers vregs and pregs.
Copied(inst, vregs, pregs) ==
    IF inst.reads # <<>> THEN vregs[inst.reads[1].v]
    ELSE pregs[CHOOSE r \in inst.uses : TRUE]

\* The instruction before allocation: it computes from its virtual registers.
RunBefore(i) ==
    LET inst  == Inst(i)
        value == IF inst.move THEN Copied(inst, before.vreg, before.preg)
                 ELSE MadeBy(i)
    IN  [vreg |-> [v \in 0 .. VCount - 1 |->
                     IF v = inst.def THEN value ELSE before.vreg[v]],
         preg |-> [r \in Pregs |->
                     IF r \notin inst.kills THEN before.preg[r]
                     ELSE IF inst.move THEN value ELSE Killed(i, r)]]

\* The same instruction as rewrite_inst gives it: reloads, the instruction
\* on its physical registers, the store of a spilled result.
RunAfter(inst, i) ==
    LET ready == Reloaded(inst)
        vregs == [v \in {inst.reads[j].v : j \in DOMAIN inst.reads} |->
                    ready[place(inst, v)]]
        value == IF inst.move THEN Copied(inst, vregs, ready)
                 ELSE MadeBy(i)
        done  == [r \in Pregs |->
                    IF inst.def # NONE /\ r = place(inst, inst.def) THEN value
                    ELSE IF r \notin inst.kills THEN ready[r]
                    ELSE IF inst.move THEN value ELSE Killed(i, r)]
    IN  [preg |-> done,
         slot |-> IF stores_result(inst)
                  THEN [after.slot EXCEPT ![slot[inst.def]] =
                          done[place(inst, inst.def)]]
                  ELSE after.slot]

Restored == [r \in Pregs |->
               IF r \in frame.saved THEN Initially(r) ELSE after.preg[r]]

BlockOf(i) == CHOOSE b \in Blocks : i \in Members(b)

GoTo(i) ==
    /\ pc' = <<i, 1>>
    /\ turn' = IF i <= pc[1] THEN 1 - turn ELSE turn

\* A constant that is written again, in front of the instruction that uses it.
RunCopy ==
    /\ Running
    /\ ~ IsLast
    /\ after' = RunAfter(Here.inst, Here.at)
    /\ pc' = <<pc[1], pc[2] + 1>>
    /\ UNCHANGED <<prog, phase, code, liveVars, frame, turn, before,
                   scanVars, rangeVars>>

\* An instruction, or nothing where a constant was defined.  The prologue and
\* the epilogue save and restore the callee-saved registers of the frame.
RunInst ==
    /\ Running
    /\ IsLast
    /\ before' = RunBefore(pc[1])
    /\ after' = IF code[pc[1]] = <<>> THEN after ELSE RunAfter(Here.inst, pc[1])
    /\ \/ \E b \in Inst(pc[1]).to : GoTo(First(b))
       \/ Inst(pc[1]).exit = "next" /\ GoTo(pc[1] + 1)
    /\ UNCHANGED <<prog, phase, code, liveVars, frame, scanVars, rangeVars>>

RunRet ==
    /\ Running
    /\ IsLast
    /\ Inst(pc[1]).exit = "ret"
    /\ after' = [after EXCEPT !.preg = Restored]
    /\ phase' = "end"
    /\ UNCHANGED <<prog, code, liveVars, frame, pc, turn, before,
                   scanVars, rangeVars>>

AllocInit ==
    /\ prog \in Programs
    /\ phase = "select"
    /\ code = [i \in Idx |-> <<>>]
    /\ live_in = [b \in Blocks |-> {}]
    /\ live_out = [b \in Blocks |-> {}]
    /\ block = Len(prog.last)
    /\ changed = FALSE
    /\ frame = [size |-> 0, offset |-> <<>>, saved |-> {}, saved_offset |-> <<>>]
    /\ pc = <<1, 1>>
    /\ turn = 0
    /\ before = [vreg |-> [v \in 0 .. VCount - 1 |-> Undefined],
                 preg |-> [r \in Pregs |-> Initially(r)]]
    /\ after = [preg |-> [r \in Pregs |-> Initially(r)],
                slot |-> [n \in 0 .. Cardinality(VRegs) - 1 |-> Undefined]]
    /\ iv = [v \in VRegs |-> [start |-> 0, end |-> NONE, fp |-> FALSE, weight |-> 0,
                              hint_preg |-> NONE, hint_vreg |-> NONE]]
    /\ fixed = [r \in Pregs |-> {}]
    /\ ScanInit

AllocNext ==
    \/ Rematerialise \/ LiveBlock \/ BuildIntervals \/ Scan \/ LayoutFrame
    \/ RunCopy \/ RunInst \/ RunRet

AllocSpec == AllocInit /\ [][AllocNext]_allVars

-----------------------------------------------------------------------------
\* The blocks that control reaches from b in n steps without writing v on the
\* way.
Unwritten(b, v, n) ==
    LET reach[k \in 0 .. n] ==
          IF k = 0 THEN {b}
          ELSE reach[k - 1] \cup
                 UNION {successors(c) : c \in {d \in reach[k - 1] : v \notin def(d)}}
    IN  reach[n]

\* Liveness is exact: a register is live into a block when, and only when,
\* some path from there reads it before it writes it, loops included.
LiveExact ==
    phase = "intervals" =>
        \A b \in Blocks : \A v \in VRegs :
            v \in live_in[b] <=>
                \E c \in Unwritten(b, v, Len(prog.last)) : v \in use(c)

\* The program never sees the allocation: whatever the spills, the reloads,
\* the hints and the re-emitted constants, an instruction reads in each of its
\* operands the value the code before allocation gives it, a call, a return
\* and a move out of a register read the same physical registers.  Only a
\* value that no instruction has set is left open.
ReadsMatch ==
    Running /\ IsLast /\ code[pc[1]] # <<>> =>
        /\ \A j \in DOMAIN Inst(pc[1]).reads :
              LET value == before.vreg[Inst(pc[1]).reads[j].v]
              IN  value # Undefined =>
                    Reloaded(Here.inst)[place(Here.inst, Here.inst.reads[j].v)]
                      = value
        /\ \A r \in Inst(pc[1]).uses :
              before.preg[r] # Undefined => Reloaded(Here.inst)[r] = before.preg[r]

\* A function gives its caller back every callee-saved register.
CalleeKept ==
    phase = "end" => \A r \in callee_saved : after.preg[r] = Initially(r)

\* The parts of the frame: the slots, and the saved registers at the top.
Parts == ({"slot"} \X (DOMAIN frame.offset)) \cup ({"save"} \X frame.saved)

PartFrom(x)  == IF x[1] = "slot" THEN frame.offset[x[2]] ELSE frame.saved_offset[x[2]]
PartSize(x)  == IF x[1] = "slot" THEN Slots[x[2]].size ELSE save_size(x[2])
PartAlign(x) == IF x[1] = "slot" THEN Slots[x[2]].align ELSE save_size(x[2])

\* No two parts of the frame share a byte, each one is aligned, and all of
\* them lie above the arguments of calls and below the top of the frame.
FrameDisjoint ==
    phase \in {"run", "end"} =>
        \A x \in Parts :
            /\ PartFrom(x) % PartAlign(x) = 0
            /\ prog.outgoing <= PartFrom(x)
            /\ PartFrom(x) + PartSize(x) <= frame.size
            /\ \A y \in Parts : x # y =>
                  \/ PartFrom(x) + PartSize(x) <= PartFrom(y)
                  \/ PartFrom(y) + PartSize(y) <= PartFrom(x)
=============================================================================
