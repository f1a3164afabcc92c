----------------------------- MODULE MCRegAlloc -----------------------------
(***************************************************************************)
(* Register allocation over small functions.  Registers 0 and 1 are handed *)
(* out, 0 carries arguments and results and 1 is callee-saved, 2 and 3 are *)
(* the scratch registers; 4 is the one float register, callee-saved as on  *)
(* Windows, and 5 and 6 are the float scratch registers.  The byte after   *)
(* scratch in struct abi is shadow_space, 0 except on Windows.             *)
(***************************************************************************)
EXTENDS RegAlloc, TLC

mc_VRegs        == 0 .. 13
mc_Pregs        == 0 .. 6
mc_VCount       == 7
mc_floats       == {4, 5}
mc_allocatable  == (FALSE :> <<0, 1>>) @@ (TRUE :> <<4>>)
mc_scratch      == (FALSE :> <<2, 3>>) @@ (TRUE :> <<5, 6>>)
mc_beyond       == (FALSE :> 0) @@ (TRUE :> 0)
mc_callee_saved == {1, 4}

nop == [def |-> NONE, reads |-> <<>>, imm |-> FALSE, uses |-> {}, kills |-> {},
        move |-> FALSE, to |-> {}, exit |-> "next"]

read(v)   == [v |-> v, mem |-> FALSE]
memory(v) == [v |-> v, mem |-> TRUE]

param(d)        == [nop EXCEPT !.def = d, !.uses = {0}, !.move = TRUE]
const(d)        == [nop EXCEPT !.def = d, !.imm = TRUE]
copy(d, a)      == [nop EXCEPT !.def = d, !.reads = <<read(a)>>, !.move = TRUE]
add3(d, a, b)   == [nop EXCEPT !.def = d, !.reads = <<read(a), read(b)>>]
add2(d, a)      == [nop EXCEPT !.def = d, !.reads = <<read(d), read(a)>>]
load(d, a, b)   == [nop EXCEPT !.def = d, !.reads = <<memory(a), memory(b)>>]
msub(d, a, b, c) == [nop EXCEPT !.def = d, !.reads = <<read(a), read(b), read(c)>>]
use2(a, b)      == [nop EXCEPT !.reads = <<read(a), read(b)>>]
arg(a)          == [nop EXCEPT !.reads = <<read(a)>>, !.kills = {0}, !.move = TRUE]
store(a)        == [nop EXCEPT !.reads = <<read(a)>>]
argument        == [nop EXCEPT !.kills = {0}]
call            == [nop EXCEPT !.uses = {0}, !.kills = {0, 2, 3}]
branch(a, b)    == [nop EXCEPT !.reads = <<read(a)>>, !.to = {b}]
jump(b)         == [nop EXCEPT !.to = {b}, !.exit = "jump"]
ret             == [nop EXCEPT !.uses = {0}, !.exit = "ret"]

\* A counted loop around two free instructions, with one before it and one
\* after it, in a function with a local slot and stack arguments.
Loop(a, b, c, d) ==
    [insts    |-> <<param(1), a, b, branch(1, 4), c, jump(2), d, arg(2), ret>>,
     last     |-> <<2, 4, 6, 9>>,
     depth    |-> <<0, 1, 1, 0>>,
     locals   |-> <<[size |-> 12, align |-> 4]>>,
     outgoing |-> 8]

\* Straight code around a call.
Calls(a, b, c, d) ==
    [insts    |-> <<param(1), a, b, arg(1), call, param(3), c, d, arg(2), ret>>,
     last     |-> <<10>>,
     depth    |-> <<0>>,
     locals   |-> <<>>,
     outgoing |-> 0]

Firsts == {const(2), copy(2, 1), add3(2, 1, 1)}
Ops    == {const(2), const(3), copy(2, 1), copy(3, 2), add3(3, 1, 2), add3(2, 2, 3),
           add2(2, 3), load(3, 1, 2), use2(2, 3), add3(4, 2, 2), add3(5, 4, 2),
           add3(2, 4, 5)}
Lasts  == {use2(1, 3), add3(2, 4, 5), add2(2, 3), const(2), add3(4, 4, 1)}

\* Selection folds a constant address into the memory operand, so that no
\* base or index is a virtual register that holds a constant.
Selected(p) ==
    \A i, k \in DOMAIN p.insts : \A j \in DOMAIN p.insts[i].reads :
        p.insts[i].reads[j].mem /\ p.insts[k].imm =>
            p.insts[k].def # p.insts[i].reads[j].v

mc_Programs ==
    {p \in {Loop(a, b, c, d) : a \in Firsts, b \in Ops, c \in Ops, d \in Lasts}
             \cup {Calls(a, b, c, d) : a \in Firsts, b \in Ops, c \in Ops, d \in Lasts} :
        Selected(p)}

\* The proofs are about functions of this kind.
ASSUME mc_Programs # {} /\ \A p \in mc_Programs : WellSelected(p)

\* A function without parameters and temporaries calls one of more parameters
\* than there are registers for: the first virtual register, 0, is then made
\* for the constant that goes to the stack.
mc_ConstantZero ==
    {[insts    |-> <<const(0), store(0), argument, call>> \o rest,
      last     |-> <<4 + Len(rest)>>,
      depth    |-> <<0>>,
      locals   |-> <<>>,
      outgoing |-> 8] : rest \in {<<ret>>, <<const(1), store(1), argument, call, ret>>}}

\* The remainder on ARM64: msub reads three virtual registers, and the call
\* before it leaves them in spill slots.
mc_ThreeReads ==
    {[Calls(call, call, call, call) EXCEPT !.insts =
        <<param(1), copy(2, 1), add3(3, 1, 2), add3(6, 1, 3), arg(1), call,
          param(0), use2(6, 6), use2(6, 6), use2(6, 6), msub(2, a, b, c),
          add3(2, 2, 0), arg(2), ret>>, !.last = <<14>>] : a, b, c \in {1, 2, 3}}
=============================================================================
