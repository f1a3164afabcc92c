--------------------------------- MODULE IR ---------------------------------
(***************************************************************************)
(* The intermediate representation of src/ir.h and src/ir.c: operands,     *)
(* instructions, blocks and functions, and the verifier of                 *)
(* src/ir_verify.c.                                                        *)
(*                                                                         *)
(* Temporaries, blocks, functions and globals are numbered from 1, and 0   *)
(* is IR_NO_RESULT.  A byte offset is the number of a field, so that an    *)
(* address is an object and a cell of it.                                  *)
(***************************************************************************)
EXTENDS Integers, Sequences, FiniteSets, SequencesExt, FiniteSetsExt, Bitwise

CONSTANT Bits       \* [integer type -> its width]

NO_RESULT == 0

Listed(S) == FoldSet(LAMBDA e, q : Append(q, e), <<>>, S)

Op(kind, type, v) == [kind |-> kind, type |-> type, v |-> v]

bits(type)    == Bits[type]
trim(type, v) == IF type \in DOMAIN Bits THEN v % 2^bits(type) ELSE v

(* The bits of v read as a signed number.                                  *)
signed_value(type, v) ==
    LET u == trim(type, v)
    IN  IF type \in DOMAIN Bits /\ u >= 2^(bits(type) - 1)
        THEN u - 2^bits(type) ELSE u

ir_none           == Op("none", "void", 0)
ir_temp_op(f, t)  == Op("temp", f.temps[t], t)
ir_int_op(t, v)   == Op("int", t, trim(t, v))
ir_block_op(b)    == Op("block", "void", b)
ir_func_op(i)     == Op("func", "ptr", i)
ir_global_op(i)   == Op("global", "ptr", i)
ir_sym_offset_of(field) == Op("sym", "i64", field)

(* append: a new instruction has no operands and no type beside its own.   *)
NewInst(op, type, result) ==
    [op |-> op, type |-> type, result |-> result, a |-> ir_none, b |-> ir_none,
     c |-> ir_none, args |-> <<>>, of |-> "void"]

(* operand, operand_count: a, b, c and the arguments, in that order.       *)
Operands(inst) == <<inst.a, inst.b, inst.c>> \o inst.args

MapOperands(inst, F(_)) ==
    [inst EXCEPT !.a = F(@), !.b = F(@), !.c = F(@),
                 !.args = [k \in DOMAIN @ |-> F(@[k])]]

is_temp(o, t)   == o.kind = "temp" /\ o.v = t
UsesTemp(inst, t) == \E k \in DOMAIN Operands(inst) : is_temp(Operands(inst)[k], t)

is_terminator(op) == op \in {"jump", "branch", "ret"}

LastInst(block) == block.insts[Len(block.insts)]

(* The blocks that the end of a block names.                               *)
Targets(block) ==
    IF block.insts = <<>> THEN <<>>
    ELSE LET last == LastInst(block)
         IN  IF last.op = "jump" THEN <<last.a.v>>
             ELSE IF last.op = "branch" THEN <<last.b.v, last.c.v>>
             ELSE <<>>

ArithOps   == {"add", "sub", "mul", "sdiv", "udiv", "srem", "urem",
               "and", "or", "xor", "shl", "shr_s", "shr_u"}
CompareOps == {"eq", "ne", "slt", "sle", "sgt", "sge",
               "ult", "ule", "ugt", "uge"}

-----------------------------------------------------------------------------
(* ir_verify.  m.functions are the functions of the module, m.globals its  *)
(* globals and f the function.                                             *)

operand_ok(m, f, o) ==
    CASE o.kind = "temp"   -> o.v \in DOMAIN f.temps
      [] o.kind = "block"  -> o.v \in DOMAIN f.blocks
      [] o.kind = "func"   -> o.v \in DOMAIN m.functions
      [] o.kind = "global" -> o.v \in DOMAIN m.globals
      [] OTHER             -> TRUE

type_of(f, o) == IF o.kind = "temp" THEN f.temps[o.v] ELSE o.type

same_type(m, f, o, expected) ==
    o.kind = "none" \/ (operand_ok(m, f, o) /\ type_of(f, o) = expected)

check_call(m, f, inst) ==
    LET named == IF inst.b.kind = "func" THEN inst.b ELSE inst.a
    IN  /\ inst.a.kind # "func" => same_type(m, f, inst.a, "ptr")
        /\ named.kind = "func" =>
              /\ operand_ok(m, f, named)
              /\ Len(inst.args) = m.functions[named.v].param_count

check_inst(m, f, inst) ==
    LET op == inst.op
    IN  CASE op \in ArithOps ->
               same_type(m, f, inst.a, inst.type) /\ same_type(m, f, inst.b, inst.type)
          [] op \in {"neg", "not", "copy"} -> same_type(m, f, inst.a, inst.type)
          [] op \in CompareOps ->
               /\ operand_ok(m, f, inst.a) /\ operand_ok(m, f, inst.b)
               /\ type_of(f, inst.a) = type_of(f, inst.b)
               /\ inst.type = "i8"
          [] op = "load"   -> same_type(m, f, inst.a, "ptr")
          [] op = "store"  ->
               same_type(m, f, inst.a, inst.type) /\ same_type(m, f, inst.b, "ptr")
          [] op = "ptradd" ->
               same_type(m, f, inst.a, "ptr") /\ same_type(m, f, inst.b, "i64")
          [] op = "memcopy" ->
               /\ same_type(m, f, inst.a, "ptr") /\ same_type(m, f, inst.b, "ptr")
               /\ inst.of # "void"
          [] op = "slot"   -> inst.of # "void"
          [] op = "call"   -> check_call(m, f, inst)
          [] op = "branch" ->
               /\ same_type(m, f, inst.a, "i8")
               /\ operand_ok(m, f, inst.b) /\ operand_ok(m, f, inst.c)
          [] op = "ret"    ->
               /\ inst.type = (IF f.result = "agg" THEN "ptr" ELSE f.result)
               /\ inst.type # "void" => same_type(m, f, inst.a, inst.type)
          [] OTHER -> operand_ok(m, f, inst.a)

(* check_definitions: the forward analysis starts every block with the     *)
(* full set and shrinks the sets until they stop changing.                 *)
Preds(f, b) == {p \in DOMAIN f.blocks : b \in ToSet(Targets(f.blocks[p]))}

entry_set(f, out, b) ==
    LET start == IF b = 1 THEN ToSet(f.params) ELSE DOMAIN f.temps
    IN  {t \in start : \A p \in Preds(f, b) : t \in out[p]}

DefsIn(block) == {block.insts[i].result : i \in DOMAIN block.insts} \ {NO_RESULT}

RECURSIVE DefinedOut(_, _)
DefinedOut(f, out) ==
    LET next == [b \in DOMAIN f.blocks |->
                   entry_set(f, out, b) \cup DefsIn(f.blocks[b])]
    IN  IF next = out THEN out ELSE DefinedOut(f, next)

check_definitions(f) ==
    LET out == DefinedOut(f, [b \in DOMAIN f.blocks |-> DOMAIN f.temps])
    IN  \A b \in DOMAIN f.blocks :
          LET insts == f.blocks[b].insts
              entry == entry_set(f, out, b)
          IN  \A i \in DOMAIN insts :
                \A k \in DOMAIN Operands(insts[i]) :
                  LET o == Operands(insts[i])[k]
                  IN  o.kind = "temp" =>
                        o.v \in entry \cup {insts[j].result : j \in 1 .. (i - 1)}

ir_verify_function(m, f) ==
    /\ \A b \in DOMAIN f.blocks :
         LET insts == f.blocks[b].insts
         IN  /\ insts # <<>> /\ is_terminator(LastInst(f.blocks[b]).op)
             /\ \A i \in DOMAIN insts :
                  /\ check_inst(m, f, insts[i])
                  /\ is_terminator(insts[i].op) => i = Len(insts)
    /\ check_definitions(f)

ir_verify(m) ==
    \A i \in DOMAIN m.functions :
        ~m.functions[i].is_extern => ir_verify_function(m, m.functions[i])

-----------------------------------------------------------------------------
(* The machine.  Integer operations wrap; a division by zero, MIN / -1 and *)
(* a shift by the width or more are undefined.  The quotient of a signed   *)
(* division is the one whose remainder has the sign of the dividend.       *)

Quotient(x, y) ==
    CHOOSE q \in -16 .. 16 :
        LET r == x - q * y
        IN  /\ r < (IF y < 0 THEN -y ELSE y) /\ -r < (IF y < 0 THEN -y ELSE y)
            /\ r = 0 \/ (r < 0) = (x < 0)

Undefined(op, t, a, b) ==
    \/ op \in {"sdiv", "srem", "udiv", "urem"} /\ b = 0
    \/ op \in {"sdiv", "srem"} /\ a = 2^(bits(t) - 1) /\ b = trim(t, -1)
    \/ op \in {"shl", "shr_s", "shr_u"} /\ b >= bits(t)

Truth(p) == IF p THEN 1 ELSE 0

(* What the operation gives for the bits a and b of type t.                *)
Computed(op, t, a, b) ==
    LET x == signed_value(t, a)
        y == signed_value(t, b)
    IN  CASE op = "add"   -> trim(t, x + y)
          [] op = "sub"   -> trim(t, x - y)
          [] op = "mul"   -> trim(t, x * y)
          [] op = "sdiv"  -> trim(t, Quotient(x, y))
          [] op = "srem"  -> trim(t, x - y * Quotient(x, y))
          [] op = "udiv"  -> a \div b
          [] op = "urem"  -> a % b
          [] op = "and"   -> a & b
          [] op = "or"    -> a | b
          [] op = "xor"   -> a ^^ b
          [] op = "shl"   -> trim(t, a * 2^b)
          [] op = "shr_s" -> trim(t, x \div 2^b)
          [] op = "shr_u" -> a \div 2^b
          [] op = "eq"    -> Truth(a = b)
          [] op = "ne"    -> Truth(a # b)
          [] op = "slt"   -> Truth(x < y)
          [] op = "sle"   -> Truth(x <= y)
          [] op = "sgt"   -> Truth(x > y)
          [] op = "sge"   -> Truth(x >= y)
          [] op = "ult"   -> Truth(a < b)
          [] op = "ule"   -> Truth(a <= b)
          [] op = "ugt"   -> Truth(a > b)
          [] op = "uge"   -> Truth(a >= b)
=============================================================================
