----------------------------- MODULE Interfaces -----------------------------
(***************************************************************************)
(* What a library file promises: the reference that the reader and the     *)
(* writer are held against.  A type, a constant or a piece of IR is told   *)
(* by names instead of the indices of the process that holds it, so that   *)
(* two processes can be compared.                                          *)
(***************************************************************************)
EXTENDS LibraryIr

(***************************************************************************)
(* Types.                                                                  *)
(***************************************************************************)
RECURSIVE Described(_, _)
RECURSIVE SymbolicText(_, _)

SymbolicText(heap, s) ==
    [kind |-> s.kind, type |-> Described(heap, s.type), value |-> s.value, op |-> s.op,
     of |-> IF s.of = 0 THEN <<>> ELSE <<Described(heap, s.of)>>,
     args |-> [i \in DOMAIN s.args |-> SymbolicText(heap, s.args[i])]]

(* The types a derived type is built from.                                 *)
Parts(x) ==
    CASE x.kind \in {TYPE_POINTER, TYPE_SLICE, TYPE_ARRAY} -> <<x.element>>
      [] x.kind = TYPE_FN -> Append(x.params, x.result)
      [] OTHER -> <<>>

Described(heap, t) ==
    LET x == heap[t]
    IN  [kind |-> x.kind, module |-> x.module, name |-> x.name, length |-> x.length,
         of |-> [i \in DOMAIN x.length_of |-> SymbolicText(heap, x.length_of[i])],
         parts |-> [i \in DOMAIN Parts(x) |-> Described(heap, Parts(x)[i])]]

RECURSIVE SymbolicTypes(_)
SymbolicTypes(s) ==
    ({s.type, s.of} \ {0}) \cup UNION {SymbolicTypes(a) : a \in ToSet(s.args)}

RECURSIVE ValueTypes(_)
ValueTypes(v) ==
    UNION {SymbolicTypes(s) : s \in ToSet(v.symbolic)} \cup
    UNION {ValueTypes(x) : x \in ToSet(v.items)}

(* The types that those of S reach inside a module.                        *)
RECURSIVE Reach(_, _, _)
Reach(heap, module, S) ==
    LET into(t) ==
            LET x == heap[t]
            IN  ToSet(Parts(x)) \cup UNION {SymbolicTypes(s) : s \in ToSet(x.length_of)} \cup
                (IF x.kind = TYPE_ENUM THEN {x.base} ELSE {}) \cup
                IF ~type_has_fields(x) \/ x.module # module THEN {}
                ELSE {f.type : f \in ToSet(x.fields)} \cup {m.type : m \in ToSet(public_members(x))}
        more == S \cup UNION {into(t) : t \in S}
    IN  IF more = S THEN S ELSE Reach(heap, module, more)

Reached(heap, iface) ==
    Reach(heap, iface.module,
          UNION {{s.type} \cup UNION {ValueTypes(v) : v \in ToSet(s.value)} : s \in ToSet(iface.items)})

(* A struct, a class or an enum with all that another module needs of it:  *)
(* every field, and the functions that are not private.                    *)
StructText(heap, t, Doc(_)) ==
    LET x == heap[t]
        part(p) == [p EXCEPT !.type = Described(heap, @), !.doc = Doc(@)]
    IN  [self |-> Described(heap, t), marks |-> x.marks, align |-> x.align,
         exported |-> x.item_exported,
         base |-> IF x.base = 0 THEN <<>> ELSE <<Described(heap, x.base)>>,
         fields |-> [i \in DOMAIN x.fields |-> part(x.fields[i])],
         members |-> LET shown == public_members(x) IN [i \in DOMAIN shown |-> part(shown[i])]]

RECURSIVE ValueText(_, _)
ValueText(heap, v) ==
    [v EXCEPT !.items = [i \in DOMAIN @ |-> ValueText(heap, @[i])],
              !.symbolic = [i \in DOMAIN @ |-> SymbolicText(heap, @[i])]]

InterfaceText(heap, iface, Doc(_)) ==
    [package |-> iface.package, module |-> iface.module, imports |-> iface.imports,
     doc |-> Doc(iface.doc),
     items |-> [i \in DOMAIN iface.items |->
                  [iface.items[i] EXCEPT !.type = Described(heap, @), !.doc = Doc(@),
                                         !.value = [j \in DOMAIN @ |-> ValueText(heap, @[j])]]]]

Local(heap, iface) ==
    {t \in Reached(heap, iface) :
       heap[t].kind \in {TYPE_STRUCT, TYPE_CLASS, TYPE_ENUM} /\ heap[t].module = iface.module}

(* The types of a module as its file keeps them.  The text of a field of a *)
(* struct that is not in the interface is not kept.                        *)
TypeTexts(heap, iface, Doc(_)) ==
    LET named(t) == \E s \in ToSet(iface.items) : s.kind = SYMBOL_STRUCT /\ s.type = t
        text(t) == StructText(heap, t, Doc)
    IN  {IF named(t) \/ heap[t].kind = TYPE_ENUM THEN text(t)
         ELSE [text(t) EXCEPT !.fields = [i \in DOMAIN @ |-> [@[i] EXCEPT !.doc = <<>>]]]
           : t \in Local(heap, iface)}

(***************************************************************************)
(* The IR.                                                                 *)
(***************************************************************************)
VText(p, v) == [type |-> v.type, name |-> IF v.type = IR_AGG THEN p.aggs[v.agg + 1].name ELSE <<>>]

RECURSIVE IrSymText(_, _)
IrSymText(p, i) ==
    LET s == p.syms[i + 1]
    IN  [kind |-> s.kind, type |-> s.type, value |-> s.value, of |-> VText(p, s.of),
         field |-> s.field, op |-> s.op,
         args |-> IF s.kind # 3 THEN <<>>
                  ELSE <<IrSymText(p, s.a)>> \o (IF s.b = NO THEN <<>> ELSE <<IrSymText(p, s.b)>>)]

AggText(p, t) ==
    [kind |-> t.kind, name |-> t.name, packed |-> t.packed, align |-> t.align,
     length |-> IF t.kind = 2 THEN <<IrSymText(p, t.length)>> ELSE <<>>, text |-> t.length_text,
     fields |-> [i \in DOMAIN t.fields |-> [t.fields[i] EXCEPT !.type = VText(p, @)]]]

Identity(entry) == [module |-> entry.module, name |-> entry.name]

RECURSIVE ConstText(_, _)
ConstText(p, c) ==
    [kind |-> c.kind, scalar |-> c.scalar, type |-> VText(p, c.type),
     n |-> IF c.kind \in {IR_CONST_SYM, IR_CONST_ADDR, IR_CONST_FUNC} THEN 0 ELSE c.n,
     sym |-> IF c.kind = IR_CONST_SYM THEN <<IrSymText(p, c.n)>> ELSE <<>>,
     to |-> CASE c.kind = IR_CONST_ADDR -> <<Identity(p.globals[c.n + 1])>>
              [] c.kind = IR_CONST_FUNC -> <<Identity(p.functions[c.n + 1])>>
              [] OTHER -> <<>>,
     items |-> [i \in DOMAIN c.items |-> ConstText(p, c.items[i])]]

GlobalText(p, g) ==
    [module |-> g.module, name |-> g.name, bytes |-> g.bytes, align |-> g.align, marks |-> g.marks,
     value |-> [i \in DOMAIN g.value |-> ConstText(p, g.value[i])],
     relocs |-> {[offset |-> x.offset, fn |-> x.fn,
                  to |-> Identity(IF x.fn = 1 THEN p.functions[x.global + 1] ELSE p.globals[x.global + 1])]
                   : x \in ToSet(g.relocs)}]

OperandText(p, o) ==
    [kind |-> o.kind, type |-> o.type, n |-> IF o.kind \in {4, 5, 7} THEN 0 ELSE o.n,
     sym |-> IF o.kind = 7 THEN <<IrSymText(p, o.n)>> ELSE <<>>,
     to |-> CASE o.kind = 4 -> <<Identity(p.globals[o.n + 1])>>
              [] o.kind = 5 -> <<Identity(p.functions[o.n + 1])>>
              [] OTHER -> <<>>]

InstText(p, i) ==
    [i EXCEPT !.a = OperandText(p, @), !.b = OperandText(p, @), !.c = OperandText(p, @),
              !.of = VText(p, @), !.args = [j \in DOMAIN @ |-> OperandText(p, @[j])]]

AggName(p, agg) == IF agg = NO THEN <<>> ELSE p.aggs[agg + 1].name

FunctionText(p, f) ==
    [f EXCEPT !.result_agg = AggName(p, @),
              !.params = [i \in DOMAIN @ |-> [@[i] EXCEPT !.agg = AggName(p, @)]],
              !.blocks = [i \in DOMAIN @ |->
                 [@[i] EXCEPT !.insts = [j \in DOMAIN @ |-> InstText(p, @[j])]]]]

AggTexts(p) == {AggText(p, t) : t \in ToSet(p.aggs)}
GlobalTexts(p) == [i \in DOMAIN p.globals |-> GlobalText(p, p.globals[i])]
FunctionTexts(p) == {FunctionText(p, f) : f \in ToSet(p.functions)}

(* What the libraries link to: all their functions, a declaration only     *)
(* where none of them defines the function.                                *)
Linked(fs) ==
    {f \in fs : "extern" \notin f.marks \/ \A g \in fs : "extern" \in g.marks \/ Identity(g) # Identity(f)}

(***************************************************************************)
(* Every index of a program names an entry of it.                          *)
(***************************************************************************)
AggIn(p, v) == v.type = IR_AGG => v.agg < Len(p.aggs)

OperandIn(p, f, o) ==
    CASE o.kind = 1 -> o.n < Len(f.temps)
      [] o.kind = 4 -> o.n < Len(p.globals)
      [] o.kind = 5 -> o.n < Len(p.functions)
      [] o.kind = 6 -> o.n < Len(f.blocks)
      [] o.kind = 7 -> o.n < Len(p.syms)
      [] OTHER -> TRUE

RECURSIVE ConstIn(_, _)
ConstIn(p, c) ==
    /\ AggIn(p, c.type)
    /\ c.kind = IR_CONST_SYM => c.n < Len(p.syms)
    /\ c.kind = IR_CONST_ADDR => c.n < Len(p.globals)
    /\ c.kind = IR_CONST_FUNC => c.n < Len(p.functions)
    /\ \A i \in DOMAIN c.items : ConstIn(p, c.items[i])

NothingDangles(p) ==
    /\ \A i \in DOMAIN p.aggs :
         /\ \A x \in ToSet(p.aggs[i].fields) : x.type.type = IR_AGG => x.type.agg < i - 1
         /\ p.aggs[i].kind = 2 => p.aggs[i].length < Len(p.syms)
    /\ \A i \in DOMAIN p.syms : LET s == p.syms[i] IN
         /\ AggIn(p, s.of)
         /\ s.kind = 2 => s.field < Len(p.aggs[s.of.agg + 1].fields)
         /\ s.kind = 3 => s.a < i - 1 /\ (s.b = NO \/ s.b < i - 1)
    /\ \A g \in ToSet(p.globals) :
         /\ \A c \in ToSet(g.value) : ConstIn(p, c)
         /\ \A x \in ToSet(g.relocs) :
              /\ x.offset + 8 <= Len(g.bytes)
              /\ x.global < Len(IF x.fn = 1 THEN p.functions ELSE p.globals)
    /\ \A f \in ToSet(p.functions) : \A b \in ToSet(f.blocks) : \A i \in ToSet(b.insts) :
         /\ i.result = NO \/ i.result < Len(f.temps)
         /\ \A o \in {i.a, i.b, i.c} \cup ToSet(i.args) : OperandIn(p, f, o)
         /\ AggIn(p, i.of)
         /\ i.op \in {IR_BITLOAD, IR_BITSTORE} => i.field < Len(p.aggs[i.of.agg + 1].fields)
=============================================================================
