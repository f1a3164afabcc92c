----------------------------- MODULE LibraryFile -----------------------------
(***************************************************************************)
(* The library files of antic, src/antl.c: the interface of a module and   *)
(* its IR as bytes, and the reader that adds them to a program.            *)
(*                                                                         *)
(* A kind, an operation or a scalar type is its number in the C            *)
(* enumeration, as in the file.  An index of the C tables counts from 0.   *)
(* A type is an index of heap, the types of the process; a type of the     *)
(* heap, a symbol, a constant and an entry of the IR is a record with the  *)
(* fields of the C struct.  A name is the sequence of its bytes.           *)
(***************************************************************************)
EXTENDS Integers, Sequences, SequencesExt

CONSTANT ANTL_VERSION

(* Every bit set: IR_NO_AGG and IR_NO_RESULT.  A number between 2^31 and   *)
(* it is LARGE.                                                            *)
NO == 2147483647
LARGE == 2147483646

TYPE_VOID == 0
TYPE_BOOL == 1
TYPE_CHAR == 2
TYPE_U8 == 8
TYPE_STR == 16
TYPE_NULL == 17
TYPE_POINTER == 19
TYPE_ARRAY == 20
TYPE_SLICE == 21
TYPE_FN == 22
TYPE_STRUCT == 23
TYPE_ENUM == 24
TYPE_CLASS == 25
SYMBOL_CONST == 2
SYMBOL_FN == 3
SYMBOL_EXTERN_FN == 4
SYMBOL_STRUCT == 5
VIS_PRIVATE == 0
VIS_INTERNAL == 2
VIS_PUB == 3
FIELD_BASE == 2
IR_VOID == 0
IR_I8 == 1
IR_I16 == 2
IR_I64 == 4
IR_PTR == 7
IR_AGG == 8
IR_CWCHAR == 10
IR_SLOT == 46
IR_MEMCOPY == 50
IR_BITLOAD == 52
IR_BITSTORE == 53
IR_RET == 57

type_is_integer(t) == t.kind \in 3..13
type_is_float(t) == t.kind \in {14, 15}
type_has_fields(t) == t.kind \in {TYPE_STRUCT, TYPE_CLASS}

Bit(set, name, weight) == IF name \in set THEN weight ELSE 0
HasBit(n, weight) == (n \div weight) % 2 = 1
Flags(n, names) == {names[i] : i \in {j \in DOMAIN names : HasBit(n, 2 ^ (j - 1))}}

(* Of every member of a sequence, one after the other.                     *)
Each(s, Put(_)) == FoldLeft(LAMBDA all, x : all \o Put(x), <<>>, s)

(***************************************************************************)
(* Types.                                                                  *)
(***************************************************************************)
Type(kind) ==
    [kind |-> kind, element |-> 0, length |-> 0, length_of |-> <<>>, params |-> <<>>,
     result |-> 0, module |-> <<>>, name |-> <<>>, marks |-> {}, align |-> 0,
     fields |-> <<>>, members |-> <<>>, base |-> 0, item_exported |-> FALSE]

types_builtin(kind) == kind + 1

(* A derived type exists once.                                             *)
find_or_add(heap, key) ==
    LET same == {i \in DOMAIN heap : heap[i] = key}
    IN  IF same # {} THEN [heap |-> heap, t |-> CHOOSE i \in same : TRUE]
        ELSE [heap |-> Append(heap, key), t |-> Len(heap) + 1]

(* The class anti.rt.Object, whose one field is the table pointer.         *)
RtName == <<114, 116>>
ObjectName == <<79>>
types_object == 20

types_init ==
    LET table == [name |-> <<116>>, type |-> 21, bits |-> 0, form |-> 3, marks |-> {},
                  vis |-> VIS_PRIVATE, number |-> 0, doc |-> <<>>]
    IN  [i \in 1..19 |-> Type(i - 1)] \o
        << [Type(TYPE_CLASS) EXCEPT !.module = RtName, !.name = ObjectName, !.fields = <<table>>],
           [Type(TYPE_POINTER) EXCEPT !.element = types_builtin(TYPE_U8)] >>

(* The structs that a value of type t holds.                               *)
RECURSIVE SizeOf(_)
SizeOf(s) == (IF s.kind = 1 THEN {s.of} ELSE {}) \cup UNION {SizeOf(s.args[i]) : i \in DOMAIN s.args}

RECURSIVE cycle_in(_, _)
cycle_in(heap, t) ==
    IF heap[t].kind # TYPE_ARRAY THEN IF type_has_fields(heap[t]) THEN {t} ELSE {}
    ELSE cycle_in(heap, heap[t].element) \cup
         UNION {cycle_in(heap, u) : u \in UNION {SizeOf(s) : s \in ToSet(heap[t].length_of)}}

RECURSIVE HeldBy(_, _)
HeldBy(heap, S) ==
    LET more == S \cup UNION {UNION {cycle_in(heap, f.type) : f \in ToSet(heap[s].fields)} : s \in S}
    IN  IF more = S THEN S ELSE HeldBy(heap, more)

types_find_cycle(heap, s) ==
    s \in HeldBy(heap, UNION {cycle_in(heap, f.type) : f \in ToSet(heap[s].fields)})

(***************************************************************************)
(* What a module shows: its pub items and, marked, its internal ones.      *)
(***************************************************************************)
sema_interface(unit) ==
    [package |-> unit.package, module |-> unit.module, imports |-> unit.imports,
     doc |-> unit.doc,
     items |-> LET shown == SelectSeq(unit.items, LAMBDA it : it.vis \in {VIS_INTERNAL, VIS_PUB})
               IN  [i \in DOMAIN shown |->
                      [shown[i].symbol EXCEPT !.internal = shown[i].vis = VIS_INTERNAL]]]

(***************************************************************************)
(* Writing.                                                                *)
(***************************************************************************)
put_u8(v) == <<v>>

put_u32(v) ==
    IF v = NO THEN <<255, 255, 255, 255>>
    ELSE <<v % 256, (v \div 256) % 256, (v \div 65536) % 256, v \div 16777216>>

put_u64(v) == put_u32(v) \o (IF v = NO THEN <<255, 255, 255, 255>> ELSE <<0, 0, 0, 0>>)

put_bytes(s) == put_u32(Len(s)) \o s

put_doc(w, text) == put_bytes(IF w.strip_docs THEN <<>> ELSE text)

put_list(s, Put(_)) == put_u32(Len(s)) \o Each(s, Put)

is_local_struct(w, t) == type_has_fields(w.heap[t]) /\ w.heap[t].module = w.iface.module

public_members(t) == SelectSeq(t.members, LAMBDA m : m.kind = "fn" /\ m.vis # VIS_PRIVATE)

is_public_struct(w, t) == \E s \in ToSet(w.iface.items) : s.kind = SYMBOL_STRUCT /\ s.type = t

(* The index of a type in the table of the file.                           *)
find_type(w, t) ==
    IF t \notin ToSet(w.types) THEN NO
    ELSE (CHOOSE i \in DOMAIN w.types :
              w.types[i] = t /\ \A j \in 1..(i - 1) : w.types[j] # t) - 1

add_type(w, t) == [w EXCEPT !.types = Append(@, t)]

RECURSIVE visit_type(_, _)
RECURSIVE visit_symbolic(_, _)
visit_symbolic(w, s) ==
    LET own == visit_type(w, s.type)
    IN  FoldLeft(visit_symbolic, IF s.of = 0 THEN own ELSE visit_type(own, s.of), s.args)

RECURSIVE visit_value(_, _)
visit_value(w, v) == FoldLeft(visit_value, FoldLeft(visit_symbolic, w, v.symbolic), v.items)

visit_type(w, t) ==
    LET x == w.heap[t]
        field(u, f) == visit_type(u, f.type)
    IN  CASE t \in ToSet(w.types) -> w
          [] x.kind = TYPE_ARRAY ->
               add_type(visit_type(FoldLeft(visit_symbolic, w, x.length_of), x.element), t)
          [] x.kind \in {TYPE_POINTER, TYPE_SLICE} -> add_type(visit_type(w, x.element), t)
          [] x.kind = TYPE_FN ->
               add_type(visit_type(FoldLeft(visit_type, w, x.params), x.result), t)
          [] type_has_fields(x) ->
               IF is_local_struct(w, t)
               THEN FoldLeft(field, FoldLeft(field, add_type(w, t), x.fields), public_members(x))
               ELSE add_type(w, t)
          [] x.kind = TYPE_ENUM -> add_type(visit_type(w, x.base), t)
          [] OTHER -> add_type(w, t)

put_type_ref(w, t) == put_u32(find_type(w, t))

RECURSIVE put_symbolic(_, _)
put_symbolic(w, s) ==
    put_u8(s.kind) \o put_type_ref(w, s.type) \o
    (CASE s.kind = 0 -> put_u64(s.value)
       [] s.kind = 1 -> put_type_ref(w, s.of)
       [] OTHER -> put_u8(s.op) \o Each(s.args, LAMBDA a : put_symbolic(w, a)))

put_field(w, f, public) ==
    put_bytes(f.name) \o put_type_ref(w, f.type) \o put_u8(f.bits) \o
    put_u8(f.form + Bit(f.marks, "own", 16) + Bit(f.marks, "atomic", 32)
                  + Bit(f.marks, "mutable", 64)) \o
    put_u8(f.vis) \o put_doc(w, IF public THEN f.doc ELSE <<>>)

put_member(w, m) ==
    put_bytes(m.name) \o put_type_ref(w, m.type) \o
    put_u8(m.contract + Bit(m.marks, "final", 16) + Bit(m.marks, "operator", 32)) \o
    put_u8(m.vis) \o put_doc(w, m.doc)

put_type(w, t) ==
    LET x == w.heap[t]
        public == is_public_struct(w, t)
    IN  put_u8(x.kind) \o
        CASE x.kind \in {TYPE_POINTER, TYPE_SLICE} -> put_type_ref(w, x.element)
          [] x.kind = TYPE_ARRAY ->
               put_type_ref(w, x.element) \o
               (IF x.length_of # <<>> THEN put_u8(1) \o put_symbolic(w, x.length_of[1])
                ELSE put_u8(0) \o put_u64(x.length))
          [] x.kind = TYPE_FN ->
               put_list(x.params, LAMBDA p : put_type_ref(w, p)) \o put_type_ref(w, x.result)
          [] type_has_fields(x) ->
               put_bytes(x.module) \o put_bytes(x.name) \o
               IF ~is_local_struct(w, t) THEN <<>>
               ELSE put_u8(Bit(x.marks, "union", 1) + Bit(x.marks, "packed", 2)
                           + Bit(x.marks, "abstract", 4) + Bit(x.marks, "final", 8)) \o
                    put_u64(x.align) \o
                    put_list(x.fields, LAMBDA f : put_field(w, f, public)) \o
                    put_list(public_members(x), LAMBDA m : put_member(w, m))
          [] x.kind = TYPE_ENUM ->
               put_bytes(x.module) \o put_bytes(x.name) \o put_type_ref(w, x.base) \o
               put_list(x.fields, LAMBDA f : put_bytes(f.name) \o put_u64(f.number)
                                             \o put_doc(w, f.doc))
          [] OTHER -> <<>>

CONST_CHAR == 3
CONST_TEXT == 5
CONST_ARRAY == 6
CONST_STRUCT == 7
CONST_SYMBOLIC == 8

RECURSIVE put_value(_, _)
put_value(w, v) ==
    put_u8(v.kind) \o
    CASE v.kind \in {0, 1} -> put_u64(v.n)
      [] v.kind = 2 -> put_u8(v.n)
      [] v.kind = CONST_CHAR -> put_u32(v.n)
      [] v.kind = CONST_TEXT -> put_bytes(v.text)
      [] v.kind \in {CONST_ARRAY, CONST_STRUCT} -> put_list(v.items, LAMBDA x : put_value(w, x))
      [] v.kind = CONST_SYMBOLIC -> put_symbolic(w, v.symbolic[1])
      [] OTHER -> <<>>

put_vtype(v) == put_u8(v.type) \o put_u32(v.agg)

IR_CONST_SYM == 3
IR_CONST_ADDR == 4
IR_CONST_FUNC == 5
IR_CONST_AGG == 6

RECURSIVE put_const(_)
put_const(c) ==
    put_u8(c.kind) \o put_u8(c.scalar) \o
    (IF c.kind = IR_CONST_AGG
     THEN put_u64(Len(c.items)) \o put_vtype(c.type) \o Each(c.items, put_const)
     ELSE put_u64(c.n))

put_operand(o) == put_u8(o.kind) \o put_u8(o.type) \o put_u64(o.n)

put_inst(i) ==
    put_u8(i.op) \o put_u8(i.type) \o put_u32(i.result) \o put_operand(i.a) \o
    put_operand(i.b) \o put_operand(i.c) \o put_vtype(i.of) \o put_u32(i.field) \o
    put_list(i.args, put_operand)

put_sym(s) ==
    put_u8(s.kind) \o put_u8(s.type) \o put_u64(s.value) \o put_vtype(s.of) \o
    put_u32(s.field) \o put_u8(s.op) \o put_u32(s.a) \o put_u32(s.b)

put_agg(t) ==
    put_u8(t.kind) \o put_bytes(t.name) \o put_u8(t.packed) \o put_u64(t.align) \o
    put_u32(t.length) \o put_bytes(t.length_text) \o
    put_list(t.fields, LAMBDA f : put_bytes(f.name) \o put_vtype(f.type) \o put_u8(f.bits)
                                  \o put_u8(f.ext))

put_global(g) ==
    put_bytes(g.module) \o put_bytes(g.name) \o put_u64(Len(g.bytes)) \o put_u64(g.align) \o
    g.bytes \o
    put_list(g.relocs, LAMBDA x : put_u64(x.offset) \o put_u32(x.global) \o put_u8(x.fn)) \o
    put_u8(Bit(g.marks, "exported", 2) + Bit(g.marks, "extern", 4) + Bit(g.marks, "mutable", 8)
           + (IF g.value = <<>> THEN 0 ELSE 1)) \o
    Each(g.value, put_const)

put_signature(f) ==
    put_u8(Bit(f.marks, "extern", 1) + Bit(f.marks, "variadic", 2)
           + Bit(f.marks, "exported", 4)) \o
    put_bytes(f.module) \o put_bytes(f.name) \o put_u8(f.result) \o put_u32(f.result_agg) \o
    put_list(f.params, LAMBDA p : put_u8(p.type) \o put_u8(p.ext) \o put_u32(p.agg))

put_body(f) ==
    put_list(f.temps, put_u8) \o
    put_list(f.blocks, LAMBDA b : put_u8(b.assert_fail) \o put_list(b.insts, put_inst))

put_ir(ir) ==
    put_list(ir.syms, put_sym) \o put_list(ir.aggs, put_agg) \o
    put_list(ir.globals, put_global) \o put_list(ir.functions, put_signature) \o
    Each(SelectSeq(ir.functions, LAMBDA f : "extern" \notin f.marks), put_body)

magic == <<65, 78, 84, 76>>

put_header(w) ==
    LET p == w.iface.package
    IN  magic \o put_u32(ANTL_VERSION) \o put_bytes(p.name) \o put_bytes(p.version) \o
        put_list(p.dependencies, LAMBDA d : put_bytes(d.name) \o put_bytes(d.constraint)
                                            \o put_bytes(d.url)) \o
        put_bytes(p.license) \o put_bytes(p.license_text) \o
        put_list(p.attribution, put_bytes) \o
        put_bytes(w.iface.module) \o put_list(w.iface.imports, put_bytes) \o
        put_doc(w, w.iface.doc)

put_item(w, sym) ==
    put_u8(sym.kind) \o put_bytes(sym.name) \o put_type_ref(w, sym.type) \o
    put_u8((IF sym.exported THEN 1 ELSE 0) + (IF sym.internal THEN 2 ELSE 0)) \o
    put_doc(w, sym.doc) \o
    (IF sym.kind \in {SYMBOL_FN, SYMBOL_EXTERN_FN} THEN Each(sym.params, put_bytes) ELSE <<>>) \o
    (CASE sym.kind = SYMBOL_EXTERN_FN -> put_u8(sym.variadic)
       [] sym.kind = SYMBOL_CONST -> put_value(w, sym.value[1])
       [] OTHER -> <<>>)

antl_write(iface, heap, ir, strip_docs) ==
    LET w0 == [heap |-> heap, iface |-> iface, strip_docs |-> strip_docs, types |-> <<>>]
        visit(w, sym) == FoldLeft(visit_value, visit_type(w, sym.type), sym.value)
        w == FoldLeft(visit, w0, iface.items)
    IN  put_header(w) \o put_list(w.types, LAMBDA t : put_type(w, t)) \o
        put_list(iface.items, LAMBDA s : put_item(w, s)) \o put_ir(ir)
=============================================================================
