--------------------------- MODULE MCLibraryFile ----------------------------
(***************************************************************************)
(* Two modules whose library files MCFrontEnd reads: a, and b that imports *)
(* it.                                                                     *)
(***************************************************************************)
EXTENDS Interfaces

Na == <<97>>
Nb == <<98>>
i32 == types_builtin(5)
i64 == types_builtin(6)
u8 == types_builtin(TYPE_U8)

Fld(name, type, form, marks, vis, bits) ==
    [name |-> name, type |-> type, bits |-> bits, form |-> form, marks |-> marks, vis |-> vis,
     number |-> 0, doc |-> <<100>> \o name]
EnumVal(name, self, n) == [Fld(name, self, 0, {}, 0, 0) EXCEPT !.number = n]
Mem(kind, name, type, contract, marks, vis) ==
    [kind |-> kind, name |-> name, type |-> type, contract |-> contract, marks |-> marks,
     vis |-> vis, doc |-> <<101>>]
Sym(kind, name, type) ==
    [kind |-> kind, name |-> name, type |-> type, exported |-> FALSE, internal |-> FALSE,
     doc |-> <<102>> \o name, params |-> <<>>, variadic |-> 0, value |-> <<>>]
Item(vis, sym) == [vis |-> vis, symbol |-> sym]
Pub(sym) == Item(VIS_PUB, sym)
Fn(name, type, params) == [Sym(SYMBOL_FN, name, type) EXCEPT !.params = params]
Val(kind, n) == [NoValue EXCEPT !.kind = kind, !.n = n]
Con(name, type, v) == [Sym(SYMBOL_CONST, name, type) EXCEPT !.value = <<v>>]
Agg(kind, items) == [NoValue EXCEPT !.kind = kind, !.items = items]

SizeOfS == [NoSymbolic EXCEPT !.kind = 1, !.type = i64, !.of = 22]
Grown == [NoSymbolic EXCEPT !.kind = 3, !.type = i64, !.op = 108,
            !.args = <<SizeOfS, [NoSymbolic EXCEPT !.type = i64, !.value = 300]>>]

Named3(kind, module, name, fields) ==
    [Type(kind) EXCEPT !.module = module, !.name = name, !.fields = fields]
To(t) == [Type(TYPE_POINTER) EXCEPT !.element = t]
FnType(params, result) == [Type(TYPE_FN) EXCEPT !.params = params, !.result = result]

(* The types from 22 on: the struct S, a pointer to it, the private struct *)
(* P, the enum E, the class C, the type of its functions, a pointer to C,  *)
(* [2]i32, []S, two function types, [size_of(S) + 300]u8, a pointer to it. *)
HeapA == types_init \o <<
    [Named3(TYPE_STRUCT, Na, <<83>>, <<Fld(<<120>>, i32, 0, {}, VIS_PUB, 3),
                                      Fld(<<110>>, 23, 0, {}, VIS_PRIVATE, 0)>>)
       EXCEPT !.align = 8, !.marks = {"packed"}, !.item_exported = TRUE],
    To(22),
    Named3(TYPE_STRUCT, Na, <<80>>, <<Fld(<<115>>, 22, 0, {}, VIS_PUB, 0)>>),
    [Named3(TYPE_ENUM, Na, <<69>>, <<EnumVal(<<86>>, 25, 0), EnumVal(<<87>>, 25, 7)>>)
       EXCEPT !.base = u8],
    [Named3(TYPE_CLASS, Na, <<67>>,
            <<Fld(<<98>>, types_object, FIELD_BASE, {}, VIS_PRIVATE, 0),
              Fld(<<111>>, 23, 0, {"own", "mutable"}, 1, 0), Fld(<<97>>, i32, 0, {"atomic"}, 3, 0)>>)
       EXCEPT !.base = types_object, !.marks = {"abstract"},
              !.members = <<Mem("fn", <<112>>, 27, 0, {}, VIS_PRIVATE),
                            Mem("fn", <<109>>, 27, 1, {"operator"}, 1),
                            Mem("const", <<99>>, i32, 0, {}, VIS_PUB),
                            Mem("fn", <<113>>, 27, 2, {"final"}, VIS_PUB)>>],
    FnType(<<28>>, i32), To(26),
    [Type(TYPE_ARRAY) EXCEPT !.element = i32, !.length = 2],
    [Type(TYPE_SLICE) EXCEPT !.element = 22],
    FnType(<<24, 30, 34>>, types_builtin(TYPE_VOID)),
    FnType(<<types_builtin(TYPE_STR)>>, i32),
    [Type(TYPE_ARRAY) EXCEPT !.element = u8, !.length_of = <<Grown>>],
    To(33) >>

Package == [name |-> <<112>>, version |-> <<49>>,
            dependencies |-> <<[name |-> <<113>>, constraint |-> <<50>>, url |-> <<>>]>>,
            license |-> <<77>>, license_text |-> <<>>, attribution |-> <<<<120>>, <<121>>>>]

V0 == ir_scalar(IR_VOID)
VAgg(i) == [type |-> IR_AGG, agg |-> i]
IrField(name, type, bits, ext) == [name |-> name, type |-> type, bits |-> bits, ext |-> ext]
IrAgg(kind, name, length, text, fields) ==
    [kind |-> kind, name |-> name, packed |-> 0, align |-> 0, length |-> length,
     length_text |-> text, fields |-> fields]
Const(kind, n) == [kind |-> kind, scalar |-> 4, n |-> n, type |-> V0, items |-> <<>>]
ConstAgg(agg, items) == [Const(IR_CONST_AGG, 0) EXCEPT !.scalar = 0, !.type = VAgg(agg), !.items = items]
Op3(kind, type, n) == [kind |-> kind, type |-> type, n |-> n]
O0 == Op3(0, 0, 0)
Inst(op, type, result, x, y, z, of, field, args) ==
    [op |-> op, type |-> type, result |-> result, a |-> x, b |-> y, c |-> z, of |-> of,
     field |-> field, args |-> args]
Function(marks, module, name, result, params, temps, blocks) ==
    [marks |-> marks, module |-> module, name |-> name, result |-> result, result_agg |-> NO,
     params |-> params, temps |-> temps, blocks |-> blocks]
Prm(type, ext, agg) == [type |-> type, ext |-> ext, agg |-> agg]
Blk(fails, insts) == [assert_fail |-> fails, insts |-> insts]
Ret == Inst(IR_RET, 0, NO, O0, O0, O0, V0, 0, <<>>)
Glob(module, name, bytes, relocs, marks, value) ==
    [module |-> module, name |-> name, bytes |-> bytes, align |-> 8, relocs |-> relocs,
     marks |-> marks, value |-> value]
Rel(offset, to, fn) == [offset |-> offset, global |-> to, fn |-> fn]

CPrint == Function({"extern", "variadic"}, <<>>, <<99>>, 3, <<Prm(IR_PTR, 0, NO)>>, <<>>, <<>>)

(* An aggregate comes before one it holds, a global before one it names,   *)
(* and a caller before the function it calls.                              *)
IrA == [syms |-> <<[sym_key(3, IR_I64) EXCEPT !.a = 1, !.b = 2],
                   [sym_key(1, IR_I64) EXCEPT !.of = VAgg(1)],
                   [sym_key(0, IR_I64) EXCEPT !.value = 300],
                   [sym_key(2, IR_I64) EXCEPT !.of = VAgg(1), !.field = 1]>>,
        aggs |-> <<IrAgg(0, <<97, 80>>, 0, <<>>, <<IrField(<<115>>, VAgg(1), 0, 0)>>),
                   IrAgg(0, <<97, 83>>, 0, <<>>, <<IrField(<<120>>, ir_scalar(3), 3, 1),
                                                  IrField(<<110>>, ir_scalar(IR_PTR), 0, 0)>>),
                   IrAgg(2, <<91>>, 0, <<43>>, <<IrField(<<>>, ir_scalar(IR_I8), 0, 0)>>)>>,
        globals |-> <<Glob(Na, <<116>>, <<>>, <<>>, {"exported"},
                           <<ConstAgg(1, <<Const(IR_CONST_SYM, 3), Const(IR_CONST_FUNC, 1)>>)>>),
                      Glob(<<>>, <<117>>, [i \in 1..17 |-> i], <<Rel(0, 0, 0), Rel(9, 2, 1)>>,
                           {"mutable"}, <<>>)>>,
        functions |-> <<CPrint,
            Function({}, Na, <<102>>, 3, <<Prm(IR_AGG, 0, 0), Prm(IR_I8, 1, NO)>>,
                     <<IR_PTR, IR_I8, IR_PTR, IR_I64>>,
                     <<Blk(0, <<Inst(IR_SLOT, IR_PTR, 2, O0, O0, O0, VAgg(2), 0, <<>>),
                                Inst(IR_BITLOAD, 3, NO, Op3(1, IR_PTR, 0), O0, O0, VAgg(1), 0, <<>>),
                                Inst(54, 4, 3, Op3(5, IR_PTR, 2), O0, O0, V0, 0,
                                     <<Op3(1, IR_I8, 1), Op3(7, IR_I64, 0), Op3(4, IR_PTR, 1)>>),
                                Inst(56, 0, NO, Op3(2, IR_I8, 5), Op3(6, 0, 1), Op3(6, 0, 1), V0, 0, <<>>)>>),
                       Blk(1, <<Ret>>)>>),
            Function({"exported"}, Na, <<103>>, 4, <<>>, <<>>, <<Blk(0, <<Ret>>)>>)>>]

UnitA == [package |-> Package, module |-> Na, imports |-> <<>>, doc |-> <<65>>, heap |-> HeapA,
          ir |-> IrA,
          items |-> <<
            Pub([Sym(SYMBOL_STRUCT, <<83>>, 22) EXCEPT !.exported = TRUE]),
            Pub(Sym(SYMBOL_STRUCT, <<69>>, 25)),
            Item(VIS_PRIVATE, Fn(<<122>>, 27, <<<<97>>>>)),
            Pub(Sym(SYMBOL_STRUCT, <<67>>, 26)),
            Item(VIS_INTERNAL, Fn(<<102>>, 31, <<<<112>>, <<113>>, <<114>>>>)),
            Pub([Sym(SYMBOL_EXTERN_FN, <<99>>, 32) EXCEPT !.params = <<<<115>>>>, !.variadic = 1]),
            Pub(Con(<<75>>, 29, Agg(CONST_ARRAY, <<Val(0, 5), Val(0, 70000)>>))),
            Pub(Con(<<76>>, 22, Agg(CONST_STRUCT, <<Val(0, 1), Val(4, 0)>>))),
            Pub(Con(<<77>>, types_builtin(TYPE_STR), [Val(CONST_TEXT, 0) EXCEPT !.text = <<104, 0, 105>>])),
            Pub(Con(<<78>>, i64, [Val(CONST_SYMBOLIC, 0) EXCEPT !.symbolic = <<Grown>>])),
            Pub(Con(<<79>>, types_builtin(TYPE_BOOL), Val(2, 1))) >>]

HeapB == SubSeq(HeapA, 1, 26) \o <<
    FnType(<<23>>, i32), To(29),
    [Named3(TYPE_CLASS, Nb, <<68>>, <<Fld(<<98>>, 26, FIELD_BASE, {}, VIS_PRIVATE, 0)>>)
       EXCEPT !.base = 26, !.marks = {"final"}, !.members = <<Mem("fn", <<109>>, 30, 2, {}, 1)>>],
    FnType(<<28>>, i32),
    Named3(TYPE_STRUCT, Nb, <<87>>, <<Fld(<<115>>, 22, 0, {}, VIS_PUB, 0),
                                     Fld(<<119>>, 32, 0, {}, VIS_PUB, 0)>>), To(31)>>

IrB == [syms |-> <<[sym_key(1, IR_I64) EXCEPT !.of = VAgg(1)]>>,
        aggs |-> <<IrA.aggs[2], IrAgg(0, <<98, 87>>, 0, <<>>, <<IrField(<<115>>, VAgg(0), 0, 0)>>)>>,
        globals |-> <<Glob(Nb, <<116>>, <<>>, <<>>, {},
                           <<ConstAgg(0, <<Const(IR_CONST_ADDR, 1), Const(IR_CONST_FUNC, 2)>>)>>),
                      Glob(Na, <<116>>, <<>>, <<>>, {"extern"}, <<>>)>>,
        functions |-> <<
            Function({}, Nb, <<104>>, 3, <<Prm(IR_PTR, 0, NO)>>, <<IR_PTR, IR_I64>>,
                     <<Blk(0, <<Inst(54, 4, 1, Op3(5, IR_PTR, 2), O0, O0, V0, 0, <<Op3(4, IR_PTR, 0)>>),
                                Inst(54, 3, NO, Op3(5, IR_PTR, 1), O0, O0, V0, 0, <<Op3(7, IR_I64, 0)>>),
                                Ret>>)>>),
            CPrint,
            Function({"extern"}, Na, <<103>>, 4, <<>>, <<>>, <<>>)>>]

UnitB == [package |-> Package, module |-> Nb, imports |-> <<Na>>, doc |-> <<66>>, heap |-> HeapB,
          ir |-> IrB,
          items |-> << Pub(Fn(<<104>>, 27, <<<<115>>>>)), Pub(Sym(SYMBOL_STRUCT, <<68>>, 29)),
                       Pub(Sym(SYMBOL_STRUCT, <<87>>, 31)) >>]

mc_Units == <<UnitA, UnitB>>
=============================================================================
