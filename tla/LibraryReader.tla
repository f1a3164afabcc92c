---------------------------- MODULE LibraryReader ----------------------------
(***************************************************************************)
(* The reader of library files, the second half of src/antl.c.             *)
(*                                                                         *)
(* r is struct reader with the types and the program it adds to.  A read   *)
(* gives [r, v]: the reader after it and the value.  After a failure every *)
(* read gives 0 or an empty name, and the loops end.                       *)
(***************************************************************************)
EXTENDS LibraryFile

NoIface == [package |-> [name |-> <<>>, version |-> <<>>, dependencies |-> <<>>,
                         license |-> <<>>, license_text |-> <<>>, attribution |-> <<>>],
            module |-> <<>>, imports |-> <<>>, doc |-> <<>>, items |-> <<>>]

NoMaps == [functions |-> <<>>, globals |-> <<>>, aggs |-> <<>>, agg_map |-> <<>>,
           agg_state |-> <<>>, syms |-> <<>>, sym_map |-> <<>>, sym_state |-> <<>>]

NoProgram == [syms |-> <<>>, aggs |-> <<>>, globals |-> <<>>, functions |-> <<>>]

(* A reader at the start of the bytes of a file.                           *)
Opened(data, heap, libraries, program) ==
    [data |-> data, pos |-> 0, failed |-> FALSE, heap |-> heap, libraries |-> libraries,
     iface |-> NoIface, table |-> <<>>, structs |-> <<>>, program |-> program, maps |-> NoMaps]

fail(r) == [r EXCEPT !.failed = TRUE]

damaged(r) == fail(r)

DamagedIf(cond, r) == IF cond THEN damaged(r) ELSE r

(* The last byte may be missing.                                           *)
take_short(r, n) ==
    IF ~r.failed /\ n > Len(r.data) - r.pos + 1
    THEN damaged([r EXCEPT !.pos = Len(r.data)])
    ELSE r

take(r, n) ==
    IF ~r.failed /\ n > Len(r.data) - r.pos
    THEN damaged([r EXCEPT !.pos = Len(r.data)])
    ELSE r

(* The byte number i from here; there is none past the end.                *)
ByteAt(r, i) == IF r.pos + i <= Len(r.data) THEN r.data[r.pos + i] ELSE 0

Number(b) ==
    CASE \A i \in DOMAIN b : b[i] = 255 /\ Len(b) > 1 -> NO
      [] \E i \in 4..Len(b) : b[i] > (IF i = 4 THEN 126 ELSE 0) -> LARGE
      [] OTHER -> FoldRight(LAMBDA x, n : x + 256 * n, SubSeq(b, 1, IF Len(b) > 4 THEN 4 ELSE Len(b)), 0)

get_uint(r, bytes) ==
    LET q == take(r, bytes)
    IN  IF q.failed THEN [r |-> q, v |-> 0]
        ELSE [r |-> [q EXCEPT !.pos = @ + bytes], v |-> Number([i \in 1..bytes |-> ByteAt(q, i)])]

get_u8(r) == get_uint(r, 1)
get_u32(r) == get_uint(r, 4)
get_u64(r) == get_uint(r, 8)

get_count(r, min) ==
    LET g == get_u32(r)
    IN  IF ~g.r.failed /\ g.v > (Len(g.r.data) - g.r.pos) \div min
        THEN [r |-> damaged(g.r), v |-> 0] ELSE g

get_name(r) ==
    LET g == get_count(r, 1)
        q == take(g.r, g.v)
    IN  IF q.failed THEN [r |-> q, v |-> <<>>]
        ELSE [r |-> [q EXCEPT !.pos = @ + g.v], v |-> [i \in 1..g.v |-> ByteAt(q, i)]]

(* A C string ends at its first zero.                                      *)
get_cstr(r) ==
    LET g == get_name(r)
        zero == {i \in DOMAIN g.v : g.v[i] = 0}
    IN  IF zero = {} THEN g
        ELSE [g EXCEPT !.v = SubSeq(@, 1, (CHOOSE i \in zero : \A j \in zero : i <= j) - 1)]

(* A run of reads, one after the other.                                    *)
Reads(r, gets) ==
    LET upto[i \in 0..Len(gets)] ==
            IF i = 0 THEN [r |-> r, v |-> <<>>]
            ELSE LET a == upto[i - 1]
                     g == CASE gets[i] = "u8" -> get_u8(a.r)
                            [] gets[i] = "u32" -> get_u32(a.r)
                            [] gets[i] = "u64" -> get_u64(a.r)
                            [] gets[i] = "name" -> get_name(a.r)
                            [] gets[i] = "cstr" -> get_cstr(a.r)
                 IN  [r |-> g.r, v |-> Append(a.v, g.v)]
    IN  upto[Len(gets)]

(* n turns of a loop that ends at a failure.  They are counted in rows of  *)
(* 16, which keeps the recursion of TLC shallow.                           *)
Times(r, n, One(_, _)) ==
    LET row[k \in 0..(n \div 16)] ==
            LET start == IF k = 0 THEN [r |-> r, v |-> <<>>] ELSE row[k - 1]
                turns[i \in 0..16] ==
                    IF i = 0 THEN start
                    ELSE LET a == turns[i - 1]
                             g == One(a.r, 16 * k + i)
                         IN  IF a.r.failed THEN a ELSE [r |-> g.r, v |-> Append(a.v, g.v)]
            IN  turns[IF n - 16 * k < 16 THEN n - 16 * k ELSE 16]
    IN  row[n \div 16]

Counted(r, min, One(_, _)) == LET n == get_count(r, min) IN Times(n.r, n.v, One)

CStrings(r, min) == Counted(r, min, LAMBDA q, i : get_cstr(q))

(* The library that holds a module, or nothing.                            *)
library(r, module) == SelectSeq(r.libraries, LAMBDA l : l.module = module)

read_magic(r) ==
    IF Len(r.data) < 4 \/ SubSeq(r.data, 1, 4) # magic THEN fail(r)
    ELSE LET g == get_u32([r EXCEPT !.pos = 4])
         IN  IF ~g.r.failed /\ g.v # ANTL_VERSION THEN fail(g.r) ELSE g.r

read_header(r) ==
    LET names == Reads(read_magic(r), <<"cstr", "cstr">>)
        dependency(q, i) ==
            LET g == Reads(q, <<"cstr", "cstr", "cstr">>)
            IN  [g EXCEPT !.v = [name |-> g.v[1], constraint |-> g.v[2], url |-> g.v[3]]]
        deps   == Counted(names.r, 12, dependency)
        legal  == Reads(deps.r, <<"cstr", "cstr">>)
        lines  == CStrings(legal.r, 4)
        module == get_cstr(lines.r)
        imports == CStrings(module.r, 4)
        doc    == get_cstr(imports.r)
    IN  IF read_magic(r).failed THEN read_magic(r)
        ELSE [doc.r EXCEPT !.iface =
                [package |-> [name |-> names.v[1], version |-> names.v[2],
                              dependencies |-> deps.v, license |-> legal.v[1],
                              license_text |-> legal.v[2], attribution |-> lines.v],
                 module |-> module.v, imports |-> imports.v, doc |-> doc.v, items |-> <<>>]]

(***************************************************************************)
(* The types.  0 is NULL.                                                  *)
(***************************************************************************)
type_ref(r, limit) ==
    LET g == get_u32(r)
    IN  IF g.r.failed \/ g.v >= limit THEN [r |-> damaged(g.r), v |-> 0]
        ELSE [g EXCEPT !.v = r.table[g.v + 1]]

foreign_struct(r, module, name) ==
    LET lib == library(r, module)
        items == IF lib = <<>> THEN <<>>
                 ELSE SelectSeq(lib[1].items, LAMBDA s : s.kind = SYMBOL_STRUCT /\ s.name = name)
    IN  IF module = RtName /\ name = ObjectName THEN [r |-> r, v |-> types_object]
        ELSE IF items = <<>> THEN [r |-> fail(r), v |-> 0]
        ELSE [r |-> r, v |-> items[1].type]

symbolic_op_ok(kind, op) ==
    CASE kind = 2 -> op \in {109, 116, 117}
      [] kind = 4 -> op = 12
      [] OTHER -> op \in (108..115) \cup (118..127)

NoSymbolic == [kind |-> 0, type |-> 0, value |-> 0, of |-> 0, op |-> 0, args |-> <<>>]

RECURSIVE read_symbolic(_, _, _)
read_symbolic(r, limit, depth) ==
    LET kind == get_u8(r)
        type == type_ref(kind.r, limit)
        key  == [NoSymbolic EXCEPT !.kind = kind.v, !.type = type.v]
        value == get_u64(type.r)
        of   == type_ref(type.r, limit)
        op   == get_u8(type.r)
        args == Times(op.r, IF kind.v = 3 THEN 2 ELSE 1,
                      LAMBDA q, i : read_symbolic(q, limit, depth + 1))
        read == CASE type.r.failed \/ kind.v > 4 \/ depth > 64 -> [r |-> damaged(type.r), v |-> key]
                  [] kind.v = 0 -> [r |-> value.r, v |-> [key EXCEPT !.value = value.v]]
                  [] kind.v = 1 -> [r |-> of.r, v |-> [key EXCEPT !.of = of.v]]
                  [] ~op.r.failed /\ ~symbolic_op_ok(kind.v, op.v) ->
                       [r |-> damaged(op.r), v |-> key]
                  [] OTHER -> [r |-> args.r, v |-> [key EXCEPT !.op = op.v, !.args = args.v]]
    IN  IF read.r.failed THEN read
        ELSE LET t == read.r.heap[type.v]
             IN  [read EXCEPT !.r = DamagedIf(~(type_is_integer(t) \/ t.kind = TYPE_BOOL), @)]

(* The type of the heap equal to key.                                      *)
Derived(r, key) ==
    IF r.failed THEN [r |-> r, v |-> 0]
    ELSE LET f == find_or_add(r.heap, key) IN [r |-> [r EXCEPT !.heap = f.heap], v |-> f.t]

(* A struct or an enum, which is a type of its own every time.             *)
Fresh(r, key) ==
    [r |-> [r EXCEPT !.heap = Append(@, key)], v |-> Len(r.heap) + 1]

read_array(r, i) ==
    LET element == type_ref(r, i)
        mark    == get_u8(element.r)
        of      == read_symbolic(mark.r, i, 0)
        length  == get_u64(mark.r)
        key     == [Type(TYPE_ARRAY) EXCEPT !.element = element.v]
    IN  IF mark.v # 0 THEN Derived(of.r, [key EXCEPT !.length_of = <<of.v>>])
        ELSE Derived(DamagedIf(length.v = 0, length.r), [key EXCEPT !.length = length.v])

read_fn(r, i) ==
    LET params == Counted(r, 4, LAMBDA q, j : type_ref(q, i))
        result == type_ref(params.r, i)
    IN  Derived(result.r, [Type(TYPE_FN) EXCEPT !.params = params.v, !.result = result.v])

read_field(r) ==
    LET g == Reads(r, <<"name", "u32", "u8", "u8", "u8", "name">>)
        form == g.v[4] % 16
    IN  [r |-> DamagedIf(form > 4 \/ g.v[5] > VIS_PUB, g.r),
         v |-> [name |-> g.v[1], type |-> g.v[2], bits |-> g.v[3], form |-> form,
                marks |-> Flags(g.v[4] \div 16, <<"own", "atomic", "mutable">>),
                vis |-> g.v[5], number |-> 0, doc |-> g.v[6]]]

read_member(r) ==
    LET g == Reads(r, <<"name", "u32", "u8", "u8", "name">>)
        contract == g.v[3] % 16
    IN  [r |-> DamagedIf(contract > 2 \/ g.v[4] > VIS_PUB, g.r),
         v |-> [kind |-> "fn", name |-> g.v[1], type |-> g.v[2], contract |-> contract,
                marks |-> Flags(g.v[3] \div 16, <<"final", "operator">>),
                vis |-> g.v[4], doc |-> g.v[5]]]

(* A number of these bytes is 0 or a power of two.                         *)
OneBit(b) ==
    LET filled == {i \in DOMAIN b : b[i] # 0}
    IN  Cardinality(filled) <= 1 /\ \A i \in filled : b[i] \in {2 ^ k : k \in 0..7}

(* A struct of this module.  Its fields name types that may come later, so *)
(* they hold the indices of the file until the table is whole.             *)
read_struct(r, kind, module, name) ==
    LET head   == Reads(r, <<"u8", "u64">>)
        align  == head.v[2]
        sound  == head.v[1] <= 15 /\ OneBit([i \in 1..8 |-> ByteAt(r, 1 + i)])
        fields == Counted(DamagedIf(~sound, head.r), 9, LAMBDA q, j : read_field(q))
        members == Counted(DamagedIf(fields.v = <<>>, fields.r), 8,
                           LAMBDA q, j : read_member(q))
        key == [Type(kind) EXCEPT
                  !.module = module, !.name = name, !.align = align,
                  !.marks = Flags(head.v[1], <<"union", "packed", "abstract", "final">>),
                  !.fields = fields.v, !.members = members.v]
        new == Fresh(members.r, key)
    IN  [new EXCEPT !.r.structs = Append(@, new.v)]

read_enum(r, i, module, name) ==
    LET base == type_ref(r, i)
        value(q, j) ==
            LET g == Reads(q, <<"name", "u64", "name">>)
            IN  [g EXCEPT !.v = [name |-> g.v[1], type |-> Len(q.heap) + 1, bits |-> 0,
                                 form |-> 0, marks |-> {}, vis |-> 0, number |-> g.v[2],
                                 doc |-> g.v[3]]]
        values == Counted(base.r, 8, value)
    IN  Fresh(DamagedIf(values.v = <<>>, values.r),
              [Type(TYPE_ENUM) EXCEPT !.module = module, !.name = name, !.base = base.v,
                                      !.fields = values.v])

(* Entry i of the type table.                                              *)
read_type(r, i) ==
    LET kind  == get_u8(r)
        ref   == type_ref(kind.r, i)
        names == Reads(kind.r, <<"name", "name">>)
        module == names.v[1]
        name  == names.v[2]
        t == CASE kind.v \in {TYPE_POINTER, TYPE_SLICE} ->
                    Derived(ref.r, [Type(kind.v) EXCEPT !.element = ref.v])
               [] kind.v = TYPE_ARRAY -> read_array(kind.r, i)
               [] kind.v = TYPE_FN -> read_fn(kind.r, i)
               [] kind.v \in {TYPE_STRUCT, TYPE_CLASS, TYPE_ENUM} /\ names.r.failed -> [names EXCEPT !.v = 0]
               [] kind.v \in {TYPE_STRUCT, TYPE_CLASS} ->
                    IF module # r.iface.module THEN foreign_struct(names.r, module, name)
                    ELSE read_struct(names.r, kind.v, module, name)
               [] kind.v = TYPE_ENUM -> read_enum(names.r, i, module, name)
               [] kind.v < TYPE_NULL -> [kind EXCEPT !.v = types_builtin(kind.v)]
               [] OTHER -> [kind EXCEPT !.r = damaged(kind.r), !.v = 0]
    IN  [r |-> [t.r EXCEPT !.table = Append(@, t.v)], v |-> t.v]

(* The fields and functions of a struct get the types they name.           *)
ResolveStruct(r, s) ==
    LET x == r.heap[s]
        type(n) == IF n >= Len(r.table) THEN types_builtin(TYPE_VOID) ELSE r.table[n + 1]
        fields == [j \in DOMAIN x.fields |-> [x.fields[j] EXCEPT !.type = type(@)]]
        sound == /\ \A j \in DOMAIN fields : r.heap[fields[j].type].kind # TYPE_VOID
                 /\ \A j \in DOMAIN x.members : x.members[j].type < Len(r.table)
    IN  IF ~sound THEN damaged(r)
        ELSE [r EXCEPT !.heap[s] =
                [x EXCEPT !.fields = fields,
                          !.members = [j \in DOMAIN @ |-> [@[j] EXCEPT !.type = type(@)]],
                          !.base = IF x.kind = TYPE_CLASS /\ fields[1].form = FIELD_BASE
                                   THEN fields[1].type ELSE @]]

read_types(r) ==
    LET all == Counted(r, 1, LAMBDA q, i : read_type(q, i - 1)).r
        q   == FoldLeft(LAMBDA p, s : IF p.failed THEN p ELSE ResolveStruct(p, s),
                        all, all.structs)
    IN  DamagedIf(~q.failed /\ \E s \in ToSet(q.structs) : types_find_cycle(q.heap, s), q)

(***************************************************************************)
(* The items.                                                              *)
(***************************************************************************)
NoValue == [kind |-> 4, n |-> 0, text |-> <<>>, items |-> <<>>, symbolic |-> <<>>]

(* A constant of type t; ok says whether it is one.                        *)
RECURSIVE read_value(_, _, _)
read_value(r, t, depth) ==
    LET kind == get_u8(r)
        x    == r.heap[t]
        k    == kind.v
        v0   == [NoValue EXCEPT !.kind = k]
        Num(g, fits) == [r |-> g.r, ok |-> ~g.r.failed /\ fits, v |-> [v0 EXCEPT !.n = g.v]]
        text == get_name(kind.r)
        sym  == read_symbolic(kind.r, Len(r.table), 0)
        n    == get_count(kind.r, 1)
        part(i) == IF k = CONST_ARRAY THEN x.element ELSE x.fields[i].type
        items == FoldLeft(LAMBDA a, i :
                            IF ~a.ok THEN a
                            ELSE LET g == read_value(a.r, part(i), depth + 1)
                                 IN  [r |-> g.r, ok |-> g.ok, v |-> [a.v EXCEPT !.items = Append(@, g.v)]],
                          [r |-> n.r, ok |-> TRUE, v |-> v0], [i \in 1..n.v |-> i])
        fits == IF k = CONST_ARRAY THEN x.kind = TYPE_ARRAY /\ n.v = x.length
                ELSE type_has_fields(x) /\ n.v = Len(x.fields)
        No(q) == [r |-> q, ok |-> FALSE, v |-> v0]
    IN  CASE kind.r.failed \/ depth > 64 -> No(damaged(kind.r))
          [] k = 0 -> Num(get_u64(kind.r), type_is_integer(x) \/ x.kind = TYPE_BOOL)
          [] k = 1 -> Num(get_u64(kind.r), type_is_float(x))
          [] k = 2 -> Num(get_u8(kind.r), x.kind = TYPE_BOOL)
          [] k = CONST_CHAR -> Num(get_u32(kind.r), x.kind = TYPE_CHAR)
          [] k = 4 -> [No(kind.r) EXCEPT !.ok = x.kind \in {TYPE_POINTER, TYPE_FN}]
          [] k = CONST_TEXT ->
               [r |-> text.r, ok |-> ~text.r.failed /\ x.kind \in {TYPE_STR, TYPE_SLICE},
                v |-> [v0 EXCEPT !.text = text.v]]
          [] k = CONST_SYMBOLIC ->
               [r |-> sym.r, ok |-> ~sym.r.failed /\ sym.v.type = t,
                v |-> [v0 EXCEPT !.symbolic = <<sym.v>>]]
          [] k \in {CONST_ARRAY, CONST_STRUCT} -> IF n.r.failed \/ ~fits THEN No(n.r) ELSE items
          [] OTHER -> No(kind.r)

read_item(r) ==
    LET kind == get_u8(r)
        name == get_name(kind.r)
        type == type_ref(name.r, Len(r.table))
        rest == Reads(type.r, <<"u8", "name">>)
        exported == HasBit(rest.v[1], 1)
        q    == IF rest.r.failed \/ ~exported \/ kind.v # SYMBOL_STRUCT THEN rest.r
                ELSE [rest.r EXCEPT !.heap[type.v].item_exported = TRUE]
        x    == q.heap[type.v]
        fn   == x.kind = TYPE_FN
        params == Reads(q, IF fn THEN [i \in DOMAIN x.params |-> "name"] ELSE <<>>)
        variadic == get_u8(params.r)
        value == read_value(q, type.v, 0)
        sym  == [kind |-> kind.v, name |-> name.v, type |-> type.v, exported |-> exported,
                 internal |-> HasBit(rest.v[1], 2), doc |-> rest.v[2], params |-> <<>>,
                 variadic |-> 0, value |-> <<>>]
        Item(p, ok, s) == [r |-> DamagedIf(~ok, p), v |-> s]
    IN  CASE rest.r.failed -> [r |-> q, v |-> sym]
          [] kind.v = SYMBOL_FN -> Item(params.r, fn, [sym EXCEPT !.params = params.v])
          [] kind.v = SYMBOL_EXTERN_FN ->
               Item(variadic.r, fn, [sym EXCEPT !.params = params.v,
                                                !.variadic = IF variadic.v = 0 THEN 0 ELSE 1])
          [] kind.v = SYMBOL_STRUCT ->
               Item(q, (type_has_fields(x) \/ x.kind = TYPE_ENUM) /\ x.module = r.iface.module, sym)
          [] kind.v = SYMBOL_CONST -> Item(value.r, value.ok, [sym EXCEPT !.value = <<value.v>>])
          [] OTHER -> Item(q, FALSE, sym)

read_items(r) ==
    LET all == Counted(r, 14, LAMBDA q, i : read_item(q))
    IN  [all.r EXCEPT !.iface.items = all.v]
=============================================================================
