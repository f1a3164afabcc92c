------------------------------ MODULE LibraryIr ------------------------------
(***************************************************************************)
(* The IR of a library file, read into the program: read_ir of src/antl.c. *)
(* r.maps says where each function, global, aggregate and symbolic value   *)
(* of the file went.                                                       *)
(***************************************************************************)
EXTENDS LibraryReader

valid_type(type) == type <= IR_CWCHAR

ir_scalar(type) == [type |-> type, agg |-> NO]

(***************************************************************************)
(* Entries of the program, src/ir.c.                                       *)
(***************************************************************************)
(* The index of x in a table of the program, where it is added unless one  *)
(* of found is the same.                                                   *)
AddTo(r, table, x, found) ==
    IF found # {} THEN [r |-> r, v |-> (CHOOSE i \in found : TRUE) - 1]
    ELSE [r |-> [r EXCEPT !.program[table] = Append(@, x)], v |-> Len(r.program[table])]

(* An aggregate is identified by its name.                                 *)
add_agg(r, t) ==
    AddTo(r, "aggs", t, {i \in DOMAIN r.program.aggs : r.program.aggs[i].name = t.name})

add_sym(r, s) == AddTo(r, "syms", s, {i \in DOMAIN r.program.syms : r.program.syms[i] = s})

sym_key(kind, type) ==
    [kind |-> kind, type |-> type, value |-> 0, of |-> ir_scalar(IR_VOID), field |-> 0,
     op |-> 0, a |-> NO, b |-> NO]

(* An integer keeps the bits of its type.                                  *)
ir_int(type, n) ==
    IF type = IR_I8 /\ n < LARGE THEN n % 256 ELSE IF type = IR_I16 /\ n < LARGE THEN n % 65536 ELSE n

ir_sym(r, s) ==
    add_sym(r, CASE s.kind = 0 -> [sym_key(0, s.type) EXCEPT !.value = ir_int(s.type, s.value)]
                 [] s.kind = 1 -> [sym_key(1, IR_I64) EXCEPT !.of = s.of]
                 [] s.kind = 2 -> [sym_key(2, IR_I64) EXCEPT !.of = s.of, !.field = s.field]
                 [] OTHER -> [sym_key(3, s.type) EXCEPT !.op = s.op, !.a = s.a, !.b = s.b])

(***************************************************************************)
(* Aggregates and symbolic values, which name each other.                  *)
(***************************************************************************)
RECURSIVE map_agg(_, _)
RECURSIVE map_sym(_, _)

map_field_kept(r, agg, i) == r

map_field(r, agg, i) ==
    LET type == r.maps.aggs[agg + 1].fields[i].type
        g == map_agg(r, type.agg)
    IN  IF r.failed \/ type.type # IR_AGG THEN r
        ELSE [g.r EXCEPT !.maps.aggs[agg + 1].fields[i].type.agg = g.v]

map_agg(r, agg) ==
    LET k     == agg + 1
        state == r.maps.agg_state[k]
        busy  == [r EXCEPT !.maps.agg_state[k] = "busy"]
        parts == FoldLeft(LAMBDA q, i : map_field(q, agg, i), busy,
                          [i \in DOMAIN r.maps.aggs[k].fields |-> i])
        t     == parts.maps.aggs[k]
        length == map_sym(parts, t.length)
        array == [t EXCEPT !.length = length.v, !.packed = 0, !.align = 0,
                           !.fields[1] = [name |-> <<>>, type |-> @.type, bits |-> 0, ext |-> 0]]
        new   == IF t.kind = 2 THEN IF length.r.failed THEN length ELSE add_agg(length.r, array)
                 ELSE add_agg(parts, [t EXCEPT !.length = 0, !.length_text = <<>>])
    IN  CASE agg >= Len(r.maps.aggs) -> [r |-> damaged(r), v |-> 0]
          [] state = "busy" -> [r |-> damaged(r), v |-> 0]
          [] state = "done" -> [r |-> r, v |-> r.maps.agg_map[k]]
          [] parts.failed -> [r |-> parts, v |-> 0]
          [] OTHER -> [new EXCEPT !.r.maps.agg_state[k] = "done", !.r.maps.agg_map[k] = new.v]

map_sym(r, sym) ==
    LET k     == sym + 1
        state == r.maps.sym_state[k]
        busy  == [r EXCEPT !.maps.sym_state[k] = "busy"]
        s     == r.maps.syms[k]
        of    == map_agg(busy, s.of.agg)
        measured == IF s.of.type = IR_AGG THEN of ELSE [r |-> busy, v |-> s.of.agg]
        inside == s.kind = 2 => /\ s.of.type = IR_AGG
                                /\ s.field < Len(measured.r.program.aggs[measured.v + 1].fields)
        a     == map_sym(busy, s.a)
        b     == IF s.b = NO THEN [r |-> a.r, v |-> NO] ELSE map_sym(a.r, s.b)
        parts == CASE s.kind \in {1, 2} ->
                        [r |-> DamagedIf(~measured.r.failed /\ ~inside, measured.r),
                         v |-> [s EXCEPT !.of.agg = measured.v]]
                   [] s.kind = 3 -> [r |-> b.r, v |-> [s EXCEPT !.a = a.v, !.b = b.v]]
                   [] OTHER -> [r |-> busy, v |-> s]
        new   == ir_sym(parts.r, parts.v)
    IN  CASE sym >= Len(r.maps.syms) -> [r |-> damaged(r), v |-> 0]
          [] state = "busy" -> [r |-> damaged(r), v |-> 0]
          [] state = "done" -> [r |-> r, v |-> r.maps.sym_map[k]]
          [] parts.r.failed -> [r |-> parts.r, v |-> 0]
          [] OTHER -> [new EXCEPT !.r.maps.sym_state[k] = "done", !.r.maps.sym_map[k] = new.v]

read_vtype(r) ==
    LET g == Reads(r, <<"u8", "u32">>)
        type == g.v[1]
        agg == g.v[2]
    IN  [r |-> DamagedIf(~g.r.failed /\ (~valid_type(type) \/ (type = IR_AGG) # (agg # NO)), g.r),
         v |-> [type |-> type, agg |-> agg]]

read_sym(r) ==
    LET head == Reads(r, <<"u8", "u8", "u64">>)
        of   == read_vtype(head.r)
        rest == Reads(of.r, <<"u32", "u8", "u32", "u32">>)
        s    == [kind |-> head.v[1], type |-> head.v[2], value |-> head.v[3], of |-> of.v,
                 field |-> rest.v[1], op |-> rest.v[2], a |-> rest.v[3], b |-> rest.v[4]]
    IN  [r |-> DamagedIf(\/ s.kind > 3 \/ s.type \notin (1..4) \cup {9, 10} \/ s.op > IR_RET
                         \/ s.kind \in {1, 2} /\ s.of.type = IR_VOID, rest.r),
         v |-> s]

read_agg_field(r) ==
    LET name == get_cstr(r)
        type == read_vtype(name.r)
        rest == Reads(type.r, <<"u8", "u8">>)
    IN  [r |-> DamagedIf(rest.v[2] > 2 \/ type.v.type = IR_VOID, rest.r),
         v |-> [name |-> name.v, type |-> type.v, bits |-> rest.v[1], ext |-> rest.v[2]]]

read_agg(r) ==
    LET g == Reads(r, <<"u8", "cstr", "u8", "u64", "u32", "cstr">>)
        fields == Counted(g.r, 10, LAMBDA q, i : read_agg_field(q))
    IN  [r |-> DamagedIf(\/ g.v[1] > 2 \/ g.v[2] = <<>> \/ fields.v = <<>>
                         \/ g.v[1] = 2 /\ Len(fields.v) # 1, fields.r),
         v |-> [kind |-> g.v[1], name |-> g.v[2], packed |-> IF g.v[3] = 0 THEN 0 ELSE 1,
                align |-> g.v[4], length |-> g.v[5], length_text |-> g.v[6],
                fields |-> fields.v]]

read_tables(r) ==
    LET syms == Counted(r, 27, LAMBDA q, i : read_sym(q))
        aggs == Counted(syms.r, 26, LAMBDA q, i : read_agg(q))
        n    == Len(syms.v)
        m    == Len(aggs.v)
        both == [aggs.r EXCEPT !.maps =
                    [@ EXCEPT !.syms = syms.v, !.sym_map = [i \in 1..n |-> 0],
                              !.sym_state = [i \in 1..n |-> "none"],
                              !.aggs = aggs.v, !.agg_map = [i \in 1..m |-> 0],
                              !.agg_state = [i \in 1..m |-> "none"]]]
        q    == Times(both, m, LAMBDA p, i : map_agg(p, i - 1)).r
    IN  Times(q, n, LAMBDA p, i : map_sym(p, i - 1)).r

read_agg_ref(r, type) ==
    LET g == get_u32(r)
    IN  IF g.r.failed \/ (type = IR_AGG) # (g.v # NO) THEN [r |-> damaged(g.r), v |-> NO]
        ELSE IF type = IR_AGG THEN map_agg(g.r, g.v) ELSE [g EXCEPT !.v = NO]

(***************************************************************************)
(* Constants.                                                              *)
(***************************************************************************)
(* An address keeps the low 32 bits of the 64 that hold it.                *)
RECURSIVE read_const(_, _)
read_const(r, depth) ==
    LET head == Reads(r, <<"u8", "u8", "u64">>)
        kind == head.v[1]
        n    == head.v[3]
        c    == [kind |-> kind, scalar |-> head.v[2], n |-> n, type |-> ir_scalar(IR_VOID),
                 items |-> <<>>]
        low  == Number([i \in 1..4 |-> ByteAt(r, 2 + i)])
        sym  == map_sym(head.r, n)
        type == read_vtype(head.r)
        agg  == map_agg(type.r, type.v.agg)
        items == Times(agg.r, n, LAMBDA q, i : read_const(q, depth + 1))
    IN  CASE depth > 32 -> [r |-> damaged(r), v |-> c]
          [] head.r.failed \/ kind > IR_CONST_AGG \/ ~valid_type(head.v[2]) ->
               [r |-> damaged(head.r), v |-> c]
          [] kind = IR_CONST_SYM -> [r |-> sym.r, v |-> [c EXCEPT !.n = sym.v]]
          [] kind \in {IR_CONST_ADDR, IR_CONST_FUNC} -> [r |-> head.r, v |-> [c EXCEPT !.n = low]]
          [] kind # IR_CONST_AGG -> [r |-> head.r, v |-> c]
          [] type.r.failed \/ type.v.type # IR_AGG -> [r |-> damaged(type.r), v |-> c]
          [] n > (Len(agg.r.data) - agg.r.pos) \div 10 -> [r |-> damaged(agg.r), v |-> c]
          [] OTHER -> [r |-> items.r,
                       v |-> [c EXCEPT !.n = 0, !.type.type = IR_AGG, !.type.agg = agg.v,
                                       !.items = items.v]]

(* The globals and the functions are moved in one pass.                    *)
RECURSIVE remap_const(_, _, _)
remap_const(c, maps, functions) ==
    LET to == IF functions THEN maps.functions ELSE maps.globals
    IN  IF c.kind = (IF functions THEN IR_CONST_FUNC ELSE IR_CONST_ADDR)
        THEN [ok |-> c.n < Len(to),
              c |-> IF c.n < Len(to) THEN [c EXCEPT !.n = to[c.n + 1]] ELSE c]
        ELSE LET items == [i \in DOMAIN c.items |-> remap_const(c.items[i], maps, functions)]
             IN  [ok |-> \A i \in DOMAIN items : items[i].ok,
                  c |-> [c EXCEPT !.items = [i \in DOMAIN items |-> items[i].c]]]

(***************************************************************************)
(* Globals.  The relocations of a global keep the indices of the file      *)
(* until the tables they name are known: AddRelocs adds those of one kind. *)
(***************************************************************************)
read_reloc(r, size) ==
    LET g == Reads(r, <<"u64", "u32", "u8">>)
    IN  [r |-> DamagedIf(g.v[1] > size \/ size - g.v[1] < 8, g.r),
         v |-> [offset |-> g.v[1], global |-> g.v[2], fn |-> IF g.v[3] = 0 THEN 0 ELSE 1]]

read_global(r) ==
    LET head  == Reads(r, <<"cstr", "cstr", "u64", "u64">>)
        size  == head.v[3]
        room  == take(head.r, size)
        bytes == [i \in 1..size |-> ByteAt(room, i)]
        index == Len(r.program.globals)
        relocs == Counted([room EXCEPT !.pos = @ + size], 13, LAMBDA q, i : read_reloc(q, size))
        marks == get_u8(relocs.r)
        value == read_const(marks.r, 0)
        valued == HasBit(marks.v, 1) /\ ~marks.r.failed
        g == [module |-> head.v[1], name |-> head.v[2], bytes |-> bytes, align |-> head.v[4],
              relocs |-> <<>>, marks |-> Flags(marks.v \div 2, <<"exported", "extern", "mutable">>),
              value |-> IF valued THEN <<value.v>> ELSE <<>>]
        q == IF valued THEN value.r ELSE marks.r
    IN  IF room.failed THEN [r |-> room, v |-> [index |-> index, relocs |-> <<>>]]
        ELSE [r |-> [q EXCEPT !.program.globals = Append(@, g),
                              !.maps.globals = Append(@, index)],
              v |-> [index |-> index, relocs |-> relocs.v]]

(* One pass over the globals of the file, for the addresses of globals or  *)
(* for those of functions.                                                 *)
Addresses(r, globals, functions) ==
    LET to(q) == IF functions THEN q.maps.functions ELSE q.maps.globals
        one(q, i) ==
            LET k  == globals[i].index + 1
                g  == q.program.globals[k]
                v  == [j \in DOMAIN g.value |-> remap_const(g.value[j], q.maps, functions)]
                rs == SelectSeq(globals[i].relocs, LAMBDA x : (x.fn = 1) = functions)
                sound == /\ \A j \in DOMAIN v : v[j].ok
                         /\ \A j \in DOMAIN rs : rs[j].global < Len(to(q))
            IN  [r |-> IF ~sound THEN damaged(q)
                       ELSE [q EXCEPT !.program.globals[k] =
                               [g EXCEPT !.value = [j \in DOMAIN v |-> v[j].c],
                                         !.relocs = @ \o [j \in DOMAIN rs |->
                                            [rs[j] EXCEPT !.global = to(q)[@ + 1]]]]],
                 v |-> 0]
    IN  Times(r, Len(globals), one).r

(***************************************************************************)
(* Functions.                                                              *)
(***************************************************************************)
(* The operand names a temporary, a global, a function, a block or a       *)
(* symbolic value that exists, of the type it gives.                       *)
OperandExists(r, f, o) ==
    LET n == o.n
    IN  CASE o.kind = 1 -> n < Len(f.temps) /\ f.temps[n + 1] = o.type
          [] o.kind = 4 -> n < Len(r.maps.globals)
          [] o.kind = 5 -> n < Len(r.maps.functions)
          [] o.kind = 6 -> n < Len(f.blocks)
          [] o.kind = 7 -> n < Len(r.maps.syms) /\ r.maps.syms[n + 1].type = o.type
          [] OTHER -> TRUE

read_operand(r, f) ==
    LET g == Reads(r, <<"u8", "u8", "u64">>)
        o == [kind |-> g.v[1], type |-> g.v[2], n |-> g.v[3]]
        to == CASE o.kind = 4 -> r.maps.globals
                [] o.kind = 5 -> r.maps.functions
                [] o.kind = 7 -> r.maps.sym_map
    IN  IF g.r.failed THEN [r |-> g.r, v |-> o]
        ELSE IF o.kind > 7 \/ ~valid_type(o.type) \/ ~OperandExists(r, f, o)
        THEN [r |-> damaged(g.r), v |-> o]
        ELSE [r |-> g.r,
              v |-> IF o.kind \in {4, 5, 7} THEN [o EXCEPT !.n = to[@ + 1]]
                    ELSE IF o.kind = 0 THEN [o EXCEPT !.n = 0] ELSE o]

read_inst(r, f) ==
    LET head == Reads(r, <<"u8", "u8", "u32">>)
        op   == head.v[1]
        three == Times(head.r, 3, LAMBDA q, i : read_operand(q, f))
        of   == read_vtype(three.r)
        field == get_u32(of.r)
        agg  == map_agg(field.r, of.v.agg)
        q    == IF ~field.r.failed /\ of.v.type = IR_AGG THEN agg.r ELSE field.r
        sized == op \in {IR_SLOT, IR_MEMCOPY, IR_BITLOAD, IR_BITSTORE}
        fields == q.program.aggs[agg.v + 1].fields
        sound == /\ sized # (of.v.type = IR_VOID)
                 /\ op \in {IR_BITLOAD, IR_BITSTORE} =>
                      /\ of.v.type = IR_AGG
                      /\ field.v < Len(fields)
                      /\ fields[field.v + 1].bits # 0
        args == Counted(DamagedIf(~q.failed /\ ~sound, q), 10, LAMBDA p, i : read_operand(p, f))
        abc  == IF Len(three.v) = 3 THEN three.v ELSE <<0, 0, 0>>
    IN  IF \/ op > IR_RET \/ ~valid_type(head.v[2])
           \/ head.v[3] # NO /\ head.v[3] >= Len(f.temps)
        THEN [r |-> damaged(head.r), v |-> <<>>]
        ELSE [r |-> args.r,
              v |-> [op |-> op, type |-> head.v[2], result |-> head.v[3],
                     a |-> abc[1], b |-> abc[2], c |-> abc[3],
                     of |-> [of.v EXCEPT !.agg = IF of.v.type = IR_AGG THEN agg.v ELSE NO],
                     field |-> field.v, args |-> args.v]]

read_body(r, index) ==
    LET f0    == r.program.functions[index + 1]
        n     == Len(f0.params)
        temp(q, i) ==
            LET g == get_u8(q)
            IN  [g EXCEPT !.r = DamagedIf(IF i <= n THEN g.v # f0.temps[i]
                                          ELSE ~valid_type(g.v) \/ g.v \in {IR_VOID, IR_AGG}, @)]
        temps == Counted(r, 1, temp)
        count == get_count(DamagedIf(Len(temps.v) < n, temps.r), 4)
        f     == [f0 EXCEPT !.temps = temps.v, !.blocks = [i \in 1..count.v |-> 0]]
        block(q, i) ==
            LET flag == get_u8(q)
                insts == Counted(flag.r, 46, LAMBDA p, j : read_inst(p, f))
            IN  [r |-> insts.r,
                 v |-> [assert_fail |-> IF flag.v = 0 THEN 0 ELSE 1, insts |-> insts.v]]
        blocks == Times(count.r, count.v, block)
    IN  [blocks.r EXCEPT !.program.functions[index + 1] = [f EXCEPT !.blocks = blocks.v]]

read_param(r) ==
    LET head == Reads(r, <<"u8", "u8">>)
        type == head.v[1]
        ext  == head.v[2]
        agg  == read_agg_ref(head.r, type)
    IN  [r |-> DamagedIf(\/ ~valid_type(type) \/ type = IR_VOID \/ ext > 2
                         \/ (ext # 0) # (type \in {IR_I8, IR_I16}), agg.r),
         v |-> [type |-> type, ext |-> ext, agg |-> agg.v]]

(* The index in the program and whether a body follows.                    *)
read_signature(r) ==
    LET head   == Reads(r, <<"u8", "cstr", "cstr", "u8">>)
        module == head.v[2]
        marks  == Flags(head.v[1], <<"extern", "variadic", "exported">>)
        result == head.v[4]
        agg    == read_agg_ref(head.r, result)
        count  == get_count(agg.r, 6)
        sound  == /\ valid_type(result) /\ head.v[1] <= 7
                  /\ IF module = <<>> THEN "extern" \in marks /\ "exported" \notin marks
                     ELSE "variadic" \notin marks
        same   == {i \in DOMAIN r.program.functions :
                     /\ r.program.functions[i].module = module
                     /\ r.program.functions[i].name = head.v[3]}
        params == Times(count.r, count.v, LAMBDA q, i : read_param(q))
        skipped == Times(count.r, count.v, LAMBDA q, i :
                           LET g == Reads(q, <<"u8", "u8">>) IN read_agg_ref(g.r, g.v[1]))
        f == [module |-> module, name |-> head.v[3], marks |-> marks, result |-> result,
              result_agg |-> agg.v, params |-> params.v, blocks |-> <<>>,
              temps |-> IF "extern" \in marks THEN <<>>
                        ELSE [i \in DOMAIN params.v |->
                                IF params.v[i].type = IR_AGG THEN IR_PTR ELSE params.v[i].type]]
        No(q) == [r |-> q, v |-> [index |-> 0, has_body |-> FALSE]]
    IN  CASE count.r.failed -> No(count.r)
          [] ~sound -> No(damaged(count.r))
          [] same # {} /\ "extern" \notin marks -> No(fail(count.r))
          [] same # {} -> [r |-> skipped.r,
                           v |-> [index |-> (CHOOSE i \in same : \A j \in same : j <= i) - 1, has_body |-> FALSE]]
          [] OTHER -> [r |-> [params.r EXCEPT !.program.functions = Append(@, f)],
                       v |-> [index |-> Len(r.program.functions),
                              has_body |-> "extern" \notin marks]]

read_ir(r) ==
    LET tables  == read_tables(r)
        globals == Counted(tables, 28, LAMBDA q, i : read_global(q))
        first   == Addresses(globals.r, globals.v, FALSE)
        signature(q, i) ==
            LET g == read_signature(q)
            IN  [g EXCEPT !.r.maps.functions = Append(@, g.v.index)]
        sigs    == Counted(first, 15, signature)
        bodies  == Times(sigs.r, Len(sigs.v), LAMBDA q, i :
                           [r |-> IF sigs.v[i].has_body THEN read_body(q, sigs.v[i].index) ELSE q,
                            v |-> 0])
    IN  Addresses(bodies.r, globals.v, TRUE)
=============================================================================
