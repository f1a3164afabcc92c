------------------------------ MODULE Lowering ------------------------------
(***************************************************************************)
(* src/lower.c: the checked tree of a function becomes blocks of           *)
(* instructions.  The operators keep the names of the source and pass the  *)
(* lowerer l along; an operator that gives an operand gives it with the    *)
(* lowerer after it, as [l |-> lowerer, v |-> operand].                    *)
(*                                                                         *)
(* l.b is the current block, or 0 after a terminator.  l.defers, l.loops,  *)
(* l.handling and l.tries are the chains of the C code, innermost first.   *)
(***************************************************************************)
EXTENDS Meaning

With2(l, v) == [l |-> l, v |-> v]

-----------------------------------------------------------------------------
(* Building instructions, as src/ir.c does.                                *)

append(l, inst) == [l EXCEPT !.f.blocks[l.b].insts = Append(@, inst)]

ir_temp(l, type) == [l EXCEPT !.f.temps = Append(@, type)]

NewTemp(l) == Len(l.f.temps) + 1

temp(l, t) == ir_temp_op(l.f, t)

ir_binary(l, op, type, x, y) ==
    With2(append(ir_temp(l, type),
                 [NewInst(op, type, NewTemp(l)) EXCEPT !.a = x, !.b = y]),
          Op("temp", type, NewTemp(l)))

ir_unary(l, op, type, x) == ir_binary(l, op, type, x, ir_none)

ir_assign(l, dst, src) ==
    append(l, [NewInst("copy", l.f.temps[dst], dst) EXCEPT !.a = src])

ir_load(l, type, pointer) == ir_unary(l, "load", type, pointer)

ir_store(l, type, value, pointer) ==
    append(l, [NewInst("store", type, NO_RESULT) EXCEPT !.a = value, !.b = pointer])

ir_memcopy(l, dst, src, of) ==
    append(l, [NewInst("memcopy", "void", NO_RESULT) EXCEPT !.a = dst, !.b = src, !.of = of])

ir_addr(l, target) == ir_unary(l, "addr", "ptr", target)

ir_slot(l, b, of) ==
    With2([ir_temp(l, "ptr") EXCEPT !.f.blocks[b].insts =
             Append(@, [NewInst("slot", "ptr", NewTemp(l)) EXCEPT !.of = of])],
          Op("temp", "ptr", NewTemp(l)))

(* A slot after the slots that begin the entry block.                      *)
ir_entry_slot(l, of) ==
    LET insts == l.f.blocks[1].insts
        at    == Max({k \in 0 .. Len(insts) :
                        \A j \in 1 .. k : insts[j].op = "slot"})
        slot  == [NewInst("slot", "ptr", NewTemp(l)) EXCEPT !.of = of]
    IN  With2([ir_temp(l, "ptr") EXCEPT !.f.blocks[1].insts = InsertAt(@, at + 1, slot)],
              Op("temp", "ptr", NewTemp(l)))

ir_call(l, type, callee, sig, args) ==
    LET gives == type # "void"
        inst  == [NewInst("call", type, IF gives THEN NewTemp(l) ELSE NO_RESULT)
                    EXCEPT !.a = callee, !.b = sig, !.args = args]
        rtype == IF type = "agg" THEN "ptr" ELSE type
    IN  IF gives THEN With2(append(ir_temp(l, rtype), inst), Op("temp", rtype, NewTemp(l)))
        ELSE With2(append(l, inst), ir_none)

ir_jump(l, target) ==
    append(l, [NewInst("jump", "void", NO_RESULT) EXCEPT !.a = ir_block_op(target)])

ir_branch(l, cond, then, else) ==
    append(l, [NewInst("branch", "void", NO_RESULT) EXCEPT
                 !.a = cond, !.b = ir_block_op(then), !.c = ir_block_op(else)])

ir_ret(l, type, value) ==
    append(l, [NewInst("ret", type, NO_RESULT) EXCEPT !.a = value])

new_block(l) ==
    [l EXCEPT !.f.blocks = Append(@, [insts |-> <<>>, assert_fail |-> FALSE,
                                      loop_depth |-> l.loop_depth])]

LastBlock(l) == Len(l.f.blocks)
At(l, b)     == [l EXCEPT !.b = b]

-----------------------------------------------------------------------------
(* Functions of the module.  A function is found by its name, or declared  *)
(* at its first call.                                                      *)

ExternFn(name, param_count) ==
    [name |-> name, is_extern |-> TRUE, exported |-> FALSE, param_count |-> param_count,
     params |-> <<>>, temps |-> <<>>, blocks |-> <<>>, result |-> "void"]

find_function(m, name) == {i \in DOMAIN m.functions : m.functions[i].name = name}

(* rt_function, c_function and callee_function of an extern.               *)
rt_function(l, name, param_count) ==
    LET found == find_function(l.m, name)
    IN  IF found # {} THEN With2(l, ir_func_op(Min(found)))
        ELSE With2([l EXCEPT !.m.functions = Append(@, ExternFn(name, param_count))],
                   ir_func_op(Len(l.m.functions) + 1))

(* signature: calls through a pointer with the same number of parameters   *)
(* share one declared function.                                            *)
signature(l, param_count) ==
    LET same == {i \in DOMAIN l.m.functions :
                   l.m.functions[i].name = "fn" /\ l.m.functions[i].param_count = param_count}
    IN  IF same # {} THEN With2(l, ir_func_op(Min(same)))
        ELSE With2([l EXCEPT !.m.functions = Append(@, ExternFn("fn", param_count))],
                   ir_func_op(Len(l.m.functions) + 1))

CallRt(l, name, type, args) ==
    LET r == rt_function(l, name, Len(args)) IN ir_call(r.l, type, r.v, ir_none, args)

(* literal_global: literals with equal bytes share the global.             *)
literal_global(l, text) ==
    LET same == {g \in DOMAIN l.m.globals : l.m.globals[g].value = text}
    IN  IF same # {} THEN With2(l, ir_global_op(Min(same)))
        ELSE With2([l EXCEPT !.m.globals = Append(@, [value |-> text, exported |-> FALSE])],
                   ir_global_op(Len(l.m.globals) + 1))

-----------------------------------------------------------------------------
(* Expressions.                                                            *)

min_bits(type) == bits(type)

(* A conversion truncates when the target is never wider than the source.  *)
narrows(from, to) == bits(to) <= min_bits(from)

zero == ir_int_op("i64", 0)

offset_address(l, address, offset) ==
    IF offset.kind = "int" /\ offset.v = 0 THEN With2(l, address)
    ELSE ir_binary(l, "ptradd", "ptr", address, offset)

(* The first field is at offset 0 on every target, a later one at a        *)
(* symbolic offset.                                                        *)
field_offset(fld) == IF fld = 0 THEN zero ELSE ir_sym_offset_of(fld)

RECURSIVE lower_expr(_, _), lower_address(_, _), lower_place(_, _), lower_args(_, _, _),
          lower_call(_, _), build_into(_, _, _), store_value(_, _, _), lower_branch(_, _, _, _),
          lower_stmt(_, _), lower_block(_, _), lower_stmts(_, _), lower_if(_, _, _, _),
          lower_arms(_, _, _, _, _), run_defers(_, _), run_defers_to(_, _, _),
          handle_error(_, _, _, _), reserve_slots(_, _)

Fn(l)     == l.prog.fns[l.fi]
InTemp(l, n) == ~InMemory(Fn(l), n)

field_address(l, e) ==
    LET base == IF e.x.t = "ptr" THEN lower_expr(l, e.x) ELSE lower_address(l, e.x)
    IN  offset_address(base.l, base.v, field_offset(e.fld))

element_address(l, e) ==
    LET base   == lower_address(l, e.x)
        index  == lower_expr(base.l, e.i)
        offset == ir_binary(index.l, "mul", "i64", index.v, Op("sym", "i64", 1))
    IN  ir_binary(offset.l, "ptradd", "ptr", base.v, offset.v)

lower_address(l, e) ==
    CASE e.k = "var"   -> With2(l, temp(l, l.ir[e.n]))
      [] e.k = "field" -> field_address(l, e)
      [] e.k = "index" -> element_address(l, e)
      [] e.k = "un"    -> lower_expr(l, e.x)
      [] e.k = "call"  -> lower_call(l, e)
      [] OTHER ->
           LET slot == ir_entry_slot(l, "agg")
           IN  With2(build_into(slot.l, e, slot.v), slot.v)

(* A place: a variable in a temporary, or an address in memory.            *)
lower_place(l, e) ==
    IF e.k = "var" /\ InTemp(l, e.n)
    THEN [l |-> l, in_temp |-> TRUE, temp |-> l.ir[e.n], address |-> ir_none,
          type |-> ir_type_of(e.t)]
    ELSE LET a == lower_address(l, e)
         IN  [l |-> a.l, in_temp |-> FALSE, temp |-> NO_RESULT, address |-> a.v,
              type |-> ir_type_of(e.t)]

read_place(p) ==
    IF p.in_temp THEN With2(p.l, temp(p.l, p.temp)) ELSE ir_load(p.l, p.type, p.address)

\* Mutant: the 1 of a negated Boolean has the width of an integer.
lower_unary_wide(l, e) ==
    LET x == lower_expr(l, e.x)
        t == ir_type_of(e.t)
    IN  CASE e.op = "-" -> ir_unary(x.l, "neg", t, x.v)
          [] e.op = "!" -> ir_binary(x.l, "xor", "i8", x.v, ir_int_op("i64", 1))
          [] e.op = "~" -> ir_unary(x.l, "not", t, x.v)
          [] OTHER      -> ir_load(x.l, t, x.v)

lower_unary(l, e) ==
    IF e.op = "&" THEN LET p == lower_place(l, e.x) IN With2(p.l, p.address)
    ELSE IF e.op = "-" /\ e.x.k = "int" THEN With2(l, ir_int_op(ir_type_of(e.t), -e.x.v))
    ELSE LET x == lower_expr(l, e.x)
             t == ir_type_of(e.t)
         IN  CASE e.op = "-" -> ir_unary(x.l, "neg", t, x.v)
               [] e.op = "!" -> ir_binary(x.l, "xor", "i8", x.v, ir_int_op("i8", 1))
               [] e.op = "~" -> ir_unary(x.l, "not", t, x.v)
               [] e.op = "*" -> ir_load(x.l, t, x.v)

(* a && b or a || b as a value: the result is a when a decides it, else b. *)
short_circuit(l, e) ==
    LET left   == lower_expr(l, e.l)
        result == ir_unary(left.l, "copy", "i8", left.v)
        l2     == new_block(new_block(result.l))
        rest   == LastBlock(l2) - 1
        join   == LastBlock(l2)
        l3     == IF e.op = "&&" THEN ir_branch(l2, left.v, rest, join)
                  ELSE ir_branch(l2, left.v, join, rest)
        right  == lower_expr(At(l3, rest), e.r)
        l4     == ir_jump(ir_assign(right.l, result.v.v, right.v), join)
    IN  With2(At(l4, join), result.v)

is_comparison(op) == op \in {"==", "!=", "<", "<=", ">", ">="}

lower_binary(l, e) ==
    IF e.op \in {"&&", "||"} THEN short_circuit(l, e)
    ELSE LET left  == lower_expr(l, e.l)
             right == lower_expr(left.l, e.r)
         IN  ir_binary(right.l, binary_op(e.op, e.l.t),
                       IF is_comparison(e.op) THEN "i8" ELSE ir_type_of(e.l.t),
                       left.v, right.v)

lower_cast(l, e) ==
    LET v      == lower_expr(l, e.x)
        source == ir_type_of(e.x.t)
        target == ir_type_of(e.t)
    IN  IF source = target THEN v
        ELSE ir_unary(v.l, IF narrows(source, target) THEN "trunc"
                           ELSE IF Signed(e.x.t) THEN "sext" ELSE "zext", target, v.v)

lower_args(l, es, vs) ==
    IF es = <<>> THEN With2(l, vs)
    ELSE LET a == lower_expr(l, Head(es)) IN lower_args(a.l, Tail(es), Append(vs, a.v))

(* A call that can fail gives the error pointer and takes the out          *)
(* parameter last; a virtual call reads the table of the object.           *)
lower_call(l, e) ==
    LET args     == lower_args(l, e.args, <<>>)
        vs       == args.v \o (IF e.out THEN <<l.out_address>> ELSE <<>>)
        callee   == rt_function(args.l, e.f, Len(vs))
        declared == IF e.handler.kind = "none" THEN ir_type_of(e.t) ELSE "ptr"
        table    == ir_load(args.l, "ptr", vs[1])
        slot     == offset_address(table.l, table.v, field_offset(1))
        entry    == ir_load(slot.l, "ptr", slot.v)
        sig      == signature(entry.l, Len(vs))
    IN  IF e.k = "virtual" THEN ir_call(sig.l, declared, entry.v, sig.v, vs)
        ELSE ir_call(callee.l, declared, callee.v, ir_none, vs)

lower_expr(l, e) ==
    IF is_aggregate(e.t) THEN lower_address(l, e)
    ELSE CASE e.k = "int"  -> With2(l, ir_int_op(ir_type_of(e.t), e.v))
           [] e.k = "un"   -> lower_unary(l, e)
           [] e.k = "bin"  -> lower_binary(l, e)
           [] e.k = "cast" -> lower_cast(l, e)
           [] e.k \in {"call", "virtual"} -> lower_call(l, e)
           [] OTHER        -> read_place(lower_place(l, e))

store_value(l, e, address) ==
    IF is_aggregate(e.t) THEN build_into(l, e, address)
    ELSE LET v == lower_expr(l, e) IN ir_store(v.l, ir_type_of(e.t), v.v, address)

(* A literal fills its fields in place, and any other value is copied. The *)
(* table pointer of a class is the first word of the object.               *)
build_into(l, e, dest) ==
    LET table == ir_addr(l, ir_global_op(l.prog.table))
        start == IF e.t = "class" THEN ir_store(table.l, "ptr", table.v, dest) ELSE l
        first == IF e.t = "class" THEN 1 ELSE 0
        field(g, k) == LET at == offset_address(g, dest, field_offset(first + k - 1))
                       IN  store_value(at.l, e.vs[k], at.v)
        src   == lower_address(l, e)
    IN  IF e.k = "lit" THEN FoldLeft(field, start, [k \in DOMAIN e.vs |-> k])
        ELSE ir_memcopy(src.l, dest, src.v, "agg")

(* Branch to then or else; && and || branch after each operand.            *)
lower_branch(l, e, then, else) ==
    IF e.k = "bin" /\ e.op \in {"&&", "||"}
    THEN LET l2   == new_block(l)
             rest == LastBlock(l2)
             l3   == IF e.op = "&&" THEN lower_branch(l2, e.l, rest, else)
                     ELSE lower_branch(l2, e.l, then, rest)
         IN  lower_branch(At(l3, rest), e.r, then, else)
    ELSE IF e.k = "un" /\ e.op = "!" THEN lower_branch(l, e.x, else, then)
    ELSE LET v == lower_expr(l, e) IN ir_branch(v.l, v.v, then, else)

-----------------------------------------------------------------------------
(* Statements.                                                             *)

has_defers(l) == \E k \in DOMAIN l.defers : l.defers[k] # <<>>

(* Run the statements of one block scope, last declared first.             *)
destroy_local(l, n) == CallRt(l, "anti_rt_destroy", "void", <<temp(l, l.ir[n])>>).l

run_defers(l, scope) ==
    IF scope = <<>> \/ l.b = 0 THEN l
    ELSE LET act  == Last(scope)
             done == IF act.k # "destroy" THEN lower_stmt(l, act)
                     ELSE IF act.n # l.moved THEN destroy_local(l, act.n) ELSE l
         IN  run_defers(done, Front(scope))

(* Run every scope from the innermost out to the one at depth stop.        *)
run_defers_to(l, k, stop) ==
    IF k > Len(l.defers) - stop THEN l
    ELSE run_defers_to(run_defers(l, l.defers[k]), k + 1, stop)

JumpOut(l, target) == IF l.b = 0 THEN l ELSE At(ir_jump(l, target), 0)

(* jump_to_join: the join block exists only when some path reaches it.     *)
jump_to_join(l, join) ==
    IF l.b = 0 THEN With2(l, join)
    ELSE LET l2 == IF join = 0 THEN new_block(l) ELSE l
             j  == IF join = 0 THEN LastBlock(l2) ELSE join
         IN  With2(ir_jump(l2, j), j)

lower_if(l, branches, else, join) ==
    LET l1   == new_block(l)
        then == LastBlock(l1)
        last == Len(branches) = 1 /\ else = <<>>
        l2   == IF last /\ join # 0 THEN l1 ELSE new_block(l1)
        next == IF last /\ join # 0 THEN join ELSE LastBlock(l2)
        l3   == lower_branch(l2, Head(branches).c, then, next)
        l4   == lower_block(At(l3, then), Head(branches).body)
        j    == jump_to_join(l4, IF last THEN next ELSE join)
        l5   == At(j.l, next)
        e    == jump_to_join(lower_block(l5, else[1]), j.v)
    IN  IF Len(branches) > 1 THEN lower_if(l5, Tail(branches), else, j.v)
        ELSE IF else # <<>> THEN At(e.l, e.v)
        ELSE At(j.l, j.v)

EnterLoop(l, continue_to, break_to) ==
    [l EXCEPT !.loops = <<[continue_to |-> continue_to, break_to |-> break_to,
                           defers_at |-> Len(l.defers)]>> \o @]

LeaveLoop(l) == [l EXCEPT !.loops = Tail(@), !.loop_depth = @ - 1]

lower_loop(l, s) ==
    LET l1     == new_block(new_block(new_block(l)))
        first  == LastBlock(l1) - 2
        second == LastBlock(l1) - 1
        exit   == LastBlock(l1)
        while  == s.k = "while"
        test   == IF while THEN first ELSE second
        body   == IF while THEN second ELSE first
        l2     == ir_jump([l1 EXCEPT !.loop_depth = @ + 1], first)
        l3     == IF while THEN lower_branch(At(l2, test), s.c, body, exit) ELSE l2
        l4     == lower_block(At(EnterLoop(l3, test, exit), body), s.body)
        l5     == LeaveLoop(IF l4.b = 0 THEN l4 ELSE ir_jump(l4, test))
        l6     == IF while THEN l5 ELSE lower_branch(At(l5, test), s.c, body, exit)
    IN  At(l6, exit)

(* `by -k` starts at the largest value of `by k`; the counter holds the    *)
(* next value plus k, and the body subtracts before it reads.              *)
down_range(l, low, high, t, k, test) ==
    LET l1    == new_block(l)
        first == LastBlock(l1)
        span  == ir_binary(l1, "sub", t, high, low)
        limit == ir_binary(span.l, "add", t, low, ir_int_op(t, k))
        cnt   == ir_unary(limit.l, "copy", t, low)
        some  == ir_binary(cnt.l, "sgt", "i8", span.v, ir_int_op(t, 0))
        l2    == At(ir_branch(some.l, some.v, first, test), first)
        less  == ir_binary(l2, "sub", t, span.v, ir_int_op(t, 1))
        quot  == ir_binary(less.l, "sdiv", t, less.v, ir_int_op(t, k))
        prod  == ir_binary(quot.l, "mul", t, quot.v, ir_int_op(t, k))
        sum   == ir_binary(prod.l, "add", t, limit.v, prod.v)
    IN  [l |-> ir_assign(sum.l, cnt.v.v, sum.v), limit |-> limit.v, counter |-> cnt.v]

(* The counter and the bound of a for loop, read once before it.           *)
for_start(l, s, test) ==
    IF s.k = "each"
    THEN LET base == lower_address(l, s.over)
             cnt  == ir_unary(base.l, "copy", "i64", zero)
         IN  [l |-> cnt.l, limit |-> ir_int_op("i64", 2), counter |-> cnt.v, base |-> base.v]
    ELSE LET low  == lower_expr(l, s.low)
             high == lower_expr(low.l, s.high)
             t    == ir_type_of(s.low.t)
             up   == ir_unary(high.l, "copy", t, low.v)
             down == down_range(high.l, low.v, high.v, t, -s.step, test)
         IN  IF s.step < 0
             THEN [l |-> down.l, limit |-> down.limit, counter |-> down.counter,
                   base |-> ir_none]
             ELSE [l |-> up.l, limit |-> high.v, counter |-> up.v, base |-> ir_none]

(* The variable of the body: the counter, or the element it reaches.       *)
for_variable(l, s, st, t) ==
    IF s.k = "each"
    THEN LET off == ir_binary(l, "mul", "i64", st.counter, Op("sym", "i64", 1))
             at  == ir_binary(off.l, "ptradd", "ptr", st.base, off.v)
             v   == IF s.by_pointer THEN ir_unary(at.l, "copy", "ptr", at.v)
                    ELSE ir_load(at.l, "i64", at.v)
         IN  [v.l EXCEPT !.ir[s.n] = v.v.v]
    ELSE LET less == ir_binary(l, "sub", t, st.counter, ir_int_op(t, -s.step))
             l2   == IF s.step < 0 THEN ir_assign(less.l, st.counter.v, less.v) ELSE l
             v    == ir_unary(l2, "copy", t, st.counter)
         IN  [v.l EXCEPT !.ir[s.n] = v.v.v]

lower_for(l, s) ==
    LET l1   == new_block(new_block(new_block(new_block(l))))
        test == LastBlock(l1) - 3
        body == LastBlock(l1) - 2
        step == LastBlock(l1) - 1
        exit == LastBlock(l1)
        t    == IF s.k = "each" THEN "i64" ELSE ir_type_of(s.low.t)
        down == s.k = "for" /\ s.step < 0
        st   == for_start(l1, s, test)
        l2   == At(ir_jump([st.l EXCEPT !.loop_depth = @ + 1], test), test)
        more == ir_binary(l2, IF down THEN "sge" ELSE "slt", "i8", st.counter, st.limit)
        l3   == EnterLoop(ir_branch(more.l, more.v, body, exit), step, exit)
        l4   == lower_block(for_variable(At(l3, body), s, st, t), s.body)
        l5   == At(LeaveLoop(IF l4.b = 0 THEN l4 ELSE ir_jump(l4, step)), step)
        inc  == ir_binary(l5, "add", t, st.counter,
                          ir_int_op(t, IF s.k = "each" THEN 1 ELSE s.step))
        l6   == IF down THEN l5 ELSE ir_assign(inc.l, st.counter.v, inc.v)
    IN  At(ir_jump(l6, test), exit)

(* The place first and the value second; a compound assignment reads the   *)
(* old value before the new operand.                                       *)
lower_assign(l, s) ==
    LET p   == lower_place(l, s.x)
        src == lower_address(p.l, s.e)
        old == IF s.op = "=" THEN With2(p.l, ir_none) ELSE read_place(p)
        v   == lower_expr(old.l, s.e)
        new == IF s.op = "=" THEN v
               ELSE ir_binary(v.l, binary_op(s.op, s.x.t), p.type, old.v, v.v)
    IN  IF is_aggregate(s.x.t) THEN ir_memcopy(src.l, p.address, src.v, "agg")
        ELSE IF p.in_temp THEN ir_assign(new.l, p.temp, new.v)
        ELSE ir_store(new.l, p.type, new.v, p.address)

(* The branch after a call that can fail: a null pointer is success.       *)
handle_error(l, e, err, out) ==
    LET h    == e.handler
        l1   == new_block(new_block(l))
        bad  == LastBlock(l1) - 1
        join == LastBlock(l1)
        ok   == ir_binary(l1, "eq", "i8", err, ir_int_op("ptr", 0))
        l2   == At(ir_branch(ok.l, ok.v, join, bad), bad)
        try  == run_defers_to(l2, 1, 0)
        table == ir_load(l2, "ptr", err)
        slot  == offset_address(table.l, table.v, field_offset(1))
        entry == ir_load(slot.l, "ptr", slot.v)
        sig   == signature(entry.l, 1)
        bound == ir_unary(l2, "copy", "ptr", err)
        scope == [join |-> join, out |-> out, error |-> bound.v, passes |-> h.passes]
        body  == lower_block([bound.l EXCEPT !.ir = (h.n :> bound.v.v) @@ @,
                                             !.handling = <<scope>> \o @], h.body)
        left  == [body EXCEPT !.handling = l.handling]
        freed == IF left.b = 0 \/ h.passes THEN left
                 ELSE CallRt(left, "anti_rt_delete", "void", <<bound.v>>).l
    IN  At(CASE h.kind = "enclosing" ->
                  IF l2.tries = <<>> THEN ir_jump(l2, join)
                  ELSE ir_jump(ir_assign(l2, Head(l2.tries).error, err),
                               Head(l2.tries).handler)
             [] h.kind = "try" -> IF try.b = 0 THEN try ELSE ir_ret(try, "ptr", err)
             [] h.kind = "fatal" ->
                  ir_jump(ir_call(sig.l, "void", entry.v, sig.v, <<err>>).l, join)
             [] h.kind = "block" -> IF freed.b = 0 THEN freed ELSE ir_jump(freed, join),
           join)

lower_let(l, s) ==
    LET fails == IsHandled(s.e)
        out   == temp(l, l.ir[s.n])
        call  == lower_call([l EXCEPT !.out_address = out], s.e)
        built == build_into(l, s.e, out)
        v     == lower_expr(l, s.e)
        t     == ir_type_of(s.e.t)
        own   == ir_unary(v.l, "copy", t, v.v)
    IN  IF fails THEN handle_error(call.l, s.e, call.v, out)
        ELSE IF is_aggregate(s.e.t)
        THEN IF s.e.t = "class"
             THEN [built EXCEPT !.defers[1] = Append(@, [k |-> "destroy", n |-> s.n])]
             ELSE built
        ELSE IF s.n \in Fn(l).taken THEN ir_store(v.l, t, v.v, out)
        ELSE [own.l EXCEPT !.ir[s.n] = own.v.v]

(* An assertion branches to a flagged block that calls the runtime.        *)
assert_branch(l, cond, text) ==
    LET l1   == new_block(new_block(l))
        fail == LastBlock(l1) - 1
        rest == LastBlock(l1)
        l2   == ir_branch([l1 EXCEPT !.f.blocks[fail].assert_fail = TRUE], cond, rest, fail)
        a    == ir_addr(At(l2, fail), text)
        c    == CallRt(a.l, "anti_rt_assert_failed", "void", <<a.v, ir_int_op("i64", 1)>>)
    IN  At(ir_jump(c.l, rest), rest)

lower_yield(l, s) ==
    LET h == Head(l.handling)
        stored == IF h.out.kind = "none" THEN lower_expr(l, s.e).l ELSE store_value(l, s.e, h.out)
        freed  == IF h.passes THEN stored
                  ELSE CallRt(stored, "anti_rt_delete", "void", <<h.error>>).l
    IN  At(ir_jump(freed, h.join), 0)

lower_try(l, s) ==
    LET l1    == new_block(new_block(l))
        handler == LastBlock(l1) - 1
        join  == LastBlock(l1)
        err   == ir_unary(l1, "copy", "ptr", ir_int_op("ptr", 0))
        body  == lower_block([err.l EXCEPT !.tries =
                                <<[handler |-> handler, error |-> err.v.v]>> \o @], s.body)
        l2    == IF body.b = 0 THEN body ELSE ir_jump(body, join)
        l3    == lower_block([At(l2, handler) EXCEPT !.tries = l.tries,
                                                     !.ir = (s.n :> err.v.v) @@ @], s.handler)
        freed == IF l3.b = 0 THEN l3
                 ELSE ir_jump(CallRt(l3, "anti_rt_delete", "void", <<err.v>>).l, join)
    IN  At(freed, join)

(* A switch is a chain of comparisons, one block per arm and one join.     *)
lower_arms(l, s, over, i, join) ==
    IF i > Len(s.arms)
    THEN LET e == jump_to_join(IF s.otherwise = <<>> THEN l ELSE lower_block(l, s.otherwise), join)
         IN  At(e.l, e.v)
    ELSE LET l1   == new_block(new_block(l))
             arm  == LastBlock(l1) - 1
             next == LastBlock(l1)
             hit  == ir_binary(l1, "eq", "i8", over, ir_int_op(over.type, s.arms[i].v))
             l2   == lower_block(At(ir_branch(hit.l, hit.v, arm, next), arm), s.arms[i].body)
             j    == jump_to_join(l2, join)
         IN  lower_arms(At(j.l, next), s, over, i + 1, j.v)

lower_switch(l, s) ==
    LET v    == lower_expr(l, s.e)
        over == ir_unary(v.l, "copy", ir_type_of(s.e.t), v.v)
    IN  lower_arms(over.l, s, over.v, 1, 0)

(* The value is computed before the deferred statements run, and a local   *)
(* that is returned is not destroyed.                                      *)
lower_return(l, s) ==
    LET v    == lower_expr(l, s.e)
        t    == ir_type_of(s.e.t)
        kept == IF has_defers(l) /\ ~is_aggregate(s.e.t) THEN ir_unary(v.l, "copy", t, v.v) ELSE v
        ran  == run_defers_to([kept.l EXCEPT !.moved = IF s.e.k = "var" THEN s.e.n ELSE ""], 1, 0)
        void == run_defers_to(l, 1, 0)
    IN  IF s.e.k = "none" THEN IF void.b = 0 THEN void ELSE At(ir_ret(void, "void", ir_none), 0)
        ELSE LET after == [ran EXCEPT !.moved = ""]
             IN  IF after.b = 0 THEN after
                 ELSE At(ir_ret(after, IF l.f.result = "agg" THEN "ptr" ELSE l.f.result, kept.v), 0)

lower_stmt(l, s) ==
    CASE s.k = "let"      -> lower_let(l, s)
      [] s.k = "yield"    -> lower_yield(l, s)
      [] s.k = "try"      -> lower_try(l, s)
      [] s.k = "expr"     ->
           IF IsHandled(s.e)
           THEN LET c == lower_call(l, s.e) IN handle_error(c.l, s.e, c.v, ir_none)
           ELSE lower_expr(l, s.e).l
      [] s.k = "set"      -> lower_assign(l, s)
      [] s.k = "if"       ->
           lower_if(l, <<[c |-> s.c, body |-> s.then]>>,
                    IF s.else = <<>> THEN <<>> ELSE <<s.else>>, 0)
      [] s.k \in {"while", "do"} -> lower_loop(l, s)
      [] s.k \in {"for", "each"} -> lower_for(l, s)
      [] s.k = "switch"   -> lower_switch(l, s)
      [] s.k = "assert"   ->
           LET c == lower_expr(l, s.e)
               g == literal_global(c.l, <<Op("int", "i64", 1)>>)
           IN  assert_branch(g.l, c.v, g.v)
      [] s.k = "defer"    -> [l EXCEPT !.defers[1] = Append(@, s.s)]
      [] s.k = "break"    ->
           JumpOut(run_defers_to(l, 1, Head(l.loops).defers_at), Head(l.loops).break_to)
      [] s.k = "continue" ->
           JumpOut(run_defers_to(l, 1, Head(l.loops).defers_at), Head(l.loops).continue_to)
      [] s.k = "return"   -> lower_return(l, s)
      [] s.k = "block"    -> lower_block(l, s.body)

(* A statement after a return, a break or a continue is not lowered.       *)
lower_stmts(l, body) ==
    IF body = <<>> \/ l.b = 0 THEN l
    ELSE lower_stmts(lower_stmt(l, Head(body)), Tail(body))

lower_block(l, body) ==
    LET inside == lower_stmts([l EXCEPT !.defers = <<<<>>>> \o @], body)
        ran    == run_defers(inside, inside.defers[1])
    IN  [ran EXCEPT !.defers = l.defers]

(* The slots of the locals in memory, of the statements that it visits.    *)
reserve_slots(l, body) ==
    IF body = <<>> THEN l
    ELSE LET s == Head(body)
             slot == ir_slot(l, 1, ir_type_of(Fn(l).types[s.n]))
             done == CASE s.k = "let" /\ InMemory(Fn(l), s.n) -> [slot.l EXCEPT !.ir[s.n] = slot.v.v]
                       [] s.k = "if" -> reserve_slots(reserve_slots(l, s.then), s.else)
                       [] s.k \in {"while", "do", "for", "each", "block"} -> reserve_slots(l, s.body)
                       [] OTHER -> l
         IN  reserve_slots(done, Tail(body))

(* A parameter whose address is taken moves into a slot of its own.        *)
param_slots(l, k) ==
    LET n == Fn(l).params[k]
        s == ir_slot(l, 1, ir_type_of(Fn(l).types[n]))
    IN  IF n \in Fn(l).taken /\ ~is_aggregate(Fn(l).types[n])
        THEN [s.l EXCEPT !.ir[n] = s.v.v] ELSE l

declare_function(fn) ==
    [name |-> fn.name, is_extern |-> FALSE, exported |-> fn.exported,
     param_count |-> Len(fn.params), params |-> [k \in DOMAIN fn.params |-> k],
     temps |-> [k \in DOMAIN fn.params |->
                  IF is_aggregate(fn.types[fn.params[k]]) THEN "ptr"
                  ELSE ir_type_of(fn.types[fn.params[k]])],
     blocks |-> <<>>, result |-> ir_type_of(fn.result)]

(* A symbol starts with temporary 1, as the zeroed field of the C code     *)
(* names the first temporary.                                              *)
lower_function(p, m, i) ==
    LET fn   == p.fns[i]
        l0   == new_block([prog |-> p, m |-> m, fi |-> i, f |-> m.functions[i], b |-> 1,
                   loops |-> <<>>, defers |-> <<>>, loop_depth |-> 0, handling |-> <<>>,
                   tries |-> <<>>, out_address |-> ir_none, moved |-> "",
                   ir |-> [n \in DOMAIN fn.types |->
                             IF n \in ToSet(fn.params)
                             THEN CHOOSE k \in DOMAIN fn.params : fn.params[k] = n
                             ELSE 1]])
        l1   == FoldLeft(param_slots, l0, [k \in DOMAIN fn.params |-> k])
        l2   == reserve_slots(l1, fn.body)
        save(l, k) == LET n == fn.params[k]
                      IN  IF l.ir[n] = k THEN l
                          ELSE ir_store(l, l.f.temps[k], temp(l, k), temp(l, l.ir[n]))
        l3   == FoldLeft(save, l2, [k \in DOMAIN fn.params |-> k])
        l4   == lower_block(l3, fn.body)
        l5   == IF l4.b = 0 THEN l4 ELSE ir_ret(l4, "void", ir_none)
    IN  [l5.m EXCEPT !.functions[i] = l5.f]

(* lower_module: every function is declared first, so that a call finds it *)
(* whatever the order.                                                     *)
lower_module(p) ==
    LET m == [functions |-> [i \in DOMAIN p.fns |-> declare_function(p.fns[i])],
              globals |-> p.globals]
    IN  FoldLeft(LAMBDA a, i : lower_function(p, a, i), m, [i \in DOMAIN p.fns |-> i])
=============================================================================
