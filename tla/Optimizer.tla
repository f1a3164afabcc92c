------------------------------ MODULE Optimizer ------------------------------
(***************************************************************************)
(* src/optimize.c: the passes over the IR.  Every pass is an operator from *)
(* a function to a function; the flag `changed` of the C code is the       *)
(* question whether the two differ.                                        *)
(***************************************************************************)
EXTENDS IR

is_constant(o) == o.kind = "int"
is_int(o, v)   == o.kind = "int" /\ o.v = trim(o.type, v)

make_copy(inst, value) ==
    [inst EXCEPT !.op = "copy", !.a = value, !.b = ir_none, !.c = ir_none, !.args = <<>>]

JumpTo(inst, target) ==
    [inst EXCEPT !.op = "jump", !.a = target, !.b = ir_none, !.c = ir_none]

is_pure(op) == op \notin {"store", "memcopy", "call", "jump", "branch", "ret"}

(* An instruction by its block and its place in the block.                 *)
Sites(f)   == UNION {{<<b, i>> : i \in DOMAIN f.blocks[b].insts} : b \in DOMAIN f.blocks}
Inst(f, s) == f.blocks[s[1]].insts[s[2]]
Before(s, u) == s[1] < u[1] \/ (s[1] = u[1] /\ s[2] < u[2])

(* count: the definitions and the uses of every temporary.                 *)
count(f) ==
    LET sites == Sites(f)
        uses  == UNION {{<<s, k, Operands(Inst(f, s))[k].v>> :
                           k \in {j \in DOMAIN Operands(Inst(f, s)) :
                                    Operands(Inst(f, s))[j].kind = "temp"}} : s \in sites}
    IN  [t \in DOMAIN f.temps |->
           LET at == {s \in sites : Inst(f, s).result = t}
           IN  [defs |-> Cardinality(at) + Cardinality({k \in DOMAIN f.params : f.params[k] = t}),
                uses |-> Cardinality({u \in uses : u[3] = t}),
                at   |-> at]]

-----------------------------------------------------------------------------
(* Constant folding.  fold_int computes on the bits and gives <<>> where   *)
(* the operation is left to the machine.                                   *)

fold_int(op, t, a, b) ==
    LET n == bits(t)
        x == signed_value(t, a)
        y == signed_value(t, b)
        Abs(v) == IF v < 0 THEN -v ELSE v
        quot   == IF (x < 0) = (y < 0) THEN Abs(x) \div Abs(y) ELSE -(Abs(x) \div Abs(y))
        divides == b # 0 /\ ~(a = 2^(n - 1) /\ b = trim(t, -1))
        Truth1(p) == <<IF p THEN 1 ELSE 0>>
    IN  CASE op = "add" -> <<trim(t, a + b)>>
          [] op = "sub" -> <<trim(t, a - b)>>
          [] op = "mul" -> <<trim(t, a * b)>>
          [] op = "sdiv" -> IF divides THEN <<trim(t, quot)>> ELSE <<>>
          [] op = "srem" -> IF divides THEN <<trim(t, x - quot * y)>> ELSE <<>>
          [] op = "udiv" -> IF b = 0 THEN <<>> ELSE <<a \div b>>
          [] op = "urem" -> IF b = 0 THEN <<>> ELSE <<a % b>>
          [] op = "and" -> <<a & b>>
          [] op = "or"  -> <<a | b>>
          [] op = "xor" -> <<a ^^ b>>
          [] op = "shl"   -> IF b >= n THEN <<>> ELSE <<trim(t, a * 2^b)>>
          [] op = "shr_u" -> IF b >= n THEN <<>> ELSE <<a \div 2^b>>
          [] op = "shr_s" -> IF b >= n THEN <<>>
                             ELSE IF x < 0 THEN <<trim(t, -((-x - 1) \div 2^b) - 1)>>
                             ELSE <<x \div 2^b>>
          [] op = "eq"  -> Truth1(a = b)  [] op = "ne"  -> Truth1(a # b)
          [] op = "slt" -> Truth1(x < y)  [] op = "sle" -> Truth1(x <= y)
          [] op = "sgt" -> Truth1(x > y)  [] op = "sge" -> Truth1(x >= y)
          [] op = "ult" -> Truth1(a < b)  [] op = "ule" -> Truth1(a <= b)
          [] op = "ugt" -> Truth1(a > b)  [] op = "uge" -> Truth1(a >= b)

fold_conversion(inst) ==
    ir_int_op(inst.type, IF inst.op = "sext" THEN signed_value(inst.a.type, inst.a.v)
                         ELSE inst.a.v)

fold_inst(inst) ==
    LET Folds == inst.a.kind = "int"
    IN  CASE inst.op \in ArithOps \cup CompareOps ->
               IF ~Folds \/ inst.b.kind # "int" THEN <<>>
               ELSE LET v == fold_int(inst.op, inst.a.type, inst.a.v, inst.b.v)
                    IN  IF v = <<>> THEN <<>> ELSE <<ir_int_op(inst.type, v[1])>>
          [] inst.op = "neg" /\ Folds -> <<ir_int_op(inst.type, -inst.a.v)>>
          [] inst.op = "not" /\ Folds -> <<ir_int_op(inst.type, -inst.a.v - 1)>>
          [] inst.op \in {"trunc", "sext", "zext"} /\ Folds -> <<fold_conversion(inst)>>
          [] OTHER -> <<>>

FoldOne(inst) ==
    IF inst.op = "branch" /\ inst.a.kind = "int"
    THEN JumpTo(inst, IF inst.a.v # 0 THEN inst.b ELSE inst.c)
    ELSE LET v == fold_inst(inst) IN IF v = <<>> THEN inst ELSE make_copy(inst, v[1])

fold_constants(f) ==
    [f EXCEPT !.blocks = [b \in DOMAIN f.blocks |->
        [f.blocks[b] EXCEPT !.insts = [i \in DOMAIN @ |-> FoldOne(@[i])]]]]

-----------------------------------------------------------------------------
(* Copy propagation.                                                       *)

ReplaceIn(inst, t, value) == MapOperands(inst, LAMBDA o : IF is_temp(o, t) THEN value ELSE o)

replace_uses(f, t, value) ==
    [f EXCEPT !.blocks = [b \in DOMAIN f.blocks |->
        [f.blocks[b] EXCEPT !.insts = [i \in DOMAIN @ |-> ReplaceIn(@[i], t, value)]]]]

\* Mutant: a copy of a temporary outlives an assignment to it.
propagate_in_block_kept(f, b) ==
    LET Read(known, o) ==
          LET v == {p \in known : is_temp(o, p[1])}
          IN  IF v = {} THEN o ELSE (CHOOSE p \in v : TRUE)[2]
        Step(s, inst0) ==
          LET inst == MapOperands(inst0, LAMBDA o : Read(s.known, o))
              r    == inst.result
              kept == {p \in s.known : p[1] # r}
          IN  [insts |-> Append(s.insts, inst),
               known |-> IF r # NO_RESULT /\ inst.op = "copy" /\ ~is_temp(inst.a, r)
                         THEN kept \cup {<<r, inst.a>>} ELSE kept]
        done == FoldLeft(Step, [insts |-> <<>>, known |-> {}], f.blocks[b].insts)
    IN  [f EXCEPT !.blocks[b].insts = done.insts]

(* Inside a block a use after x = copy v and before the next definition of *)
(* x or of v reads v.  known holds the pairs <<x, v>>.                     *)
propagate_in_block(f, b) ==
    LET Read(known, o) ==
          LET v == {p \in known : is_temp(o, p[1])}
          IN  IF v = {} THEN o ELSE (CHOOSE p \in v : TRUE)[2]
        Step(s, inst0) ==
          LET inst == MapOperands(inst0, LAMBDA o : Read(s.known, o))
              r    == inst.result
              kept == {p \in s.known : p[1] # r /\ ~is_temp(p[2], r)}
          IN  [insts |-> Append(s.insts, inst),
               known |-> IF r # NO_RESULT /\ inst.op = "copy" /\ ~is_temp(inst.a, r)
                         THEN kept \cup {<<r, inst.a>>} ELSE kept]
        done == FoldLeft(Step, [insts |-> <<>>, known |-> {}], f.blocks[b].insts)
    IN  [f EXCEPT !.blocks[b].insts = done.insts]

SitesInOrder(f) ==
    FlattenSeq([b \in DOMAIN f.blocks |->
                  [i \in DOMAIN f.blocks[b].insts |-> <<b, i>>]])

propagate_copies(f0) ==
    LET f1 == FoldLeft(propagate_in_block, f0, [b \in DOMAIN f0.blocks |-> b])
        c  == count(f1)
        Exact(f, s, v) ==
          \/ is_constant(v)
          \/ /\ v.kind = "temp" /\ c[v.v].defs = 1
             /\ \/ v.v <= f.param_count
                \/ \E u \in c[v.v].at : u[1] = s[1] /\ u[2] < s[2]
        Step(f, s) ==
          LET inst == Inst(f, s)
          IN  IF /\ inst.op = "copy" /\ c[inst.result].defs = 1
                 /\ ~is_temp(inst.a, inst.result) /\ Exact(f, s, inst.a)
              THEN replace_uses(f, inst.result, inst.a) ELSE f
    IN  FoldLeft(Step, f1, SitesInOrder(f1))

-----------------------------------------------------------------------------
(* Peephole rules.                                                         *)

is_commutative(op) == op \in {"add", "mul", "and", "or", "xor", "eq", "ne"}

(* The k of 2^k, or 0 when the operand is no power of two above 1.         *)
power_of_two(o) ==
    LET ks == {k \in 1 .. 8 : o.kind = "int" /\ o.v = 2^k}
    IN  IF ks = {} THEN 0 ELSE CHOOSE k \in ks : TRUE

\* Mutant: two temporaries are swapped as well, so every round swaps them.
simplify_swapped(inst) ==
    IF is_commutative(inst.op) /\ ~is_constant(inst.b)
    THEN [inst EXCEPT !.a = inst.b, !.b = inst.a] ELSE inst

simplify(inst) ==
    LET op == inst.op
        k  == power_of_two(inst.b)
        AsShift(shift) == [inst EXCEPT !.op = shift, !.b = ir_int_op(inst.type, k)]
    IN  CASE is_commutative(op) /\ is_constant(inst.a) /\ ~is_constant(inst.b) ->
               [inst EXCEPT !.a = inst.b, !.b = inst.a]
          [] op \in {"add", "sub", "or", "xor", "shl", "shr_s", "shr_u"} /\ is_int(inst.b, 0) ->
               make_copy(inst, inst.a)
          [] op \in {"mul", "and"} /\ is_int(inst.b, 0) ->
               make_copy(inst, inst.b)
          [] op \in {"mul", "sdiv", "udiv"} /\ is_int(inst.b, 1) -> make_copy(inst, inst.a)
          [] op = "and" /\ is_int(inst.b, -1) -> make_copy(inst, inst.a)
          [] op = "mul" /\ k > 0  -> AsShift("shl")
          [] op = "udiv" /\ k > 0 -> AsShift("shr_u")
          [] op = "urem" /\ k > 0 ->
               [inst EXCEPT !.op = "and", !.b = ir_int_op(inst.type, inst.b.v - 1)]
          [] op = "branch" /\ inst.b.v = inst.c.v -> JumpTo(inst, inst.b)
          [] OTHER -> inst

(* The block that a jump to b reaches after blocks that only jump; b when  *)
(* the jumps form a cycle.                                                 *)
final_target(f, b) ==
    LET OnlyJumps(x) == Len(f.blocks[x].insts) = 1 /\ f.blocks[x].insts[1].op = "jump"
        path[n \in 0 .. (Len(f.blocks) + 1)] ==
            IF n = 0 THEN b
            ELSE IF OnlyJumps(path[n - 1]) THEN f.blocks[path[n - 1]].insts[1].a.v
            ELSE path[n - 1]
        end == path[Len(f.blocks) + 1]
    IN  IF OnlyJumps(end) THEN b ELSE end

retarget(f, o) == ir_block_op(final_target(f, o.v))

RECURSIVE PeepholeFrom(_, _, _, _)

(* The rules at instruction i of block b and after it, with the counts c   *)
(* of the function before the pass.                                        *)
PeepholeFrom(f, c, b, i) ==
    IF b > Len(f.blocks) THEN f
    ELSE IF i > Len(f.blocks[b].insts) THEN PeepholeFrom(f, c, b + 1, 1)
    ELSE LET insts == f.blocks[b].insts
             inst  == simplify(insts[i])
             r     == inst.result
             g     == [f EXCEPT !.blocks[b].insts[i] = inst]
             fuses == /\ i < Len(insts) /\ r # NO_RESULT
                      /\ insts[i + 1].op = "copy" /\ is_temp(insts[i + 1].a, r)
                      /\ c[r].defs = 1 /\ c[r].uses = 1 /\ r > f.param_count
         IN  IF inst.op = "copy" /\ is_temp(inst.a, r)
             THEN PeepholeFrom([g EXCEPT !.blocks[b].insts = RemoveAt(@, i)], c, b, i)
             ELSE IF fuses
             THEN PeepholeFrom([g EXCEPT !.blocks[b].insts =
                                  RemoveAt([@ EXCEPT ![i].result = insts[i + 1].result], i + 1)],
                               c, b, i + 1)
             ELSE IF inst.op = "jump"
             THEN PeepholeFrom([g EXCEPT !.blocks[b].insts[i].a = retarget(g, @)], c, b, i + 1)
             ELSE IF inst.op = "branch"
             THEN LET h == [g EXCEPT !.blocks[b].insts[i].b = retarget(g, @)]
                  IN  PeepholeFrom([h EXCEPT !.blocks[b].insts[i].c = retarget(h, @)], c, b, i + 1)
             ELSE PeepholeFrom(g, c, b, i + 1)

apply_peephole_rules(f) == PeepholeFrom(f, count(f), 1, 1)

-----------------------------------------------------------------------------
(* Dead code.                                                              *)

RECURSIVE UnusedFrom(_, _, _)

(* Whether nothing reads the result of instruction i: it has no use, or    *)
(* the block defines it again before any use.                              *)
IsDead(insts, c, i) ==
    LET r == insts[i].result
    IN  \/ c[r].uses = 0
        \/ \E j \in (i + 1) .. Len(insts) :
              /\ insts[j].result = r
              /\ \A k \in (i + 1) .. j : ~UsesTemp(insts[k], r)

UnusedFrom(insts, c, i) ==
    IF i = 0 THEN insts
    ELSE IF insts[i].result # NO_RESULT /\ is_pure(insts[i].op) /\ IsDead(insts, c, i)
    THEN UnusedFrom(RemoveAt(insts, i), c, i - 1)
    ELSE UnusedFrom(insts, c, i - 1)

remove_unused_results(f) ==
    LET c == count(f)
    IN  [f EXCEPT !.blocks = [b \in DOMAIN @ |->
            [@[b] EXCEPT !.insts = UnusedFrom(@, c, Len(@))]]]

RECURSIVE mark_reachable(_, _)

mark_reachable(f, reached) ==
    LET more == reached \cup UNION {ToSet(Targets(f.blocks[b])) : b \in reached}
    IN  IF more = reached THEN reached ELSE mark_reachable(f, more)

(* The members of kept get new numbers in their order.                     *)
Renumbered(kept, old) == Cardinality({k \in kept : k <= old})
KeepIn(s, kept) ==
    LET order == SelectSeq([k \in DOMAIN s |-> k], LAMBDA k : k \in kept)
    IN  [k \in DOMAIN order |-> s[order[k]]]

remove_unreachable_blocks(f) ==
    LET reached == mark_reachable(f, {1})
        Moved(o) == IF o.kind = "block" THEN ir_block_op(Renumbered(reached, o.v)) ELSE o
        blocks  == KeepIn(f.blocks, reached)
    IN  [f EXCEPT !.blocks = [b \in DOMAIN blocks |->
            [blocks[b] EXCEPT !.insts = [i \in DOMAIN @ |-> MapOperands(@[i], Moved)]]]]

RECURSIVE MergeFrom(_, _, _)

(* A block that ends with a jump to a block with no other predecessor      *)
(* takes over its instructions, and is looked at again.                    *)
MergeFrom(f, preds, b) ==
    IF b > Len(f.blocks) THEN f
    ELSE LET insts  == f.blocks[b].insts
             target == IF insts # <<>> /\ Last(insts).op = "jump" THEN Last(insts).a.v ELSE 0
         IN  IF \/ target \in {0, 1, b} \/ preds[target] # 1
                \/ f.blocks[target].insts = <<>>
             THEN MergeFrom(f, preds, b + 1)
             ELSE MergeFrom([f EXCEPT !.blocks[b].insts = Front(@) \o f.blocks[target].insts,
                                      !.blocks[target].insts = <<>>],
                            [preds EXCEPT ![target] = 0], b)

merge_blocks(f) ==
    LET ends == FlattenSeq([b \in DOMAIN f.blocks |-> Targets(f.blocks[b])])
    IN  MergeFrom(f, [b \in DOMAIN f.blocks |-> Cardinality({k \in DOMAIN ends : ends[k] = b})], 1)

remove_dead_code(f) ==
    LET reached == remove_unreachable_blocks(remove_unused_results(f))
        merged  == merge_blocks(reached)
    IN  IF merged = reached THEN reached ELSE remove_unreachable_blocks(merged)

(* The parameters first, then every temporary in the order of its first    *)
(* appearance, a result before the operands beside it.                     *)
renumber_temps(f) ==
    LET Mentions(inst) == SelectSeq(<<inst.result>> \o
                         [k \in DOMAIN Operands(inst) |->
                            IF Operands(inst)[k].kind = "temp" THEN Operands(inst)[k].v
                            ELSE NO_RESULT], LAMBDA t : t # NO_RESULT)
        all   == f.params \o FlattenSeq([k \in DOMAIN SitesInOrder(f) |->
                                           Mentions(Inst(f, SitesInOrder(f)[k]))])
        order == FoldLeft(LAMBDA acc, t : IF t \in ToSet(acc) THEN acc ELSE Append(acc, t),
                          <<>>, all)
        New(t) == CHOOSE k \in DOMAIN order : order[k] = t
        Moved(o) == IF o.kind = "temp" THEN [o EXCEPT !.v = New(@)] ELSE o
        Fresh1(inst) == [MapOperands(inst, Moved) EXCEPT
                           !.result = IF @ = NO_RESULT THEN @ ELSE New(@)]
    IN  [f EXCEPT !.temps  = [k \in DOMAIN order |-> f.temps[order[k]]],
                  !.params = [k \in DOMAIN @ |-> New(@[k])],
                  !.blocks = [b \in DOMAIN @ |->
                     [@[b] EXCEPT !.insts = [i \in DOMAIN @ |-> Fresh1(@[i])]]]]

-----------------------------------------------------------------------------
(* Store-to-load forwarding inside one block.  An address is a base        *)
(* temporary and an offset; <<>> is an address that is not known.          *)

address_of(insts, upto, at) ==
    LET adds == {i \in 1 .. (upto - 1) : insts[i].op = "ptradd" /\ insts[i].result = at.v}
    IN  IF at.kind # "temp" \/ \E i \in adds : insts[i].a.kind # "temp" THEN <<>>
        ELSE IF adds = {} THEN <<at.v, "int", 0>>
        ELSE LET last == insts[Max(adds)] IN <<last.a.v, last.b.kind, last.b.v>>

same_address(a, b) == a # <<>> /\ a = b

(* held is the address whose value is remembered, and type its type.       *)
ForwardIn(f, insts0) ==
    LET Step(s, i) ==
          LET inst == insts0[i]
              at   == address_of(insts0, i, IF inst.op = "load" THEN inst.a ELSE inst.b)
          IN  CASE inst.op = "load" ->
                     IF same_address(s.held, at) /\ s.type = inst.type
                     THEN [s EXCEPT !.insts[i] = make_copy(@, s.value)]
                     ELSE [s EXCEPT !.held = at, !.type = inst.type,
                                    !.value = ir_temp_op(f, inst.result)]
                [] inst.op = "store" ->
                     IF at = <<>> THEN [s EXCEPT !.held = <<>>]
                     ELSE [s EXCEPT !.held = at, !.type = inst.type, !.value = inst.a]
                [] inst.op \in {"call", "memcopy"} -> [s EXCEPT !.held = <<>>]
                [] OTHER -> s
    IN  FoldLeft(Step, [insts |-> insts0, held |-> <<>>, type |-> "void", value |-> ir_none],
                 [i \in DOMAIN insts0 |-> i]).insts

forward_stores(f) ==
    [f EXCEPT !.blocks = [b \in DOMAIN @ |->
        [@[b] EXCEPT !.insts = ForwardIn(f, @)]]]

-----------------------------------------------------------------------------
(* Scalar replacement of aggregates.                                       *)

same_offset(a, b) == a.kind = b.kind /\ a.v = b.v

(* Whether inst lets the address in t reach what the pass cannot follow.   *)
escapes_in(inst, t) ==
    CASE inst.op = "load"   -> FALSE
      [] inst.op = "store"  -> is_temp(inst.a, t)
      [] inst.op = "ptradd" -> is_temp(inst.b, t)
      [] OTHER -> UsesTemp(inst, t)

(* The address of a load or a store, and none for the others.              *)
AddressIn(inst) ==
    IF inst.op = "load" THEN inst.a ELSE IF inst.op = "store" THEN inst.b ELSE ir_none

(* The ptradds of the slot, and the fields that loads and stores reach, as *)
(* <<kind, value, type>>.                                                  *)
AddsOf(f, base) ==
    {s \in Sites(f) : Inst(f, s).op = "ptradd" /\ is_temp(Inst(f, s).a, base)}

FieldsOf(f, base) ==
    {<<"int", 0, Inst(f, s).type>> : s \in {u \in Sites(f) : is_temp(AddressIn(Inst(f, u)), base)}}
    \cup UNION {{<<Inst(f, p).b.kind, Inst(f, p).b.v, Inst(f, s).type>> :
                   s \in {u \in Sites(f) : is_temp(AddressIn(Inst(f, u)), Inst(f, p).result)}} :
                p \in AddsOf(f, base)}

(* Every use is a direct load or store, or a ptradd with a fixed offset    *)
(* whose result only addresses loads and stores; one type per offset.      *)
Escapes(f, base) ==
    \/ \E s \in Sites(f) : escapes_in(Inst(f, s), base)
    \/ \E p \in AddsOf(f, base) :
         LET add == Inst(f, p)
         IN  \/ add.b.kind \notin {"int", "sym"}
             \/ \E s \in Sites(f) \ {p} :
                  \/ escapes_in(Inst(f, s), add.result)
                  \/ Inst(f, s).op = "ptradd" /\ is_temp(Inst(f, s).a, add.result)
    \/ \E x, y \in FieldsOf(f, base) : x[1] = y[1] /\ x[2] = y[2] /\ x[3] # y[3]

(* field_at gives each offset one temporary.  A slot that escapes leaves   *)
(* the temporaries of the C code unused, and they are left out here.       *)
SplitOne(f, base) ==
    LET fields == Listed(FieldsOf(f, base))
        temps  == f.temps \o [k \in DOMAIN fields |-> fields[k][3]]
        adds   == AddsOf(f, base)
        Reach(o) == {p \in adds : is_temp(o, Inst(f, p).result)}
        First(S) == CHOOSE p \in S : \A u \in S : p = u \/ Before(p, u)
        Offset(o) == IF is_temp(o, base) THEN ir_int_op("i64", 0) ELSE Inst(f, First(Reach(o))).b
        TempOf(o) == Len(f.temps) + (CHOOSE k \in DOMAIN fields :
                        fields[k][1] = Offset(o).kind /\ fields[k][2] = Offset(o).v)
        Rewrite(inst) ==
          LET o == AddressIn(inst)
          IN  IF ~(is_temp(o, base) \/ Reach(o) # {}) THEN inst
              ELSE IF inst.op = "load"
              THEN make_copy(inst, Op("temp", temps[TempOf(o)], TempOf(o)))
              ELSE [make_copy(inst, inst.a) EXCEPT !.result = TempOf(o), !.type = temps[TempOf(o)]]
        Kept(inst) == ~ \/ inst.op = "slot" /\ inst.result = base
                        \/ inst.op = "ptradd" /\ is_temp(inst.a, base)
    IN  IF Escapes(f, base) \/ fields = <<>> THEN f
        ELSE [f EXCEPT !.temps = temps,
                       !.blocks = [b \in DOMAIN @ |-> [@[b] EXCEPT !.insts =
                           SelectSeq([i \in DOMAIN @ |-> Rewrite(@[i])], Kept)]]]

split_slots(f) ==
    LET slots == SelectSeq(SitesInOrder(f),
                           LAMBDA s : Inst(f, s).op = "slot" /\ Inst(f, s).of = "agg")
    IN  FoldLeft(SplitOne, f, [k \in DOMAIN slots |-> Inst(f, slots[k]).result])

-----------------------------------------------------------------------------
(* The whole program.                                                      *)

Named(block, kind) ==
    {o.v : o \in {u \in UNION {ToSet(Operands(block.insts[i])) : i \in DOMAIN block.insts} :
                    u.kind = kind}}

(* mark_function: what the body of function i names.                       *)
mark_function(m, i, kind) ==
    UNION {Named(m.functions[i].blocks[b], kind) : b \in DOMAIN m.functions[i].blocks}

(* mark_const: what the value of global g names.                           *)
mark_const(m, g, kind) ==
    {c.v : c \in {u \in ToSet(m.globals[g].value) : u.kind = kind}}

remap_const(c, functions, globals) ==
    CASE c.kind = "addr" -> [c EXCEPT !.v = Renumbered(globals, @)]
      [] c.kind = "func" -> [c EXCEPT !.v = Renumbered(functions, @)]
      [] OTHER -> c

RECURSIVE LiveFrom(_, _, _)

LiveFrom(m, fs, gs) ==
    LET fs2 == fs \cup UNION {mark_function(m, i, "func") : i \in fs}
                  \cup UNION {mark_const(m, g, "func") : g \in gs}
        gs2 == gs \cup UNION {mark_function(m, i, "global") : i \in fs}
                  \cup UNION {mark_const(m, g, "addr") : g \in gs}
    IN  IF fs2 = fs /\ gs2 = gs THEN [functions |-> fs, globals |-> gs]
        ELSE LiveFrom(m, fs2, gs2)

(* The entries are main, or every function of the entry module when there  *)
(* is no main or when all is set, and whatever is exported.                *)
remove_unused_functions(m, all) ==
    LET has_main == ~all /\ \E i \in DOMAIN m.functions :
                              ~m.functions[i].is_extern /\ m.functions[i].name = "main"
        entries  == {i \in DOMAIN m.functions :
                       /\ ~m.functions[i].is_extern
                       /\ m.functions[i].exported \/ ~has_main \/ m.functions[i].name = "main"}
        live == LiveFrom(m, entries, {g \in DOMAIN m.globals : m.globals[g].exported})
        Moved(o) == CASE o.kind = "func"   -> ir_func_op(Renumbered(live.functions, o.v))
                      [] o.kind = "global" -> ir_global_op(Renumbered(live.globals, o.v))
                      [] OTHER -> o
        fs == KeepIn(m.functions, live.functions)
        gs == KeepIn(m.globals, live.globals)
    IN  [functions |-> [i \in DOMAIN fs |-> [fs[i] EXCEPT !.blocks =
                          [b \in DOMAIN @ |-> [@[b] EXCEPT !.insts =
                              [k \in DOMAIN @ |-> MapOperands(@[k], Moved)]]]]],
         globals |-> [g \in DOMAIN gs |-> [gs[g] EXCEPT !.value =
                          [k \in DOMAIN @ |-> remap_const(@[k], live.functions, live.globals)]]]]

(* A branch into the failure block of an assertion becomes a jump past it. *)
DropAssert(f, block) ==
    IF /\ block.insts # <<>> /\ LastInst(block).op = "branch"
       /\ f.blocks[LastInst(block).c.v].assert_fail
    THEN [block EXCEPT !.insts[Len(block.insts)] = JumpTo(@, @.b)]
    ELSE block

ir_drop_asserts(m) ==
    [m EXCEPT !.functions = [i \in DOMAIN @ |->
        [@[i] EXCEPT !.blocks = [b \in DOMAIN @ |-> DropAssert(m.functions[i], @[b])]]]]
=============================================================================
