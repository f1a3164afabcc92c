------------------------------ MODULE Meaning ------------------------------
(***************************************************************************)
(* What a checked source program means, as the language description of     *)
(* docs/decisions.md gives it: operands from left to right, one handler    *)
(* per failing call, and the deferred statements of a block at every exit  *)
(* of it, last declared first.  The compiled program is compared with it.  *)
(*                                                                         *)
(* A function has the types of its names, the names whose address is taken *)
(* and a body.  Every expression carries its type, as after src/sema.c.    *)
(***************************************************************************)
EXTENDS Machine

Signed(t) == t \in {"i8", "i64"}

(* The IR type of a source type.  bool and u8 are i8, u64 is i64.          *)
ir_type_of(t) ==
    CASE t \in {"bool", "u8", "i8"}           -> "i8"
      [] t \in {"i64", "u64"}                 -> "i64"
      [] t = "ptr"                            -> "ptr"
      [] t \in {"struct", "class", "array"}   -> "agg"
      [] OTHER                                -> "void"

is_aggregate(t) == ir_type_of(t) = "agg"

InMemory(fn, n) == n \in fn.taken \/ is_aggregate(fn.types[n])

Number(t, v) == IF Signed(t) THEN signed_value(ir_type_of(t), v) ELSE v

(* The IR operation of a source operator on operands of type t.            *)
binary_op(op, t) ==
    LET s == Signed(t)
    IN  CASE op = "+"  -> "add" [] op = "-"  -> "sub" [] op = "*" -> "mul"
          [] op = "/"  -> IF s THEN "sdiv" ELSE "udiv"
          [] op = "%"  -> IF s THEN "srem" ELSE "urem"
          [] op = "&"  -> "and" [] op = "|"  -> "or" [] op = "^"  -> "xor"
          [] op = "<<" -> "shl" [] op = ">>" -> IF s THEN "shr_s" ELSE "shr_u"
          [] op = "==" -> "eq"  [] op = "!=" -> "ne"
          [] op = "<"  -> IF s THEN "slt" ELSE "ult"
          [] op = "<=" -> IF s THEN "sle" ELSE "ule"
          [] op = ">"  -> IF s THEN "sgt" ELSE "ugt"
          [] op = ">=" -> IF s THEN "sge" ELSE "uge"

FnNamed(p, name) == CHOOSE i \in DOMAIN p.fns : p.fns[i].name = name
IsDefined(p, name) == \E i \in DOMAIN p.fns : p.fns[i].name = name

(* A state: the world, the names of the activation, the value of the last  *)
(* expression, how the last statement ended and the error it ended with.   *)
With(st, v)  == [st EXCEPT !.v = v]
Ends(st)     == st.out # "" \/ st.w.stop # ""

Put(st, at, v) == [st EXCEPT !.w = Write(@, at, v)]

RECURSIVE Eval(_, _, _, _), Place(_, _, _, _), EvalAll(_, _, _, _, _),
          Build(_, _, _, _, _), Run(_, _, _, _), Do(_, _, _, _), Block(_, _, _, _),
          Unwind(_, _, _, _), Repeat(_, _, _, _), Walk(_, _, _, _, _), Call(_, _, _, _, _),
          Activate(_, _, _, _)

EvalAll(p, fn, st, es, vs) ==
    IF es = <<>> THEN With(st, vs)
    ELSE LET s == Eval(p, fn, st, Head(es)) IN EvalAll(p, fn, s, Tail(es), Append(vs, s.v))

(* The address of the object an expression names.                          *)
Place(p, fn, st, e) ==
    CASE e.k = "var"   -> With(st, st.env[e.n])
      [] e.k = "field" ->
           LET s == IF e.x.t = "ptr" THEN Eval(p, fn, st, e.x) ELSE Place(p, fn, st, e.x)
           IN  With(s, s.v + e.fld)
      [] e.k = "index" ->
           LET s == Place(p, fn, st, e.x)
               u == Eval(p, fn, s, e.i)
           IN  With(u, s.v + u.v)
      [] e.k = "un"    -> Eval(p, fn, st, e.x)
      [] e.k = "call"  -> Call(p, fn, st, e, <<>>)
      [] OTHER ->
           LET at == st.w.next
               s  == Build(p, fn, [st EXCEPT !.w = Fresh(@, Cells)], e, at)
           IN  With(s, at)

Build(p, fn, st, e, at) ==
    IF e.k = "lit"
    THEN LET table == IF e.t = "class" THEN Put(st, at, GlobalAt(p.table)) ELSE st
             first == IF e.t = "class" THEN at + 1 ELSE at
             s     == EvalAll(p, fn, table, e.vs, <<>>)
         IN  FoldLeft(LAMBDA u, k : Put(u, first + k - 1, s.v[k]), s,
                      [k \in DOMAIN e.vs |-> k])
    ELSE LET s == Place(p, fn, st, e)
         IN  [s EXCEPT !.w = Copied(@, at, s.v)]

(* A call of a function, whose last argument is out when it has one.       *)
Call(p, fn, st, e, out) ==
    LET s  == EvalAll(p, fn, st, e.args, <<>>)
        vs == s.v \o out
        ts == [k \in DOMAIN vs |->
                 IF k > Len(e.args) \/ is_aggregate(e.args[k].t) THEN "ptr"
                 ELSE ir_type_of(e.args[k].t)]
    IN  IF IsDefined(p, e.f)
        THEN LET w == Activate(p, p.fns[FnNamed(p, e.f)], vs, s)
             IN  [s EXCEPT !.w = w, !.v = w.ret]
        ELSE LET w == Extern(s.w, e.f, ts, vs, s.fail)
             IN  [s EXCEPT !.w = w, !.v = w.ret]

(* The value of an expression; the address of an aggregate.                *)
Eval(p, fn, st, e) ==
    IF Ends(st) THEN st
    ELSE IF is_aggregate(e.t) THEN Place(p, fn, st, e)
    ELSE CASE e.k = "int"  -> With(st, trim(ir_type_of(e.t), e.v))
      [] e.k = "var"  -> With(st, IF InMemory(fn, e.n) THEN st.w.mem[st.env[e.n]]
                                  ELSE st.env[e.n])
      [] e.k = "bin" /\ e.op \in {"&&", "||"} ->
           LET s == Eval(p, fn, st, e.l)
           IN  IF (s.v # 0) = (e.op = "||") THEN s ELSE Eval(p, fn, s, e.r)
      [] e.k = "bin" /\ e.op \notin {"&&", "||"} ->
           LET s  == Eval(p, fn, st, e.l)
               u  == Eval(p, fn, s, e.r)
               op == binary_op(e.op, e.l.t)
               t  == ir_type_of(e.l.t)
           IN  IF Ends(u) THEN u
               ELSE IF Undefined(op, t, s.v, u.v) THEN [u EXCEPT !.w.stop = "undefined"]
               ELSE With(u, Computed(op, t, s.v, u.v))
      [] e.k = "un" /\ e.op = "&" -> Place(p, fn, st, e.x)
      [] e.k = "un" /\ e.op # "&" ->
           LET s == Eval(p, fn, st, e.x)
           IN  With(s, CASE e.op = "-" -> trim(ir_type_of(e.t), -s.v)
                         [] e.op = "!" -> 1 - s.v
                         [] e.op = "~" -> trim(ir_type_of(e.t), -s.v - 1)
                         [] e.op = "*" -> s.w.mem[s.v])
      [] e.k = "cast" ->
           LET s == Eval(p, fn, st, e.x)
           IN  With(s, trim(ir_type_of(e.t), Number(e.x.t, s.v)))
      [] e.k = "call" -> Call(p, fn, st, e, <<>>)
      [] e.k = "virtual" ->
           LET s == Eval(p, fn, st, e.x)
           IN  Call(p, fn, s, [e EXCEPT !.f = p.fns[s.w.mem[s.w.mem[s.v] + 1] - FunctionAt(0)].name,
                                        !.args = <<e.x>>], <<>>)
      [] OTHER -> LET s == Place(p, fn, st, e) IN With(s, s.w.mem[s.v])

(* Write v to the variable n.                                              *)
Assign(fn, st, n, v) ==
    IF InMemory(fn, n) THEN Put(st, st.env[n], v) ELSE [st EXCEPT !.env[n] = v]

(* A call that can fail, with its handler; n is the variable it gives its  *)
(* result to, or "".                                                       *)
Handled(p, fn, st, e, n) ==
    LET s    == Call(p, fn, st, e, IF n = "" THEN <<>> ELSE <<st.env[n]>>)
        h    == e.handler
        runs == Do(p, fn, [s EXCEPT !.env = (h.n :> s.v) @@ @], h.body)
        ended == IF runs.out = "yield" /\ n # "" THEN Put(runs, runs.env[n], runs.v) ELSE runs
        freed == IF ended.out \in {"", "yield"} /\ ~h.passes /\ ended.w.stop = ""
                 THEN [ended EXCEPT !.w = Extern(@, "anti_rt_delete", <<"ptr">>,
                                                 <<s.v>>, s.fail)]
                 ELSE ended
    IN  IF Ends(s) \/ s.v = 0 THEN s
        ELSE CASE h.kind = "try"       -> [s EXCEPT !.out = "return"]
               [] h.kind = "enclosing" -> [s EXCEPT !.out = "error"]
               [] h.kind = "fatal"     ->
                    [s EXCEPT !.w = Extern(@, "fatal", <<"ptr">>, <<s.v>>, s.fail)]
               [] h.kind = "block"     ->
                    [freed EXCEPT !.out = IF @ = "yield" THEN "" ELSE @]

IsHandled(e) == e.k = "call" /\ e.handler.kind # "none"

(* One statement.                                                          *)
Run(p, fn, st, s) ==
    CASE s.k = "let" /\ IsHandled(s.e) -> Handled(p, fn, st, s.e, s.n)
      [] s.k = "let" /\ ~IsHandled(s.e) /\ is_aggregate(s.e.t) ->
           LET u == Build(p, fn, st, s.e, st.env[s.n])
           IN  IF s.e.t = "class" THEN [u EXCEPT !.defers = <<[k |-> "destroy", n |-> s.n]>> \o @]
               ELSE u
      [] s.k = "let" /\ ~IsHandled(s.e) /\ ~is_aggregate(s.e.t) ->
           LET u == Eval(p, fn, st, s.e) IN Assign(fn, u, s.n, u.v)
      [] s.k = "expr" -> IF IsHandled(s.e) THEN Handled(p, fn, st, s.e, "")
                         ELSE Eval(p, fn, st, s.e)
      [] s.k = "set" /\ s.x.k = "var" /\ ~InMemory(fn, s.x.n) ->
           LET u == Eval(p, fn, st, IF s.op = "=" THEN s.e
                                    ELSE [k |-> "bin", t |-> s.x.t, op |-> s.op,
                                          l |-> s.x, r |-> s.e])
           IN  Assign(fn, u, s.x.n, u.v)
      [] s.k = "set" /\ ~(s.x.k = "var" /\ ~InMemory(fn, s.x.n)) ->
           LET at  == Place(p, fn, st, s.x)
               u   == Eval(p, fn, at, s.e)
               old == at.w.mem[at.v]
           IN  IF Ends(u) THEN u
               ELSE IF is_aggregate(s.x.t)
               THEN [u EXCEPT !.w = Copied(@, at.v, u.v)]
               ELSE IF s.op = "=" THEN Put(u, at.v, u.v)
               ELSE Put(u, at.v, Computed(binary_op(s.op, s.x.t), ir_type_of(s.x.t), old, u.v))
      [] s.k = "if" ->
           LET c == Eval(p, fn, st, s.c)
           IN  IF Ends(c) THEN c ELSE Do(p, fn, c, IF c.v # 0 THEN s.then ELSE s.else)
      [] s.k \in {"while", "do"} -> Repeat(p, fn, st, s)
      [] s.k = "for" ->
           LET lo == Eval(p, fn, st, s.low)
               hi == Eval(p, fn, lo, s.high)
               t  == s.low.t
               k  == IF s.step < 0 THEN -s.step ELSE s.step
               all == SelectSeq([j \in 1 .. 33 |-> j - 17], LAMBDA v :
                          /\ v >= Number(t, lo.v) /\ v < Number(t, hi.v)
                          /\ (v - Number(t, lo.v)) % k = 0)
           IN  IF Ends(hi) THEN hi
               ELSE Walk(p, fn, hi, s, IF s.step < 0 THEN Reverse(all) ELSE all)
      [] s.k = "each" ->
           LET at == Place(p, fn, st, s.over)
           IN  Walk(p, fn, at, s, IF s.by_pointer THEN <<at.v, at.v + 1>> ELSE <<0, 1>>)
      [] s.k = "switch" ->
           LET c    == Eval(p, fn, st, s.e)
               hits == {i \in DOMAIN s.arms : trim(ir_type_of(s.e.t), s.arms[i].v) = c.v}
           IN  IF Ends(c) THEN c
               ELSE Do(p, fn, c, IF hits = {} THEN s.otherwise ELSE s.arms[Min(hits)].body)
      [] s.k = "try" ->
           LET u == Do(p, fn, st, s.body)
               h == Do(p, fn, [u EXCEPT !.out = "", !.env = (s.n :> u.v) @@ @], s.handler)
           IN  IF u.out # "error" THEN u
               ELSE IF Ends(h) THEN h
               ELSE [h EXCEPT !.w = Extern(@, "anti_rt_delete", <<"ptr">>, <<u.v>>, h.fail)]
      [] s.k = "assert" ->
           LET c == Eval(p, fn, st, s.e)
           IN  IF Ends(c) \/ c.v # 0 \/ ~p.asserts THEN c
               ELSE [c EXCEPT !.w = Extern(@, "anti_rt_assert_failed", <<>>, <<>>, c.fail)]
      [] s.k = "defer"  -> [st EXCEPT !.defers = <<s.s>> \o @]
      [] s.k \in {"break", "continue"} -> [st EXCEPT !.out = s.k]
      [] s.k = "yield"  -> LET u == Eval(p, fn, st, s.e) IN [u EXCEPT !.out = "yield"]
      [] s.k = "return" ->
           IF s.e.k = "none" THEN [st EXCEPT !.out = "return"]
           ELSE LET u == Eval(p, fn, st, s.e)
                IN  IF Ends(u) THEN u
                    ELSE [u EXCEPT !.out = "return",
                                   !.moved = IF s.e.k = "var" THEN s.e.n ELSE ""]
      [] s.k = "block"  -> Do(p, fn, st, s.body)
      [] s.k = "destroy" ->
           IF s.n = st.moved THEN st
           ELSE [st EXCEPT !.w = Extern(@, "anti_rt_destroy", <<"ptr">>,
                                        <<st.env[s.n]>>, st.fail)]

(* The statements of a block, then what they deferred.                     *)
Do(p, fn, st, body) ==
    IF Ends(st) THEN st
    ELSE LET u == Block(p, fn, [st EXCEPT !.defers = <<>>], body)
         IN  [Unwind(p, fn, u, u.defers) EXCEPT !.defers = st.defers]

Block(p, fn, st, body) ==
    IF body = <<>> \/ Ends(st) THEN st
    ELSE Block(p, fn, Run(p, fn, st, Head(body)), Tail(body))

Unwind(p, fn, st, acts) ==
    IF acts = <<>> \/ st.w.stop # "" THEN st
    ELSE LET u == Run(p, fn, [st EXCEPT !.out = ""], Head(acts))
         IN  Unwind(p, fn, [u EXCEPT !.out = st.out, !.v = st.v], Tail(acts))

Repeat(p, fn, st, s) ==
    LET c == IF s.k = "while" THEN Eval(p, fn, st, s.c) ELSE With(st, 1)
        u == IF Ends(c) \/ c.v = 0 THEN c ELSE Do(p, fn, c, s.body)
        n == [u EXCEPT !.out = IF @ = "continue" THEN "" ELSE @]
        d == IF s.k = "do" /\ ~Ends(n) THEN Eval(p, fn, n, s.c) ELSE n
    IN  IF u.out = "break" THEN [u EXCEPT !.out = ""]
        ELSE IF Ends(d) \/ c.v = 0 \/ (s.k = "do" /\ d.v = 0) THEN d
        ELSE IF d.w.fuel = 0 THEN [d EXCEPT !.w.stop = "fuel"]
        ELSE Repeat(p, fn, [d EXCEPT !.w.fuel = @ - 1], s)

(* One turn of a for loop per value; an element is read when its turn      *)
(* comes.                                                                  *)
Walk(p, fn, st, s, vs) ==
    IF vs = <<>> \/ Ends(st) THEN st
    ELSE LET v == IF s.k = "each" /\ ~s.by_pointer
                  THEN st.w.mem[st.env[s.over.n] + Head(vs)]
                  ELSE IF s.k = "each" THEN Head(vs)
                  ELSE trim(ir_type_of(s.low.t), Head(vs))
             b == Do(p, fn, [st EXCEPT !.env = (s.n :> v) @@ @], s.body)
             u == [b EXCEPT !.out = IF @ = "continue" THEN "" ELSE @]
         IN  IF u.out = "break" THEN [u EXCEPT !.out = ""]
             ELSE Walk(p, fn, u, s, Tail(vs))

(* One activation of a function: every name in memory has its cells.       *)
Activate(p, fn, vs, st) ==
    LET names == Listed({n \in DOMAIN fn.types : InMemory(fn, n)
                           /\ ~(is_aggregate(fn.types[n]) /\ n \in ToSet(fn.params))})
        at(n) == st.w.next + Cells * (CHOOSE k \in DOMAIN names : names[k] = n) - Cells
        arg(n) == vs[CHOOSE k \in DOMAIN fn.params : fn.params[k] = n]
        w0    == Fresh(st.w, Cells * Len(names))
        w1    == FoldSet(LAMBDA n, w : Write(w, at(n), arg(n)), w0,
                         {n \in ToSet(fn.params) : n \in ToSet(names)})
        env   == [n \in DOMAIN fn.types |->
                    IF n \in ToSet(names) THEN at(n)
                    ELSE IF n \in ToSet(fn.params) THEN arg(n) ELSE 0]
        u     == Do(p, fn, [w |-> w1, env |-> env, v |-> 0, out |-> "", defers |-> <<>>,
                            moved |-> "", fail |-> st.fail], fn.body)
    IN  [u.w EXCEPT !.ret = IF u.out = "return" THEN u.v ELSE 0]

(* What the program shows when main gets the arguments vs.                 *)
Meaning(p, m, vs, fail) ==
    LET fn == p.fns[FnNamed(p, "main")]
        w  == Activate(p, fn, vs, [w |-> World(m), fail |-> fail])
    IN  [trace |-> w.trace, stop |-> w.stop,
         ret |-> IF w.stop # "" \/ fn.result = "void" THEN 0 ELSE w.ret]
=============================================================================
