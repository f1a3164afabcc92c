------------------------------- MODULE Machine -------------------------------
(***************************************************************************)
(* The run of an IR module: what a compiled program does.  A function with *)
(* a body runs; a call of an extern function is an event of the trace.     *)
(*                                                                         *)
(* An address is a number.  A world holds the trace, the memory, the next  *)
(* free address, the value the last function returned, and how it stopped. *)
(***************************************************************************)
EXTENDS IR, TLC

CONSTANT Fuel       \* the instructions one run may take

Cells == 3          \* the cells of an aggregate

GlobalAt(g)   == 9000 + 8 * g
FunctionAt(i) == 9700 + i
ErrorAt       == 9900            \* the error object a failing call gives
FatalAt       == 9990            \* the method of it that ends the program

Halting == {"anti_rt_assert_failed", "anti_rt_cast_failed", "fatal"}

(* A number is shown as itself, a pointer as the cells it leads to.  Where *)
(* an object lies is not shown.                                            *)
FirstAddress == 100

Plain(v) == IF v < FirstAddress THEN v ELSE FirstAddress

Shown(w, o, v) ==
    IF o # "ptr" THEN <<v>>
    ELSE IF v \notin DOMAIN w.mem THEN <<>>
    ELSE <<Plain(w.mem[v]), IF v + 1 \in DOMAIN w.mem THEN Plain(w.mem[v + 1]) ELSE 0>>

Fresh(w, cells) ==
    [w EXCEPT !.next = @ + cells,
              !.mem = [c \in w.next .. (w.next + cells - 1) |-> 0] @@ @]

Copied(w, to, from) ==
    IF \A k \in 0 .. (Cells - 1) : {to + k, from + k} \subseteq DOMAIN w.mem
    THEN [w EXCEPT !.mem = [c \in DOMAIN @ |->
             IF c \in to .. (to + Cells - 1) THEN w.mem[c - to + from] ELSE w.mem[c]]]
    ELSE [w EXCEPT !.stop = "trap"]

Write(w, at, v) ==
    IF at \in DOMAIN w.mem THEN [w EXCEPT !.mem[at] = v]
    ELSE [w EXCEPT !.stop = "trap"]

(* What an extern function does.  work counts the calls, poke changes the  *)
(* object it is given, risky and fetch fail at the call number fail, and   *)
(* fetch otherwise writes through its out parameter.                       *)
Extern(w, name, types, vs, fail) ==
    LET n    == Len(w.trace) + 1
        args == IF name \in Halting THEN <<>>
                ELSE [k \in DOMAIN vs |-> Shown(w, types[k], vs[k])]
        seen == [w EXCEPT !.trace = Append(@, <<name, args>>), !.ret = 0]
    IN  CASE name = "work"   -> [seen EXCEPT !.ret = trim("i64", n)]
          [] name = "poke"   -> IF vs[1] \in DOMAIN w.mem
                                THEN Write(seen, vs[1], trim("i64", w.mem[vs[1]] + 1))
                                ELSE [seen EXCEPT !.stop = "trap"]
          [] name \in {"risky", "fetch"} /\ n = fail -> [seen EXCEPT !.ret = ErrorAt]
          [] name = "fetch" /\ n # fail -> Write(seen, vs[1], trim("i64", n))
          [] name = "malloc" -> [Fresh(seen, Cells) EXCEPT !.ret = w.next]
          [] name \in Halting -> [seen EXCEPT !.stop = "halt"]
          [] OTHER -> seen

ConstCell(c) ==
    CASE c.kind = "addr" -> GlobalAt(c.v)
      [] c.kind = "func" -> FunctionAt(c.v)
      [] OTHER -> c.v

(* The memory a program starts with: its globals, and an error object      *)
(* whose table holds the function fatal in its second entry.               *)
Memory(m) ==
    LET cells == UNION {{<<GlobalAt(g) + k - 1, ConstCell(m.globals[g].value[k])>> :
                           k \in DOMAIN m.globals[g].value} : g \in DOMAIN m.globals}
    IN  [c \in {p[1] : p \in cells} |-> (CHOOSE p \in cells : p[1] = c)[2]]
          @@ (ErrorAt :> ErrorAt + 2) @@ (ErrorAt + 2 :> 0)
          @@ (ErrorAt + 3 :> FatalAt)

World(m) == [trace |-> <<>>, mem |-> Memory(m), next |-> FirstAddress, ret |-> 0, stop |-> "",
             fuel |-> Fuel]

(* The value of an operand, with the temporaries t.                        *)
Value(o, t) ==
    CASE o.kind = "temp"   -> t[o.v]
      [] o.kind = "global" -> GlobalAt(o.v)
      [] o.kind = "func"   -> FunctionAt(o.v)
      [] OTHER             -> o.v

Advance(s, inst, v) ==
    [s EXCEPT !.t[inst.result] = v, !.i = @ + 1]

Move(s, b) == [s EXCEPT !.b = b, !.i = 1]

Stop(s, why) == [s EXCEPT !.w.stop = why]

(* One instruction of an activation s other than a call.                   *)
Exec(s, inst) ==
    LET a == Value(inst.a, s.t)
        b == Value(inst.b, s.t)
        t == inst.a.type
    IN  CASE inst.op \in ArithOps \cup CompareOps ->
               IF Undefined(inst.op, t, a, b) THEN Stop(s, "undefined")
               ELSE Advance(s, inst, Computed(inst.op, t, a, b))
          [] inst.op = "neg"   -> Advance(s, inst, trim(inst.type, -a))
          [] inst.op = "not"   -> Advance(s, inst, trim(inst.type, -a - 1))
          [] inst.op \in {"copy", "addr", "zext"} -> Advance(s, inst, a)
          [] inst.op = "trunc" -> Advance(s, inst, trim(inst.type, a))
          [] inst.op = "sext"  -> Advance(s, inst, trim(inst.type, signed_value(t, a)))
          [] inst.op = "slot"  -> Advance(s, inst, s.base + Cells * inst.result)
          [] inst.op = "ptradd" -> Advance(s, inst, a + signed_value("i64", b))
          [] inst.op = "load"  ->
               IF a \in DOMAIN s.w.mem THEN Advance(s, inst, s.w.mem[a])
               ELSE Stop(s, "trap")
          [] inst.op = "store" -> [s EXCEPT !.w = Write(@, b, a), !.i = @ + 1]
          [] inst.op = "memcopy" -> [s EXCEPT !.w = Copied(@, a, b), !.i = @ + 1]
          [] inst.op = "jump"   -> Move(s, a)
          [] inst.op = "branch" -> Move(s, IF a # 0 THEN inst.b.v ELSE inst.c.v)

RECURSIVE RunFunction(_, _, _, _, _), RunFrom(_, _, _, _)

(* Run function i with the arguments vs in world w.                        *)
RunFunction(m, i, vs, w, fail) ==
    LET f == m.functions[i]
        s == [b |-> 1, i |-> 1, base |-> w.next,
              t |-> [k \in DOMAIN f.temps |->
                       IF \E p \in DOMAIN f.params : f.params[p] = k
                       THEN vs[CHOOSE p \in DOMAIN f.params : f.params[p] = k]
                       ELSE 0],
              w |-> Fresh(w, Cells * (Len(f.temps) + 1))]
    IN  RunFrom(m, f, s, fail)

RunFrom(m, f, s, fail) ==
    IF s.w.stop # "" THEN s.w
    ELSE IF s.w.fuel = 0 THEN [s.w EXCEPT !.stop = "fuel"]
    ELSE LET inst == f.blocks[s.b].insts[s.i]
             u    == [s EXCEPT !.w.fuel = @ - 1]
             vs   == [k \in DOMAIN inst.args |-> Value(inst.args[k], s.t)]
             callee == IF inst.a.kind = "func" THEN inst.a.v
                       ELSE Value(inst.a, s.t) - FunctionAt(0)
         IN  IF inst.op = "ret"
             THEN [u.w EXCEPT !.ret = Value(inst.a, s.t)]
             ELSE IF inst.op # "call" THEN RunFrom(m, f, Exec(u, inst), fail)
             ELSE IF callee = FatalAt - FunctionAt(0)
             THEN Extern(u.w, "fatal", <<>>, <<>>, fail)
             ELSE IF callee \notin DOMAIN m.functions
             THEN [u.w EXCEPT !.stop = "trap"]
             ELSE LET g == m.functions[callee]
                      w == IF g.is_extern
                           THEN Extern(u.w, g.name,
                                       [k \in DOMAIN vs |-> inst.args[k].type], vs, fail)
                           ELSE RunFunction(m, callee, vs, u.w, fail)
                      after == [u EXCEPT !.w = w]
                  IN  RunFrom(m, f,
                        IF inst.result = NO_RESULT THEN [after EXCEPT !.i = @ + 1]
                        ELSE Advance(after, inst, w.ret), fail)

(* What a run of main shows: the events, the result and how it ended.      *)
Behaviour(m, vs, fail) ==
    LET main == CHOOSE i \in DOMAIN m.functions : m.functions[i].name = "main"
        w    == RunFunction(m, main, vs, World(m), fail)
    IN  [trace |-> w.trace, stop |-> w.stop,
         ret |-> IF w.stop # "" \/ m.functions[main].result = "void" THEN 0 ELSE w.ret]
=============================================================================
