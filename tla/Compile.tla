------------------------------- MODULE Compile -------------------------------
(***************************************************************************)
(* The compilation of one program, as src/driver.c runs it: lower_module,  *)
(* ir_drop_asserts in a build without assertions, the passes of            *)
(* ir_optimize_function on every function until a round changes nothing,   *)
(* renumber_temps, and remove_unused_functions.                            *)
(***************************************************************************)
EXTENDS Meaning, Optimizer

CONSTANTS
    Programs,               \* the source programs
    Runs,                   \* what main may get: [vs |-> arguments, fail |-> call]
    MaxRounds,              \* the rounds of passes one function may take
    LowerModule(_),         \* lower_module of Lowering
    MeaningOf(_, _, _, _)   \* Meaning of the module Meaning

VARIABLES
    prog,       \* the source program
    m,          \* the IR module
    stage,      \* what the driver does next
    fi,         \* the function ir_optimize is at
    pass,       \* the next pass of ir_optimize_function
    changed,    \* whether this round has changed the function
    rounds,     \* the rounds the function has taken
    expected    \* what each run of the source program shows

vars == <<prog, m, stage, fi, pass, changed, rounds, expected>>

Stages == {"lower", "asserts", "optimize", "unused", "done"}

Init ==
    /\ prog \in Programs
    /\ m = [functions |-> <<>>, globals |-> <<>>]
    /\ stage = "lower" /\ fi = 1 /\ pass = 1 /\ changed = FALSE /\ rounds = 0
    /\ expected = <<>>

Lower ==
    /\ stage = "lower"
    /\ m' = LowerModule(prog)
    /\ expected' = [r \in Runs |-> MeaningOf(prog, m', r.vs, r.fail)]
    /\ stage' = IF prog.asserts THEN "optimize" ELSE "asserts"
    /\ UNCHANGED <<prog, fi, pass, changed, rounds>>

DropAsserts ==
    /\ stage = "asserts"
    /\ m' = ir_drop_asserts(m)
    /\ stage' = "optimize"
    /\ UNCHANGED <<prog, fi, pass, changed, rounds, expected>>

Fun == m.functions[fi]

(* One pass over the function, the n-th of the round.                      *)
Applied(n, g) ==
    /\ stage = "optimize" /\ pass = n
    /\ m' = [m EXCEPT !.functions[fi] = g]
    /\ UNCHANGED <<prog, stage, fi, expected>>

NextPass(n, g) ==
    /\ Applied(n, g)
    /\ changed' = (changed \/ g # Fun)
    /\ pass' = n + 1
    /\ UNCHANGED rounds

FoldConstants      == NextPass(1, fold_constants(Fun))
ApplyPeepholeRules == NextPass(2, apply_peephole_rules(Fun))
SplitSlots         == NextPass(3, split_slots(Fun))
ForwardStores      == NextPass(4, forward_stores(Fun))
PropagateCopies    == NextPass(5, propagate_copies(Fun))

(* The last pass of a round; another round follows one that changed f.     *)
RemoveDeadCode ==
    /\ rounds < MaxRounds
    /\ Applied(6, remove_dead_code(Fun))
    /\ rounds' = rounds + 1
    /\ changed' = FALSE
    /\ pass' = IF changed \/ m' # m THEN 1 ELSE 7

RenumberTemps ==
    /\ stage = "optimize" /\ pass = 7
    /\ m' = [m EXCEPT !.functions[fi] = renumber_temps(Fun)]
    /\ pass' = 1 /\ rounds' = 0
    /\ fi' = fi + 1
    /\ stage' = IF fi = Len(prog.fns) THEN "unused" ELSE "optimize"
    /\ UNCHANGED <<prog, changed, expected>>

RemoveUnusedFunctions ==
    /\ stage = "unused"
    /\ m' = remove_unused_functions(m, FALSE)
    /\ stage' = "done"
    /\ UNCHANGED <<prog, fi, pass, changed, rounds, expected>>

Next ==
    \/ Lower \/ DropAsserts
    \/ FoldConstants \/ ApplyPeepholeRules \/ SplitSlots \/ ForwardStores
    \/ PropagateCopies \/ RemoveDeadCode \/ RenumberTemps
    \/ RemoveUnusedFunctions

Spec == Init /\ [][Next]_vars

-----------------------------------------------------------------------------
(* Every state of the IR, after lowering and after each pass of            *)
(* src/optimize.c, shows what the source program shows: the calls of       *)
(* extern functions with their arguments, the result and how it stops.     *)
(* Runs of the source that are undefined or that go on too long are left   *)
(* out.                                                                    *)
SameBehaviour ==
    stage # "lower" =>
        \A r \in Runs :
            \/ expected[r].stop \in {"undefined", "fuel"}
            \/ Behaviour(m, r.vs, r.fail) = expected[r]

(* ir_verify accepts the module at each of the points where src/driver.c   *)
(* runs it, and between the passes.                                        *)
Verified == stage # "lower" => ir_verify(m)

(* The loop of ir_optimize_function over its passes ends for every         *)
(* program: no pass undoes what another one did in every round.            *)
PassesEnd == rounds < MaxRounds
=============================================================================
