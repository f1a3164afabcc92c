------------------------- MODULE RegAllocSimulation -------------------------
(***************************************************************************)
(* The program never sees the register allocation of src/regalloc.c, for   *)
(* every function that selection makes well.                               *)
(*                                                                         *)
(* First the scan's theorems again, now over the intervals that            *)
(* build_intervals computes: Covers and FixedCovers say that an interval   *)
(* holds every position where its register is read, written or alive, and  *)
(* a fixed range every stretch from a write of a physical register to its  *)
(* reads.  PlaceInv carries them to the end of the scan.                   *)
(*                                                                         *)
(* Then the two runs.  SimInv holds from the prologue on: whatever the     *)
(* code at pc and after it needs has one value before and after allocation *)
(* (Agree), and so do the registers that nothing writes, and a constant    *)
(* whose definition was dropped can have only one value (Standing).        *)
(* WellSelected is assumed of the function because the claim is false      *)
(* without it: RegAllocThreeReads.cfg and RegAllocConstant.cfg are the     *)
(* counterexamples.                                                        *)
(***************************************************************************)
EXTENDS RegAllocProofs

-----------------------------------------------------------------------------
(* The numbers of the instructions.                                        *)

CodeOK == code \in [Idx -> Seq(Items)]

\* What the counter k of build_intervals holds after n instructions.
LEMMA OffsetSteps ==
    ASSUME ProgOK, CodeOK
    PROVE  /\ Offset \in [0 .. Len(prog.insts) -> Nat]
           /\ Offset[0] = 0
           /\ \A n \in 1 .. Len(prog.insts) : Offset[n] = Offset[n - 1] + Len(code[n])
<1> DEFINE N == Len(prog.insts)
           Turn(x, n) == x + Len(code[n])
           G == [x \in Nat \X (1 .. N) |-> Turn(x[1], x[2])]
           Loop(f) == f = [n \in 0 .. N |-> IF n = 0 THEN 0 ELSE Turn(f[n - 1], n)]
<1>1. N \in Nat /\ Idx = 1 .. N
  BY BlockFacts
<1>2. \A x \in Nat : \A n \in 1 .. N : Turn(x, n) \in Nat
  <2> TAKE x \in Nat
  <2> TAKE n \in 1 .. N
  <2>1. code[n] \in Seq(Items)
    BY <1>1 DEF CodeOK
  <2>2. Len(code[n]) \in Nat
    BY <2>1
  <2> QED BY <2>2
<1>3. Offset = CHOOSE f : Loop(f)
  BY DEF Offset
<1> HIDE DEF N, Turn
<1>4. G \in [Nat \X (1 .. N) -> Nat]
  BY <1>2
<1>5. PICK f : LoopOf(f, Nat, 0, N, G)
  <2> HIDE DEF G
  <2> QED BY <1>1, <1>4, LoopExists
<1>6. \A n \in 1 .. N : f[n] = Turn(f[n - 1], n)
  <2> TAKE n \in 1 .. N
  <2>1. n - 1 \in 0 .. N
    BY <1>1
  <2>2. <<f[n - 1], n>> \in Nat \X (1 .. N)
    BY <1>5, <2>1 DEF LoopOf
  <2>3. G[<<f[n - 1], n>>] = Turn(f[n - 1], n)
    BY <2>2
  <2> HIDE DEF G
  <2> QED BY <1>5, <2>3 DEF LoopOf
<1>7. Loop(f)
  <2>1. f = [n \in 0 .. N |-> f[n]] /\ f[0] = 0
    BY <1>5 DEF LoopOf
  <2>2. \A n \in 0 .. N : n # 0 => n \in 1 .. N
    BY <1>1
  <2> QED BY <1>6, <2>1, <2>2
<1>8. Loop(Offset)
  BY <1>3, <1>7
<1>9. /\ Offset[0] = 0
      /\ \A n \in 1 .. N : Offset[n] = Turn(Offset[n - 1], n)
      /\ Offset = [n \in 0 .. N |-> Offset[n]]
  <2> DEFINE e == Offset
  <2>1. e = [n \in 0 .. N |-> IF n = 0 THEN 0 ELSE Turn(e[n - 1], n)]
    BY <1>8
  <2> HIDE DEF e
  <2>2. 0 \in 0 .. N /\ \A n \in 1 .. N : n \in 0 .. N /\ n # 0
    BY <1>1
  <2>3. \A n \in 0 .. N : e[n] = IF n = 0 THEN 0 ELSE Turn(e[n - 1], n)
    BY ONLY <2>1
  <2>4. e = [n \in 0 .. N |-> e[n]]
    BY ONLY <2>1
  <2>5. e[0] = 0 /\ \A n \in 1 .. N : e[n] = Turn(e[n - 1], n)
    BY ONLY <2>2, <2>3
  <2> QED BY <2>4, <2>5 DEF e
<1> HIDE DEF Loop
<1> DEFINE T == {n \in 0 .. N : Offset[n] \in Nat}
<1>10. T = 0 .. N
  <2>1. 0 \in T
    BY <1>1, <1>9
  <2>2. ASSUME NEW n \in 1 .. N, n - 1 \in T PROVE n \in T
    <3>1. Offset[n - 1] \in Nat /\ n \in 0 .. N
      BY <2>2
    <3>2. Offset[n] \in Nat
      BY ONLY <1>2, <1>9, <3>1, n \in 1 .. N
    <3> QED BY <3>1, <3>2
  <2>3. T \in SUBSET (0 .. N)
    OBVIOUS
  <2> HIDE DEF T
  <2> QED BY <1>1, <2>1, <2>2, <2>3, UpTo
<1>11. Offset \in [0 .. N -> Nat]
  BY <1>9, <1>10
<1> QED BY <1>9, <1>11 DEF N, Turn

LEMMA OffsetGrows ==
    ASSUME ProgOK, CodeOK
    PROVE  \A n \in 0 .. Len(prog.insts) : \A m \in 0 .. n : Offset[m] <= Offset[n]
<1> DEFINE N == Len(prog.insts)
           T == {n \in 0 .. N : \A m \in 0 .. n : Offset[m] <= Offset[n]}
<1>1. N \in Nat /\ Idx = 1 .. N
  BY BlockFacts
<1>2. /\ Offset \in [0 .. N -> Nat]
      /\ \A n \in 1 .. N : Offset[n] = Offset[n - 1] + Len(code[n])
  BY OffsetSteps
<1>3. \A n \in 1 .. N : Len(code[n]) \in Nat
  <2> TAKE n \in 1 .. N
  <2>1. code[n] \in Seq(Items)
    BY <1>1 DEF CodeOK
  <2> QED BY <2>1
<1> HIDE DEF N
<1>4. 0 \in T
  BY <1>1, <1>2
<1>5. ASSUME NEW n \in 1 .. N, n - 1 \in T PROVE n \in T
  <2>1. n - 1 \in 0 .. N /\ n \in 0 .. N /\ Offset[n - 1] \in Nat /\ Offset[n] \in Nat
    BY <1>1, <1>2
  <2>2. Offset[n - 1] <= Offset[n]
    BY <1>2, <1>3, <2>1
  <2>3. ASSUME NEW m \in 0 .. n PROVE Offset[m] <= Offset[n]
    <3>1. CASE m = n
      BY <2>1, <3>1
    <3>2. CASE m # n
      <4>1. m \in 0 .. n - 1 /\ m \in 0 .. N
        BY <1>1, <3>2
      <4>2. Offset[m] <= Offset[n - 1] /\ Offset[m] \in Nat
        BY <1>2, <1>5, <4>1
      <4> QED BY <2>1, <2>2, <4>2
    <3> QED BY <3>1, <3>2
  <2> QED BY <2>1, <2>3
<1>6. T = 0 .. N
  <2>1. T \in SUBSET (0 .. N)
    OBVIOUS
  <2> HIDE DEF T
  <2> QED BY <1>1, <1>4, <1>5, <2>1, UpTo
<1> QED BY <1>6 DEF N

\* The blocks cut the code into pieces, one after the other.
LEMMA BlockOrder ==
    ASSUME ProgOK
    PROVE  /\ \A b \in Blocks : /\ prog.last[b] \in 0 .. Len(prog.insts)
                                /\ First(b) \in 1 .. Len(prog.insts) + 1
                                /\ First(b) <= prog.last[b] + 1
           /\ \A b, c \in Blocks : b < c => prog.last[b] < First(c)
           /\ \A b, c \in Blocks : b <= c => prog.last[b] <= prog.last[c]
<1> DEFINE N == Len(prog.last)
           L == Len(prog.insts)
<1>1. Blocks = 1 .. N /\ N \in Nat /\ L \in Nat
  BY BlockFacts
<1>2. /\ prog.last \in Seq(0 .. L)
      /\ \A b \in Blocks : b > 1 => prog.last[b - 1] <= prog.last[b]
  BY ProgramAssumption DEF ProgOK, Blocks
<1>3. \A b \in 1 .. N : prog.last[b] \in 0 .. L
  BY <1>2
<1> DEFINE T == {n \in 0 .. N : \A b \in 1 .. n : prog.last[b] <= prog.last[n]}
<1> HIDE DEF N, L
<1>4. T = 0 .. N
  <2>1. 0 \in T
    BY <1>1
  <2>2. ASSUME NEW n \in 1 .. N, n - 1 \in T PROVE n \in T
    <3>1. n \in 0 .. N /\ prog.last[n] \in 0 .. L
      BY <1>1, <1>3
    <3>2. ASSUME NEW b \in 1 .. n PROVE prog.last[b] <= prog.last[n]
      <4>1. CASE b = n
        BY <1>1, <3>1, <4>1
      <4>2. CASE b # n
        <5>1. b \in 1 .. n - 1 /\ n > 1 /\ n - 1 \in 1 .. N /\ b \in 1 .. N
          BY <1>1, <4>2
        <5>2. prog.last[b] <= prog.last[n - 1] /\ prog.last[n - 1] <= prog.last[n]
          BY <1>1, <1>2, <2>2, <5>1
        <5>3. prog.last[b] \in 0 .. L /\ prog.last[n - 1] \in 0 .. L
          BY <1>3, <5>1
        <5> QED BY <1>1, <3>1, <5>2, <5>3
      <4> QED BY <4>1, <4>2
    <3> QED BY <3>1, <3>2
  <2>3. T \in SUBSET (0 .. N)
    OBVIOUS
  <2> HIDE DEF T
  <2> QED BY <1>1, <2>1, <2>2, <2>3, UpTo
<1>5. \A b, c \in 1 .. N : b <= c => prog.last[b] <= prog.last[c]
  <2> TAKE b, c \in 1 .. N
  <2> HAVE b <= c
  <2>1. c \in T /\ b \in 1 .. c
    BY <1>1, <1>4
  <2> QED BY <2>1
<1>6. ASSUME NEW b \in 1 .. N
      PROVE  First(b) \in 1 .. L + 1 /\ First(b) <= prog.last[b] + 1
  <2>1. CASE b = 1
    BY <1>1, <1>3, <2>1 DEF First
  <2>2. CASE b # 1
    <3>1. b - 1 \in 1 .. N /\ b - 1 <= b
      BY <1>1, <2>2
    <3>2. First(b) = prog.last[b - 1] + 1
      BY <2>2 DEF First
    <3>3. prog.last[b - 1] \in 0 .. L /\ prog.last[b - 1] <= prog.last[b] /\ prog.last[b] \in 0 .. L
      BY <1>3, <1>5, <3>1
    <3> QED BY <1>1, <3>2, <3>3
  <2> QED BY <2>1, <2>2
<1>7. ASSUME NEW b \in 1 .. N, NEW c \in 1 .. N, b < c PROVE prog.last[b] < First(c)
  <2>1. c # 1 /\ c - 1 \in 1 .. N /\ b <= c - 1
    BY <1>1, <1>7
  <2>2. First(c) = prog.last[c - 1] + 1
    BY <2>1 DEF First
  <2>3. prog.last[b] <= prog.last[c - 1]
    BY <1>5, <2>1
  <2>4. prog.last[b] \in 0 .. L /\ prog.last[c - 1] \in 0 .. L
    BY <1>3, <2>1
  <2> QED BY <1>1, <2>2, <2>3, <2>4
<1> QED BY <1>1, <1>3, <1>5, <1>6, <1>7 DEF L

\* A point is an instruction of the rewritten code, and its number lies
\* between those of the ends of its block.
LEMMA PointFacts ==
    ASSUME ProgOK, CodeOK, NEW b \in Blocks, NEW x \in Points(b)
    PROVE  /\ x = <<x[1], x[2]>>
           /\ x[1] \in Members(b) /\ x[1] \in 1 .. Len(prog.insts)
           /\ x[2] \in 1 .. Len(code[x[1]])
           /\ At(x) \in SafeInsts
           /\ Number(x) \in Nat
           /\ Offset[x[1] - 1] <= Number(x) /\ Number(x) < Offset[x[1]]
           /\ First(b) - 1 \in 0 .. Len(prog.insts)
           /\ prog.last[b] \in 0 .. Len(prog.insts)
           /\ Offset[First(b) - 1] \in Nat /\ Offset[prog.last[b]] \in Nat
           /\ Offset[First(b) - 1] <= Number(x)
           /\ Number(x) < Offset[prog.last[b]]
<1> DEFINE L == Len(prog.insts)
<1>1. PICK i \in Members(b) : x \in {i} \X DOMAIN code[i]
  BY DEF Points
<1>2. x = <<x[1], x[2]>> /\ x[1] = i /\ x[2] \in DOMAIN code[i]
  BY <1>1
<1>3. i \in 1 .. L /\ L \in Nat /\ i \in Idx
  BY BlockFacts
<1>4. code[i] \in Seq(Items) /\ Len(code[i]) \in Nat /\ DOMAIN code[i] = 1 .. Len(code[i])
  <2>1. code[i] \in Seq(Items)
    BY <1>3 DEF CodeOK
  <2> QED BY <2>1
<1>5. At(x) \in SafeInsts
  <2>1. code[i][x[2]] \in Items
    BY <1>2, <1>4
  <2> QED BY <1>2, <2>1 DEF At, Items
<1>6. /\ Offset[i - 1] \in Nat /\ Offset[i] \in Nat
      /\ Offset[i] = Offset[i - 1] + Len(code[i])
  <2>1. /\ Offset \in [0 .. L -> Nat]
        /\ \A n \in 1 .. L : Offset[n] = Offset[n - 1] + Len(code[n])
    BY ONLY ProgOK, CodeOK, OffsetSteps
  <2>2. i - 1 \in 0 .. L /\ i \in 0 .. L
    BY ONLY <1>3
  <2> HIDE DEF L
  <2> QED BY ONLY <1>3, <2>1, <2>2
<1>7. Number(x) \in Nat /\ Offset[i - 1] <= Number(x) /\ Number(x) < Offset[i]
  <2>1. x[2] \in 1 .. Len(code[i])
    BY <1>2, <1>4
  <2> QED BY <1>2, <1>4, <1>6, <2>1 DEF Number
<1>8. /\ prog.last[b] \in 0 .. L
      /\ First(b) \in 1 .. L + 1
      /\ First(b) <= i /\ i <= prog.last[b]
  BY <1>3, BlockOrder DEF Members
<1>9. First(b) - 1 \in 0 .. L /\ First(b) - 1 \in 0 .. i - 1 /\ i - 1 \in 0 .. L /\ i \in 0 .. prog.last[b]
  BY <1>3, <1>8
<1>10. /\ Offset[First(b) - 1] \in Nat /\ Offset[prog.last[b]] \in Nat
       /\ Offset[First(b) - 1] <= Offset[i - 1]
       /\ Offset[i] <= Offset[prog.last[b]]
  BY <1>8, <1>9, OffsetSteps, OffsetGrows
<1>11. Offset[First(b) - 1] <= Number(x) /\ Number(x) < Offset[prog.last[b]]
  BY <1>6, <1>7, <1>10
<1>12. x[1] \in Members(b) /\ x[1] \in 1 .. L /\ x[2] \in 1 .. Len(code[x[1]])
  BY <1>1, <1>2, <1>3, <1>4
<1> QED BY <1>2, <1>5, <1>7, <1>8, <1>9, <1>10, <1>11, <1>12

\* The numbers follow the order of the code.
LEMMA NumberOrder ==
    ASSUME ProgOK, CodeOK, NEW b \in Blocks, NEW c \in Blocks,
           NEW x \in Points(b), NEW y \in Points(c), Earlier(x, y)
    PROVE  Number(x) < Number(y)
<1>1. /\ x[1] \in 1 .. Len(prog.insts) /\ y[1] \in 1 .. Len(prog.insts)
      /\ Number(x) \in Nat /\ Number(y) \in Nat
      /\ Number(x) < Offset[x[1]] /\ Offset[y[1] - 1] <= Number(y)
      /\ x[2] \in 1 .. Len(code[x[1]]) /\ y[2] \in 1 .. Len(code[y[1]])
  BY PointFacts
<1>2. Len(prog.insts) \in Nat /\ Offset \in [0 .. Len(prog.insts) -> Nat]
  BY BlockFacts, OffsetSteps
<1>3. CASE x[1] < y[1]
  <2>1. x[1] \in 0 .. y[1] - 1 /\ y[1] - 1 \in 0 .. Len(prog.insts)
    BY <1>1, <1>2, <1>3
  <2>2. Offset[x[1]] <= Offset[y[1] - 1]
    BY <2>1, OffsetGrows
  <2>3. Offset[x[1]] \in Nat /\ Offset[y[1] - 1] \in Nat
    BY <1>1, <1>2, <2>1
  <2> QED BY <1>1, <2>2, <2>3
<1>4. CASE x[1] = y[1] /\ x[2] < y[2]
  <2>1. x[1] - 1 \in 0 .. Len(prog.insts)
    <3>1. x[1] \in 1 .. Len(prog.insts) /\ Len(prog.insts) \in Nat
      BY <1>1, <1>2
    <3> QED BY ONLY <3>1
  <2>2. Offset[x[1] - 1] \in Nat
    BY ONLY <1>2, <2>1
  <2>3. x[2] \in Int /\ y[2] \in Int
    BY <1>1
  <2>4. Number(x) = Offset[x[1] - 1] + x[2] - 1 /\ Number(y) = Offset[x[1] - 1] + y[2] - 1
    BY <1>4 DEF Number
  <2> QED BY ONLY <1>4, <2>2, <2>3, <2>4
<1> QED BY <1>3, <1>4 DEF Earlier

-----------------------------------------------------------------------------
(* The intervals and the fixed ranges.                                     *)

LiveOK == live_in \in [Blocks -> SUBSET VRegs] /\ live_out \in [Blocks -> SUBSET VRegs]

Top == 2 * Offset[Len(prog.insts)]

LEMMA BlockEnds ==
    ASSUME ProgOK, CodeOK, NEW b \in Blocks
    PROVE  /\ Top \in Nat
           /\ block_start(b) \in 0 .. Top
           /\ block_end(b) \in 0 .. Top
<1> DEFINE L == Len(prog.insts)
<1>1. L \in Nat /\ Offset \in [0 .. L -> Nat]
  BY BlockFacts, OffsetSteps
<1>2. First(b) - 1 \in 0 .. L /\ prog.last[b] \in 0 .. L /\ L \in 0 .. L
  <2>1. prog.last[b] \in 0 .. L /\ First(b) \in 1 .. L + 1
    BY BlockOrder
  <2> QED BY <1>1, <2>1
<1>3. /\ Offset[First(b) - 1] <= Offset[L] /\ Offset[prog.last[b]] <= Offset[L]
      /\ Offset[First(b) - 1] \in Nat /\ Offset[prog.last[b]] \in Nat /\ Offset[L] \in Nat
  BY <1>1, <1>2, OffsetGrows
<1>4. block_start(b) \in 0 .. Top /\ Top \in Nat
  BY <1>3 DEF block_start, Top
<1>5. CASE Points(b) = {}
  BY <1>4, <1>5 DEF block_end
<1>6. CASE Points(b) # {}
  <2>1. PICK x \in Points(b) : TRUE
    BY <1>6
  <2>2. Number(x) \in Nat /\ Number(x) < Offset[prog.last[b]]
    BY PointFacts
  <2>3. block_end(b) = 2 * Offset[prog.last[b]] - 1
    BY <1>6 DEF block_end
  <2>4. Top = 2 * Offset[L]
    BY DEF Top
  <2>5. \A n, e, t \in Nat : n < e /\ e <= t => 2 * e - 1 \in 0 .. 2 * t
    OBVIOUS
  <2> HIDE DEF L
  <2>6. 2 * Offset[prog.last[b]] - 1 \in 0 .. 2 * Offset[L]
    BY ONLY <1>3, <2>2, <2>5
  <2>7. block_end(b) \in 0 .. Top
    BY ONLY <2>3, <2>4, <2>6
  <2> QED BY <1>4, <2>7
<1> QED BY <1>4, <1>5, <1>6

LEMMA NumberBounds ==
    ASSUME ProgOK, CodeOK, NEW b \in Blocks, NEW x \in Points(b)
    PROVE  /\ Number(x) \in Nat
           /\ 2 * Number(x) \in 0 .. Top /\ 2 * Number(x) + 1 \in 0 .. Top
           /\ block_start(b) \in Nat /\ block_start(b) <= 2 * Number(x)
           /\ block_end(b) \in Nat /\ 2 * Number(x) + 1 <= block_end(b)
<1> DEFINE L == Len(prog.insts)
<1>1. /\ Number(x) \in Nat
      /\ prog.last[b] \in 0 .. L
      /\ Offset[First(b) - 1] \in Nat /\ Offset[prog.last[b]] \in Nat
      /\ Offset[First(b) - 1] <= Number(x) /\ Number(x) < Offset[prog.last[b]]
  BY PointFacts
<1>2. L \in Nat /\ L \in 0 .. L /\ Offset[L] \in Nat
  BY BlockFacts, OffsetSteps
<1>3. Offset[prog.last[b]] <= Offset[L]
  BY <1>1, <1>2, OffsetGrows
<1>4. block_end(b) = 2 * Offset[prog.last[b]] - 1
  BY DEF block_end
<1>5. Top = 2 * Offset[L] /\ block_start(b) = 2 * Offset[First(b) - 1]
  BY DEF Top, block_start
<1>6. \A n, f, e, t \in Nat : f <= n /\ n < e /\ e <= t =>
        /\ 2 * n \in 0 .. 2 * t /\ 2 * n + 1 \in 0 .. 2 * t
        /\ 2 * f \in Nat /\ 2 * f <= 2 * n
        /\ 2 * e - 1 \in Nat /\ 2 * n + 1 <= 2 * e - 1
  OBVIOUS
<1> HIDE DEF L
<1>7. /\ 2 * Number(x) \in 0 .. 2 * Offset[L] /\ 2 * Number(x) + 1 \in 0 .. 2 * Offset[L]
      /\ 2 * Offset[First(b) - 1] \in Nat /\ 2 * Offset[First(b) - 1] <= 2 * Number(x)
      /\ 2 * Offset[prog.last[b]] - 1 \in Nat
      /\ 2 * Number(x) + 1 <= 2 * Offset[prog.last[b]] - 1
  BY ONLY <1>1, <1>2, <1>3, <1>6
<1> QED BY ONLY <1>1, <1>4, <1>5, <1>7

LEMMA PositionBounds ==
    ASSUME ProgOK, CodeOK, NEW v
    PROVE  Top \in Nat /\ Positions(v) \in SUBSET (0 .. Top)
<1>1. Top \in Nat
  <2>1. 1 \in Blocks
    BY BlockFacts
  <2> QED BY <2>1, BlockEnds
<1>2. ASSUME NEW x \in AllPoints
      PROVE  2 * Number(x) \in 0 .. Top /\ 2 * Number(x) + 1 \in 0 .. Top
  <2>1. PICK b \in Blocks : x \in Points(b)
    BY DEF AllPoints
  <2> QED BY <2>1, NumberBounds
<1>3. \A b \in Blocks : block_start(b) \in 0 .. Top /\ block_end(b) \in 0 .. Top
  BY BlockEnds
<1> HIDE DEF Top
<1>4. {2 * Number(x) : x \in {y \in AllPoints : v \in Reads(y)}} \subseteq 0 .. Top
  BY <1>2
<1>5. {2 * Number(x) + 1 : x \in {y \in AllPoints : At(y).def = v}} \subseteq 0 .. Top
  BY <1>2
<1> QED BY <1>1, <1>3, <1>4, <1>5 DEF Positions

LEMMA MinIsLeast ==
    ASSUME NEW N \in Nat, NEW S \in SUBSET (0 .. N), S # {}
    PROVE  Min(S) \in S /\ \A k \in S : Min(S) <= k
<1>1. S \in SUBSET Nat
  OBVIOUS
<1>2. PICK m \in S : \A k \in S : m <= k
  BY <1>1, LeastNat
<1> QED BY <1>2 DEF Min

\* What an interval has to contain.
Covers(v) ==
    \A p \in Positions(v) : iv[v].end # NONE /\ iv[v].start <= p /\ p <= iv[v].end

\* What the fixed ranges of r have to contain: from a write to each read
\* that no write separates from it, and from the start of the block to a
\* read that no write of the block comes before.
FixedCovers(r) ==
    \A b \in Blocks : \A y \in Points(b) :
        /\ r \in At(y).kills =>
              \E f \in fixed[r] : f.from <= 2 * Number(y) + 1 /\ 2 * Number(y) + 1 <= f.to
        /\ r \in At(y).uses =>
             /\ \A x \in Points(b) :
                   /\ r \in At(x).kills /\ Earlier(x, y)
                   /\ \A z \in Points(b) : Earlier(x, z) /\ Earlier(z, y) => r \notin At(z).kills
                   => \E f \in fixed[r] : f.from <= 2 * Number(x) + 1 /\ 2 * Number(y) <= f.to
             /\ (\A z \in Points(b) : Earlier(z, y) => r \notin At(z).kills)
                   => \E f \in fixed[r] : f.from <= block_start(b) /\ 2 * Number(y) <= f.to

\* The writes and the reads of register r in block b.
WritesOf(r, b) == {2 * Number(x) + 1 : x \in {y \in Points(b) : r \in At(y).kills}}
ReadsOf(r, b)  == {2 * Number(x) : x \in {y \in Points(b) : r \in At(y).uses}}
UntilOf(r, b, w) ==
    {p \in ReadsOf(r, b) : p > w /\ ~ \E q \in WritesOf(r, b) : w < q /\ q < p}
EntryOf(r, b) == {p \in ReadsOf(r, b) : ~ \E q \in WritesOf(r, b) : q < p}

LEMMA RangeParts ==
    ASSUME ProgOK, CodeOK, NEW b \in Blocks, NEW r
    PROVE  /\ Top \in Nat
           /\ WritesOf(r, b) \in SUBSET (0 .. Top)
           /\ ReadsOf(r, b) \in SUBSET (0 .. Top)
           /\ \A w \in WritesOf(r, b) :
                 LET m == Max({w} \cup UntilOf(r, b, w))
                 IN  /\ [from |-> w, to |-> m] \in BlockRanges(r, b)
                     /\ m \in 0 .. Top /\ w <= m
                     /\ \A p \in UntilOf(r, b, w) : p <= m
           /\ EntryOf(r, b) # {} =>
                 LET m == Max(EntryOf(r, b))
                 IN  /\ [from |-> block_start(b), to |-> m] \in BlockRanges(r, b)
                     /\ m \in 0 .. Top
                     /\ \A p \in EntryOf(r, b) : p <= m
           /\ BlockRanges(r, b) \subseteq FixedRange
<1>1. Top \in Nat /\ block_start(b) \in 0 .. Top
  BY BlockEnds
<1>2. \A x \in Points(b) : 2 * Number(x) \in 0 .. Top /\ 2 * Number(x) + 1 \in 0 .. Top
  BY NumberBounds
<1> HIDE DEF Top
<1>3. WritesOf(r, b) \in SUBSET (0 .. Top)
  BY <1>2 DEF WritesOf
<1>4. ReadsOf(r, b) \in SUBSET (0 .. Top)
  BY <1>2 DEF ReadsOf
<1> DEFINE W == WritesOf(r, b)
           U(w) == UntilOf(r, b, w)
           E == EntryOf(r, b)
           M(w) == Max({w} \cup U(w))
<1>5. BlockRanges(r, b) = {[from |-> w, to |-> M(w)] : w \in W}
                            \cup (IF E = {} THEN {}
                                  ELSE {[from |-> block_start(b), to |-> Max(E)]})
  BY DEF BlockRanges, WritesOf, ReadsOf, UntilOf, EntryOf
<1>6. \A w \in W : U(w) \subseteq 0 .. Top
  BY <1>4 DEF UntilOf
<1>7. E \in SUBSET (0 .. Top)
  BY <1>4 DEF EntryOf
<1> HIDE DEF W, U, E
<1>8. ASSUME NEW w \in W
      PROVE  M(w) \in 0 .. Top /\ w <= M(w) /\ \A p \in U(w) : p <= M(w)
  <2> DEFINE S == {w} \cup U(w)
  <2>1. S \in SUBSET (0 .. Top) /\ S # {} /\ w \in S /\ U(w) \subseteq S
    BY <1>3, <1>6 DEF W
  <2> HIDE DEF S
  <2>2. Max(S) \in S /\ \A k \in S : k <= Max(S)
    BY <1>1, <2>1, MaxIsLargest
  <2> QED BY <2>1, <2>2 DEF S
<1>9. E # {} => Max(E) \in 0 .. Top /\ \A p \in E : p <= Max(E)
  BY <1>1, <1>7, MaxIsLargest
<1> HIDE DEF M
<1>10. \A w \in W : [from |-> w, to |-> M(w)] \in FixedRange
  BY <1>1, <1>3, <1>8 DEF FixedRange, W
<1>11. E # {} => [from |-> block_start(b), to |-> Max(E)] \in FixedRange
  BY <1>1, <1>9 DEF FixedRange
<1>12. BlockRanges(r, b) \subseteq FixedRange
  BY <1>5, <1>10, <1>11
<1>13. \A w \in W : [from |-> w, to |-> M(w)] \in BlockRanges(r, b)
  BY <1>5
<1>14. E # {} => [from |-> block_start(b), to |-> Max(E)] \in BlockRanges(r, b)
  BY <1>5
<1> QED BY <1>1, <1>3, <1>4, <1>8, <1>9, <1>12, <1>13, <1>14 DEF W, U, E, M

\* The ranges that build_intervals computes cover what they have to.
LEMMA RangesCover ==
    ASSUME ProgOK, CodeOK, NEW b \in Blocks, NEW y \in Points(b), NEW r,
           NEW F, BlockRanges(r, b) \subseteq F
    PROVE  /\ r \in At(y).kills =>
                \E f \in F : f.from <= 2 * Number(y) + 1 /\ 2 * Number(y) + 1 <= f.to
           /\ r \in At(y).uses =>
             /\ \A x \in Points(b) :
                   /\ r \in At(x).kills /\ Earlier(x, y)
                   /\ \A z \in Points(b) : Earlier(x, z) /\ Earlier(z, y) => r \notin At(z).kills
                   => \E f \in F : f.from <= 2 * Number(x) + 1 /\ 2 * Number(y) <= f.to
             /\ (\A z \in Points(b) : Earlier(z, y) => r \notin At(z).kills)
                   => \E f \in F : f.from <= block_start(b) /\ 2 * Number(y) <= f.to
<1>1. \A z \in Points(b) : Number(z) \in Nat
  BY NumberBounds
<1>2. \A w, z \in Points(b) : Number(w) < Number(z) => Earlier(w, z)
  <2> SUFFICES ASSUME NEW w \in Points(b), NEW z \in Points(b),
                      Number(w) < Number(z), ~ Earlier(w, z)
               PROVE  FALSE
    OBVIOUS
  <2>1. /\ w = <<w[1], w[2]>> /\ z = <<z[1], z[2]>>
        /\ w[1] \in 1 .. Len(prog.insts) /\ z[1] \in 1 .. Len(prog.insts)
        /\ w[2] \in 1 .. Len(code[w[1]]) /\ z[2] \in 1 .. Len(code[z[1]])
    BY PointFacts
  <2>2. CASE w = z
    BY <1>1, <2>2
  <2>3. CASE w # z
    <3>1. w[1] # z[1] \/ w[2] # z[2]
      BY <2>1, <2>3
    <3>2. Earlier(z, w)
      BY <2>1, <3>1 DEF Earlier
    <3>3. Number(z) < Number(w)
      BY <3>2, NumberOrder
    <3> QED BY <1>1, <3>3
  <2> QED BY <2>2, <2>3
<1>3. ASSUME r \in At(y).kills
      PROVE  \E f \in F : f.from <= 2 * Number(y) + 1 /\ 2 * Number(y) + 1 <= f.to
  <2> DEFINE w == 2 * Number(y) + 1
             m == Max({w} \cup UntilOf(r, b, w))
  <2>1. w \in WritesOf(r, b)
    BY <1>3 DEF WritesOf
  <2>2. [from |-> w, to |-> m] \in BlockRanges(r, b) /\ w <= m
    BY <2>1, RangeParts
  <2>3. w <= w
    BY <1>1
  <2> HIDE DEF m, w
  <2>4. \E f \in F : f.from <= w /\ w <= f.to
    BY <2>2, <2>3
  <2> QED BY <2>4 DEF w
<1>4. ASSUME r \in At(y).uses, NEW x \in Points(b), r \in At(x).kills, Earlier(x, y),
             \A z \in Points(b) : Earlier(x, z) /\ Earlier(z, y) => r \notin At(z).kills
      PROVE  \E f \in F : f.from <= 2 * Number(x) + 1 /\ 2 * Number(y) <= f.to
  <2> DEFINE w == 2 * Number(x) + 1
             m == Max({w} \cup UntilOf(r, b, w))
             p == 2 * Number(y)
  <2>1. w \in WritesOf(r, b) /\ p \in ReadsOf(r, b)
    BY <1>4 DEF WritesOf, ReadsOf
  <2>2. Number(x) < Number(y)
    BY <1>4, NumberOrder
  <2>3. p > w /\ w <= w
    BY <1>1, <2>2
  <2>4. ASSUME NEW q \in WritesOf(r, b), w < q, q < p PROVE FALSE
    <3>1. PICK z \in Points(b) : q = 2 * Number(z) + 1 /\ r \in At(z).kills
      BY DEF WritesOf
    <3>2. Number(x) < Number(z) /\ Number(z) < Number(y)
      BY <1>1, <2>4, <3>1
    <3> QED BY <1>2, <1>4, <3>1, <3>2
  <2>5. p \in UntilOf(r, b, w)
    BY <2>1, <2>3, <2>4 DEF UntilOf
  <2>6. [from |-> w, to |-> m] \in BlockRanges(r, b) /\ p <= m
    BY <2>1, <2>5, RangeParts
  <2> HIDE DEF m, w, p
  <2>7. \E f \in F : f.from <= w /\ p <= f.to
    BY <2>3, <2>6
  <2> QED BY <2>7 DEF w, p
<1>5. ASSUME r \in At(y).uses,
             \A z \in Points(b) : Earlier(z, y) => r \notin At(z).kills
      PROVE  \E f \in F : f.from <= block_start(b) /\ 2 * Number(y) <= f.to
  <2> DEFINE p == 2 * Number(y)
             m == Max(EntryOf(r, b))
             s == block_start(b)
  <2>1. p \in ReadsOf(r, b)
    BY <1>5 DEF ReadsOf
  <2>2. ASSUME NEW q \in WritesOf(r, b), q < p PROVE FALSE
    <3>1. PICK z \in Points(b) : q = 2 * Number(z) + 1 /\ r \in At(z).kills
      BY DEF WritesOf
    <3>2. Number(z) < Number(y)
      BY <1>1, <2>2, <3>1
    <3> QED BY <1>2, <1>5, <3>1, <3>2
  <2>3. p \in EntryOf(r, b)
    BY <2>1, <2>2 DEF EntryOf
  <2>4. [from |-> s, to |-> m] \in BlockRanges(r, b) /\ p <= m
    BY <2>3, RangeParts
  <2>5. s <= s
    BY NumberBounds
  <2> HIDE DEF m, p, s
  <2>6. \E f \in F : f.from <= s /\ p <= f.to
    BY <2>4, <2>5
  <2> QED BY <2>6 DEF s, p
<1> QED BY <1>3, <1>4, <1>5

\* Nothing after build_intervals changes what it was computed from.
LEMMA SameNumbers ==
    ASSUME prog' = prog, code' = code
    PROVE  /\ Blocks' = Blocks /\ Idx' = Idx /\ Items' = Items
           /\ ProgOK' = ProgOK /\ CodeOK' = CodeOK
           /\ \A b : Points(b)' = Points(b)
           /\ \A x : At(x)' = At(x) /\ Reads(x)' = Reads(x) /\ Number(x)' = Number(x)
           /\ \A b : block_start(b)' = block_start(b) /\ block_end(b)' = block_end(b)
<1>1. /\ Blocks' = Blocks /\ Idx' = Idx /\ Items' = Items
      /\ ProgOK' = ProgOK /\ CodeOK' = CodeOK
  BY DEF Idx, Items, SafeInsts, Blocks, ProgOK, CodeOK
<1>2. \A b : Points(b)' = Points(b)
  BY DEF Points, Members, First
<1>3. \A x : At(x)' = At(x) /\ Reads(x)' = Reads(x)
  BY DEF At, Reads
<1>4. Offset' = Offset
  BY DEF Offset
<1>5. \A x : Number(x)' = Number(x)
  BY <1>4 DEF Number
<1>6. \A b : block_start(b)' = block_start(b) /\ block_end(b)' = block_end(b)
  BY <1>2, <1>4 DEF block_start, block_end, First
<1> QED BY <1>1, <1>2, <1>3, <1>5, <1>6

LEMMA SamePositions ==
    ASSUME prog' = prog, code' = code, live_in' = live_in, live_out' = live_out
    PROVE  \A v : Positions(v)' = Positions(v)
<1>1. /\ Blocks' = Blocks
      /\ \A b : Points(b)' = Points(b)
      /\ \A x : At(x)' = At(x) /\ Reads(x)' = Reads(x) /\ Number(x)' = Number(x)
      /\ \A b : block_start(b)' = block_start(b) /\ block_end(b)' = block_end(b)
  BY SameNumbers
<1>2. AllPoints' = AllPoints
  BY <1>1 DEF AllPoints
<1> QED BY <1>1, <1>2 DEF Positions

\* build_intervals hands the scan intervals and ranges that cover the code.
LEMMA BuiltCovers ==
    ASSUME ProgOK, CodeOK, LiveOK, BuildIntervals
    PROVE  /\ \A v \in VRegs : /\ iv'[v].start \in Nat
                               /\ iv'[v].end \in Nat \cup {NONE}
                               /\ iv'[v].fp = IsFloat(v)
           /\ \A v \in VRegs : Covers(v)'
           /\ left' = {v \in VRegs : iv'[v].end # NONE}
           /\ fixed' \in [Pregs -> SUBSET FixedRange]
           /\ \A r \in Pregs : FixedCovers(r)'
<1>1. /\ UNCHANGED <<prog, code, live_in, live_out>>
      /\ left' = {v \in VRegs : Positions(v) # {}}
      /\ fixed' = [r \in Pregs |-> UNION {BlockRanges(r, b) : b \in Blocks}]
  BY DEF BuildIntervals, liveVars
<1>2. \A v \in VRegs :
         /\ iv'[v].start = IF Positions(v) = {} THEN 0 ELSE Min(Positions(v))
         /\ iv'[v].end = IF Positions(v) = {} THEN NONE ELSE Max(Positions(v))
         /\ iv'[v].fp = IsFloat(v)
  BY DEF BuildIntervals
<1>3. \A v : Positions(v)' = Positions(v)
  BY <1>1, SamePositions
<1>4. ASSUME NEW v \in VRegs
      PROVE  /\ iv'[v].start \in Nat
             /\ iv'[v].end \in Nat \cup {NONE}
             /\ iv'[v].end = NONE <=> Positions(v) = {}
             /\ \A p \in Positions(v) : iv'[v].start <= p /\ p <= iv'[v].end
  <2>1. Top \in Nat /\ Positions(v) \in SUBSET (0 .. Top)
    BY PositionBounds
  <2> HIDE DEF Top
  <2>2. CASE Positions(v) = {}
    BY <1>2, <2>2
  <2>3. CASE Positions(v) # {}
    <3>1. /\ Min(Positions(v)) \in 0 .. Top
          /\ \A k \in Positions(v) : Min(Positions(v)) <= k
      BY <2>1, <2>3, MinIsLeast
    <3>2. /\ Max(Positions(v)) \in 0 .. Top
          /\ \A k \in Positions(v) : k <= Max(Positions(v))
      BY <2>1, <2>3, MaxIsLargest
    <3>3. iv'[v].start = Min(Positions(v)) /\ iv'[v].end = Max(Positions(v))
      BY <1>2, <2>3
    <3> QED BY <2>1, <2>3, <3>1, <3>2, <3>3 DEF NONE
  <2> QED BY <2>2, <2>3
<1>5. \A v \in VRegs : Covers(v)'
  BY <1>3, <1>4 DEF Covers
<1>6. left' = {v \in VRegs : iv'[v].end # NONE}
  BY <1>1, <1>4
<1>7. fixed' \in [Pregs -> SUBSET FixedRange]
  <2>1. \A r \in Pregs : \A b \in Blocks : BlockRanges(r, b) \subseteq FixedRange
    BY RangeParts
  <2>2. \A r \in Pregs : UNION {BlockRanges(r, b) : b \in Blocks} \subseteq FixedRange
    BY <2>1
  <2> QED BY <1>1, <2>2
<1>8. ASSUME NEW r \in Pregs PROVE FixedCovers(r)'
  <2>1. \A b \in Blocks : BlockRanges(r, b) \subseteq fixed'[r]
    <3>1. fixed'[r] = UNION {BlockRanges(r, b) : b \in Blocks}
      BY <1>1
    <3> QED BY <3>1
  <2>2. /\ Blocks' = Blocks
        /\ \A b : Points(b)' = Points(b)
        /\ \A x : At(x)' = At(x) /\ Number(x)' = Number(x)
        /\ \A b : block_start(b)' = block_start(b)
    BY <1>1, SameNumbers
  <2> DEFINE F == fixed'[r]
  <2>3. ASSUME NEW b \in Blocks, NEW y \in Points(b)
        PROVE  /\ r \in At(y).kills =>
                    \E f \in F : f.from <= 2 * Number(y) + 1 /\ 2 * Number(y) + 1 <= f.to
               /\ r \in At(y).uses =>
                 /\ \A x \in Points(b) :
                       /\ r \in At(x).kills /\ Earlier(x, y)
                       /\ \A z \in Points(b) :
                             Earlier(x, z) /\ Earlier(z, y) => r \notin At(z).kills
                       => \E f \in F : f.from <= 2 * Number(x) + 1 /\ 2 * Number(y) <= f.to
                 /\ (\A z \in Points(b) : Earlier(z, y) => r \notin At(z).kills)
                       => \E f \in F : f.from <= block_start(b) /\ 2 * Number(y) <= f.to
    <3>1. BlockRanges(r, b) \subseteq F
      BY <2>1
    <3> HIDE DEF F
    <3> QED BY <3>1, RangesCover
  <2> QED BY <2>2, <2>3 DEF FixedCovers, Earlier
<1> QED BY <1>2, <1>4, <1>5, <1>6, <1>7, <1>8

-----------------------------------------------------------------------------
(* The scan as a phase of the allocation.                                  *)

Planned == {"select", "live", "intervals"}

\* Before the scan nothing has a place; from then on the invariant of the
\* scan holds, over intervals and ranges that cover the code.
PlaceInv ==
    /\ LiveInv
    /\ SavesInv
    /\ phase \in {"select", "live", "intervals", "scan", "run", "refused", "end"}
    /\ phase \in {"live", "intervals"} => code = [i \in Idx |-> Rebuilt(i)]
    /\ phase \in Planned =>
          /\ active = {}
          /\ preg = [v \in VRegs |-> NONE]
          /\ slot = [v \in VRegs |-> NONE]
          /\ \A v \in VRegs : iv[v].end = NONE
    /\ phase \notin Planned =>
          /\ ScanInv
          /\ code = [i \in Idx |-> Rebuilt(i)]
          /\ \A b \in Blocks : Solved(b)
          /\ \A v \in VRegs : Covers(v) /\ iv[v].fp = IsFloat(v)
          /\ \A r \in Pregs : FixedCovers(r)
          /\ phase # "scan" => left = {}

LEMMA SameRebuilt ==
    ASSUME prog' = prog
    PROVE  /\ Replacements' = Replacements
           /\ \A i, j : Made(i, j)' = Made(i, j)
           /\ \A i : Rebuilt(i)' = Rebuilt(i)
           /\ \A v : IsFloat(v)' = IsFloat(v)
<1>1. Replacements' = Replacements
  BY DEF Replacements, Replaced, Idx, Inst, many, Defs, definition, Entry,
         defines_constant
<1>2. \A i, j : Made(i, j)' = Made(i, j)
  BY <1>1 DEF Made
<1>3. \A i : Rebuilt(i)' = Rebuilt(i)
  BY DEF Rebuilt, Dropped, Copies, Kept, CopyFor, Made, Replacements, Replaced,
         Idx, Inst, many, Defs, definition, Entry, defines_constant
<1>4. \A v : IsFloat(v)' = IsFloat(v)
  BY <1>1, <1>2 DEF IsFloat, Inst
<1> QED BY <1>1, <1>2, <1>3, <1>4

\* What the phases after build_intervals leave alone.
LEMMA SamePlaces ==
    ASSUME UNCHANGED <<prog, code, live_in, live_out, iv, fixed>>
    PROVE  /\ \A b \in Blocks : Solved(b) <=> Solved(b)'
           /\ \A v : Covers(v) <=> Covers(v)'
           /\ \A r : FixedCovers(r) <=> FixedCovers(r)'
           /\ Blocks' = Blocks /\ Idx' = Idx
           /\ \A i : Rebuilt(i)' = Rebuilt(i)
           /\ \A v : IsFloat(v)' = IsFloat(v)
<1>1. /\ Blocks' = Blocks /\ Idx' = Idx
      /\ \A b : Points(b)' = Points(b)
      /\ \A x : At(x)' = At(x) /\ Number(x)' = Number(x)
      /\ \A b : block_start(b)' = block_start(b)
  BY SameNumbers
<1>2. \A v : Positions(v)' = Positions(v)
  BY SamePositions
<1>3. \A v : Covers(v) <=> Covers(v)'
  BY <1>2 DEF Covers
<1>4. \A r : FixedCovers(r) <=> FixedCovers(r)'
  BY <1>1 DEF FixedCovers, Earlier
<1>5. \A b : use(b)' = use(b) /\ def(b)' = def(b) /\ successors(b)' = successors(b)
  BY SameFlow
<1>6. \A b \in Blocks : Solved(b) <=> Solved(b)'
  BY <1>5 DEF Solved
<1> QED BY <1>1, <1>3, <1>4, <1>6, SameRebuilt

LEMMA PlaceInit ==
    ASSUME AllocInit PROVE PlaceInv
<1>1. LiveInv /\ SavesInv
  BY LiveInit, SavesInit
<1>2. \A v \in VRegs : iv[v].end = NONE
  BY DEF AllocInit
<1> QED BY <1>1, <1>2 DEF AllocInit, ScanInit, PlaceInv, Planned

\* The scan starts with nothing placed.
LEMMA PlaceBuild ==
    ASSUME PlaceInv, BuildIntervals PROVE PlaceInv'
<1>1. LiveInv' /\ SavesInv'
  BY LiveNext, SavesNext DEF PlaceInv, AllocNext
<1>2. /\ phase = "intervals" /\ phase' = "scan"
      /\ UNCHANGED <<prog, code, live_in, live_out, active, preg, slot>>
  BY DEF BuildIntervals, liveVars
<1>3. ProgOK /\ CodeOK /\ LiveOK
  BY DEF PlaceInv, SavesInv, LiveInv, CodeOK, LiveOK
<1>4. /\ \A v \in VRegs : /\ iv'[v].start \in Nat
                          /\ iv'[v].end \in Nat \cup {NONE}
                          /\ iv'[v].fp = IsFloat(v)
      /\ \A v \in VRegs : Covers(v)'
      /\ left' = {v \in VRegs : iv'[v].end # NONE}
      /\ fixed' \in [Pregs -> SUBSET FixedRange]
      /\ \A r \in Pregs : FixedCovers(r)'
  BY <1>3, BuiltCovers
<1>5. /\ active' = {}
      /\ preg' = [v \in VRegs |-> NONE]
      /\ slot' = [v \in VRegs |-> NONE]
  BY <1>2 DEF PlaceInv, Planned
<1>6. \A v \in VRegs : IsFloat(v) \in BOOLEAN
  BY DEF IsFloat
<1>7. ScanType'
  BY <1>4, <1>5, <1>6 DEF ScanType
<1>8. LeftOK' /\ ActiveOK' /\ PassedOK' /\ SlotOK'
  BY <1>4, <1>5 DEF LeftOK, ActiveOK, PassedOK, SlotOK
<1>9. NoSharing' /\ FixedRespected' /\ PlacedOnce'
  BY <1>4, <1>5 DEF NoSharing, FixedRespected, PlacedOnce
<1>10. ScanInv'
  BY <1>7, <1>8, <1>9 DEF ScanInv
<1>11. code' = [i \in Idx' |-> Rebuilt(i)']
  <2>1. Idx' = Idx /\ \A i : Rebuilt(i)' = Rebuilt(i)
    BY <1>2, SameNumbers, SameRebuilt
  <2> QED BY <1>2, <2>1 DEF PlaceInv
<1>12. \A b \in Blocks' : Solved(b)'
  <2>1. \A b : use(b)' = use(b) /\ def(b)' = def(b) /\ successors(b)' = successors(b)
    BY <1>2, SameFlow
  <2>2. \A b \in Blocks : Solved(b)
    BY <1>2 DEF PlaceInv, LiveInv
  <2>3. Blocks' = Blocks
    BY <1>2 DEF Blocks
  <2> QED BY <1>2, <2>1, <2>2, <2>3 DEF Solved
<1>13. \A v \in VRegs : (iv[v].fp)' = IsFloat(v)'
  BY <1>2, <1>4, SameRebuilt
<1> QED BY <1>1, <1>2, <1>4, <1>10, <1>11, <1>12, <1>13 DEF PlaceInv, Planned

LEMMA PlaceNext ==
    ASSUME PlaceInv, [AllocNext]_allVars PROVE PlaceInv'
<1>1. LiveInv' /\ SavesInv'
  BY LiveNext, SavesNext DEF PlaceInv
<1>2. CASE Rematerialise
  <2>1. /\ phase = "select" /\ phase' = "live"
        /\ code' = [i \in Idx |-> Rebuilt(i)]
        /\ UNCHANGED <<prog, active, preg, slot, iv>>
    BY <1>2 DEF Rematerialise, scanVars, rangeVars
  <2>2. Idx' = Idx /\ \A i : Rebuilt(i)' = Rebuilt(i)
    BY <2>1, SameRebuilt DEF Idx
  <2>3. code' = [i \in Idx' |-> Rebuilt(i)']
    BY <2>1, <2>2
  <2> QED BY <1>1, <2>1, <2>3 DEF PlaceInv, Planned
<1>3. CASE LiveBlock
  <2>1. /\ phase = "live" /\ phase' \in {"live", "intervals"}
        /\ UNCHANGED <<prog, code, active, preg, slot, iv>>
    BY <1>3 DEF LiveBlock, scanVars, rangeVars
  <2>2. Idx' = Idx /\ \A i : Rebuilt(i)' = Rebuilt(i)
    BY <2>1, SameRebuilt DEF Idx
  <2>3. code' = [i \in Idx' |-> Rebuilt(i)']
    BY <2>1, <2>2 DEF PlaceInv
  <2> QED BY <1>1, <2>1, <2>3 DEF PlaceInv, Planned
<1>4. CASE BuildIntervals
  BY <1>4, PlaceBuild
<1>5. CASE Scan
  <2>1. /\ phase = "scan" /\ phase' = "scan"
        /\ ScanStep
        /\ UNCHANGED <<prog, code, live_in, live_out, iv, fixed>>
        /\ UNCHANGED rangeVars
    BY <1>5 DEF Scan, liveVars, rangeVars
  <2>2. ScanInv'
    BY <2>1, ScanInductive DEF Next, PlaceInv, Planned
  <2>3. /\ \A b \in Blocks : Solved(b) <=> Solved(b)'
        /\ \A v : Covers(v) <=> Covers(v)'
        /\ \A r : FixedCovers(r) <=> FixedCovers(r)'
        /\ Blocks' = Blocks /\ Idx' = Idx
        /\ \A i : Rebuilt(i)' = Rebuilt(i)
        /\ \A v : IsFloat(v)' = IsFloat(v)
    BY <2>1, SamePlaces
  <2>4. code' = [i \in Idx' |-> Rebuilt(i)']
    BY <2>1, <2>3 DEF PlaceInv, Planned
  <2>5. /\ \A b \in Blocks : Solved(b)
        /\ \A v \in VRegs : Covers(v) /\ iv[v].fp = IsFloat(v)
        /\ \A r \in Pregs : FixedCovers(r)
    BY <2>1 DEF PlaceInv, Planned
  <2> QED BY <1>1, <2>1, <2>2, <2>3, <2>4, <2>5 DEF PlaceInv, Planned
<1>6. CASE LayoutFrame \/ RunCopy \/ RunInst \/ RunRet
  <2>1. /\ phase \notin Planned
        /\ phase' \in {"run", "refused", "end"}
        /\ left = {}
        /\ UNCHANGED <<prog, code, live_in, live_out, iv, fixed>>
        /\ UNCHANGED vars
    BY <1>6 DEF LayoutFrame, RunCopy, RunInst, RunRet, Running, liveVars, rangeVars,
                scanVars, vars, Planned, PlaceInv
  <2>2. ScanInv' /\ left' = {}
    BY <2>1, ScanInductive DEF PlaceInv, vars, scanVars
  <2>3. /\ \A b \in Blocks : Solved(b) <=> Solved(b)'
        /\ \A v : Covers(v) <=> Covers(v)'
        /\ \A r : FixedCovers(r) <=> FixedCovers(r)'
        /\ Blocks' = Blocks /\ Idx' = Idx
        /\ \A i : Rebuilt(i)' = Rebuilt(i)
        /\ \A v : IsFloat(v)' = IsFloat(v)
    BY <2>1, SamePlaces
  <2>4. code' = [i \in Idx' |-> Rebuilt(i)']
    BY <2>1, <2>3 DEF PlaceInv
  <2>5. /\ \A b \in Blocks : Solved(b)
        /\ \A v \in VRegs : Covers(v) /\ iv[v].fp = IsFloat(v)
        /\ \A r \in Pregs : FixedCovers(r)
    BY <2>1 DEF PlaceInv
  <2> QED BY <1>1, <2>1, <2>2, <2>3, <2>4, <2>5 DEF PlaceInv, Planned
<1>7. CASE UNCHANGED allVars
  <2>1. /\ UNCHANGED <<prog, code, live_in, live_out, iv, fixed>>
        /\ UNCHANGED vars
        /\ UNCHANGED <<phase, active, preg, slot, left>>
    BY <1>7 DEF allVars, liveVars, rangeVars, scanVars, vars
  <2>2. phase \notin Planned => ScanInv'
    BY <2>1, ScanInductive DEF PlaceInv
  <2>3. /\ \A b \in Blocks : Solved(b) <=> Solved(b)'
        /\ \A v : Covers(v) <=> Covers(v)'
        /\ \A r : FixedCovers(r) <=> FixedCovers(r)'
        /\ Blocks' = Blocks /\ Idx' = Idx
        /\ \A i : Rebuilt(i)' = Rebuilt(i)
        /\ \A v : IsFloat(v)' = IsFloat(v)
    BY <2>1, SamePlaces
  <2>4. phase # "select" => code' = [i \in Idx' |-> Rebuilt(i)']
    BY <2>1, <2>3 DEF PlaceInv, Planned
  <2>5. phase \notin Planned =>
           /\ \A b \in Blocks : Solved(b)
           /\ \A v \in VRegs : Covers(v) /\ iv[v].fp = IsFloat(v)
           /\ \A r \in Pregs : FixedCovers(r)
    BY DEF PlaceInv
  <2> QED BY <1>1, <2>1, <2>2, <2>3, <2>4, <2>5 DEF PlaceInv, Planned
<1> QED BY <1>2, <1>3, <1>4, <1>5, <1>6, <1>7 DEF AllocNext

LEMMA PlaceInvariant == AllocSpec => []PlaceInv
<1>1. AllocInit => PlaceInv
  BY PlaceInit
<1>2. PlaceInv /\ [AllocNext]_allVars => PlaceInv'
  BY PlaceNext
<1> QED BY <1>1, <1>2, PTL DEF AllocSpec

LEMMA PlaceSafe ==
    ASSUME PlaceInv PROVE NoSharing /\ FixedRespected /\ PlacedOnce
<1>1. CASE phase \in Planned
  BY <1>1 DEF PlaceInv, NoSharing, FixedRespected, PlacedOnce
<1>2. CASE phase \notin Planned
  BY <1>2 DEF PlaceInv, ScanInv
<1> QED BY <1>1, <1>2

\* In the whole of regalloc_function, over the intervals that it computes
\* itself, no two values that live at one position share a register.
THEOREM AllocationNoSharing == AllocSpec => []NoSharing
<1>1. PlaceInv => NoSharing
  BY PlaceSafe
<1> QED BY <1>1, PlaceInvariant, PTL

\* A value gets only registers of its own class that no instruction names
\* and no call overwrites in its interval.
THEOREM AllocationRespectsFixed == AllocSpec => []FixedRespected
<1>1. PlaceInv => FixedRespected
  BY PlaceSafe
<1> QED BY <1>1, PlaceInvariant, PTL

\* Every virtual register of the function has one place: a register or a
\* spill slot of its own.
THEOREM AllocationPlacesOnce == AllocSpec => []PlacedOnce
<1>1. PlaceInv => PlacedOnce
  BY PlaceSafe
<1> QED BY <1>1, PlaceInvariant, PTL

-----------------------------------------------------------------------------
(* One rewritten instruction on its registers and slots.                   *)

Scratch == {scratch[fp][n] : fp \in BOOLEAN, n \in {1, 2}}

\* Where the rewritten code keeps v.
Loc(v) == IF Spilled(v) THEN after.slot[slot[v]] ELSE after.preg[preg[v]]

\* The scan has placed everything.
Placed ==
    /\ PlaceInv
    /\ phase \notin Planned
    /\ left = {}
    /\ DOMAIN after.slot = 0 .. Cardinality(VRegs) - 1

TwoPerClass(inst) ==
    \A j, k, m \in DOMAIN inst.reads : j < k /\ k < m =>
        ~ (/\ iv[inst.reads[j].v].fp = iv[inst.reads[k].v].fp
           /\ iv[inst.reads[k].v].fp = iv[inst.reads[m].v].fp)

LEMMA PlaceFacts ==
    ASSUME Placed, NEW v \in VRegs
    PROVE  /\ Spilled(v) => slot[v] \in DOMAIN after.slot
           /\ preg[v] # NONE => preg[v] \in Pregs /\ preg[v] \notin Scratch
           /\ iv[v].fp \in BOOLEAN
           /\ \A u \in VRegs : Spilled(v) /\ slot[u] = slot[v] => u = v
           /\ Positions(v) # {} => Spilled(v) \/ preg[v] # NONE
<1>1. ScanInv
  BY DEF Placed, PlaceInv
<1>2. Spilled(v) => slot[v] \in DOMAIN after.slot
  <2> SUFFICES ASSUME Spilled(v) PROVE slot[v] \in DOMAIN after.slot
    OBVIOUS
  <2>1. slot[v] \in Nat /\ slot[v] < NewSlot
    BY <1>1 DEF Spilled, ScanInv, ScanType, SlotOK
  <2>2. /\ IsFiniteSet(VRegs) /\ Cardinality(VRegs) \in Nat
        /\ Cardinality({u \in VRegs : slot[u] # NONE}) <= Cardinality(VRegs)
        /\ Cardinality({u \in VRegs : slot[u] # NONE}) \in Nat
    <3> DEFINE S == {u \in VRegs : slot[u] # NONE}
    <3>1. S \subseteq VRegs /\ IsFiniteSet(VRegs)
      BY RegisterAssumption
    <3> HIDE DEF S
    <3>2. IsFiniteSet(S) /\ Cardinality(S) <= Cardinality(VRegs)
      BY <3>1, FS_Subset
    <3> QED BY <3>1, <3>2, FS_CardinalityType DEF S
  <2> QED BY <2>1, <2>2 DEF NewSlot, Placed
<1>3. iv[v].fp \in BOOLEAN
  BY <1>1 DEF ScanInv, ScanType
<1>4. ASSUME preg[v] # NONE PROVE preg[v] \in Pregs /\ preg[v] \notin Scratch
  <2>1. preg[v] \in Pregs
    BY <1>1, <1>4 DEF ScanInv, ScanType
  <2>2. is_allocatable(v, preg[v])
    BY <1>1, <1>4 DEF ScanInv, FixedRespected
  <2>3. PICK i \in DOMAIN allocatable[iv[v].fp] : allocatable[iv[v].fp][i] = preg[v]
    BY <2>2 DEF is_allocatable, class_registers
  <2>4. \A fp \in BOOLEAN : \A n \in {1, 2} : scratch[fp][n] # preg[v]
    BY <1>3, <2>3, ConventionAssumption
  <2> QED BY <2>1, <2>4 DEF Scratch
<1>5. \A u \in VRegs : Spilled(v) /\ slot[u] = slot[v] => u = v
  BY <1>1 DEF ScanInv, PlacedOnce, Spilled
<1>6. ASSUME Positions(v) # {} PROVE Spilled(v) \/ preg[v] # NONE
  <2>1. PICK p \in Positions(v) : TRUE
    BY <1>6
  <2>2. Covers(v)
    BY DEF Placed, PlaceInv
  <2>3. iv[v].end # NONE
    BY <2>1, <2>2 DEF Covers
  <2>4. v \notin left
    BY DEF Placed
  <2> QED BY <1>1, <2>3, <2>4 DEF ScanInv, PlacedOnce, Spilled
<1> QED BY <1>2, <1>3, <1>4, <1>5, <1>6

\* Two reloads of one instruction never meet in a scratch register.
LEMMA ReloadsApart ==
    ASSUME FloatOK, NEW inst, inst.reads \in Seq(Operand), TwoPerClass(inst),
           NEW j \in Reloads(inst)
    PROVE  /\ ReloadReg(inst, j) \in Scratch
           /\ \A k \in Reloads(inst) : ReloadReg(inst, k) = ReloadReg(inst, j) => k = j
<1> DEFINE fp(k) == iv[inst.reads[k].v].fp
           S(k) == {m \in Reloads(inst) : m < k /\ fp(m) = fp(k)}
           D == DOMAIN inst.reads
<1>1. D \subseteq Nat /\ Reloads(inst) \subseteq D
  BY DEF Reloads
<1>2. \A k \in D : fp(k) \in BOOLEAN
  <2> TAKE k \in D
  <2>1. inst.reads[k] \in Operand
    OBVIOUS
  <2> QED BY <2>1 DEF Operand, FloatOK
<1>3. \A k, m, n \in D : m < n /\ n < k => ~ (fp(m) = fp(n) /\ fp(n) = fp(k))
  BY DEF TwoPerClass
<1>4. \A k \in D : ReloadReg(inst, k) = scratch_at(fp(k), Cardinality(S(k)))
  BY DEF ReloadReg
<1> HIDE DEF fp, D
<1>5. ASSUME NEW k \in D
      PROVE  S(k) = {} \/ \E m \in S(k) : S(k) = {m}
  <2> SUFFICES ASSUME NEW m \in S(k), NEW n \in S(k), m # n PROVE FALSE
    OBVIOUS
  <2>1. m \in D /\ n \in D /\ m \in Nat /\ n \in Nat /\ k \in Nat
    BY <1>1
  <2>2. fp(m) = fp(k) /\ fp(n) = fp(k) /\ m < k /\ n < k
    OBVIOUS
  <2>3. CASE m < n
    BY <1>3, <2>1, <2>2, <2>3
  <2>4. CASE n < m
    BY <1>3, <2>1, <2>2, <2>4
  <2> QED BY <2>1, <2>3, <2>4
<1> HIDE DEF S
<1>6. ASSUME NEW k \in D
      PROVE  /\ S(k) = {} => ReloadReg(inst, k) = scratch[fp(k)][1]
             /\ S(k) # {} => ReloadReg(inst, k) = scratch[fp(k)][2]
             /\ ReloadReg(inst, k) \in Scratch
  <2>1. CASE S(k) = {}
    <3>1. Cardinality(S(k)) = 0
      BY <2>1, FS_EmptySet
    <3>2. ReloadReg(inst, k) = scratch[fp(k)][1]
      BY <1>4, <3>1 DEF scratch_at
    <3> QED BY <1>2, <2>1, <3>2 DEF Scratch
  <2>2. CASE S(k) # {}
    <3>1. PICK m : S(k) = {m}
      BY <1>5, <2>2
    <3>2. Cardinality(S(k)) = 1
      BY <3>1, FS_Singleton
    <3>3. ReloadReg(inst, k) = scratch[fp(k)][2]
      BY <1>4, <3>2 DEF scratch_at
    <3> QED BY <1>2, <2>2, <3>3 DEF Scratch
  <2> QED BY <2>1, <2>2
<1>7. ASSUME NEW k \in Reloads(inst), NEW m \in Reloads(inst), m < k,
             ReloadReg(inst, k) = ReloadReg(inst, m)
      PROVE  FALSE
  <2>1. k \in D /\ m \in D /\ k \in Nat /\ m \in Nat
    BY <1>1
  <2>2. fp(k) = fp(m) /\ (S(k) = {} <=> S(m) = {})
    <3>1. fp(k) \in BOOLEAN /\ fp(m) \in BOOLEAN
      BY <1>2, <2>1
    <3> QED BY <1>6, <1>7, <2>1, <3>1, ConventionAssumption
  <2>3. m \in S(k)
    BY <1>7, <2>2 DEF S
  <2>4. PICK n \in S(m) : TRUE
    BY <2>2, <2>3
  <2>5. n \in D /\ n < m /\ fp(n) = fp(m)
    BY <1>1 DEF S
  <2> QED BY <1>3, <1>7, <2>1, <2>2, <2>5
<1>8. ASSUME NEW k \in Reloads(inst), ReloadReg(inst, k) = ReloadReg(inst, j) PROVE k = j
  <2>1. k \in Nat /\ j \in Nat
    BY <1>1
  <2> QED BY <1>7, <1>8, <2>1
<1> QED BY <1>1, <1>6, <1>8

\* An operand reads what the place of its virtual register holds.
LEMMA OperandReads ==
    ASSUME Placed, NEW inst, inst.reads \in Seq(Operand), TwoPerClass(inst),
           NEW j \in DOMAIN inst.reads,
           Spilled(inst.reads[j].v) \/ preg[inst.reads[j].v] # NONE
    PROVE  Reloaded(inst)[place(inst, inst.reads[j].v)] = Loc(inst.reads[j].v)
<1> DEFINE v == inst.reads[j].v
<1>1. FloatOK
  BY DEF Placed, PlaceInv, SavesInv
<1>2. v \in VRegs
  <2>1. inst.reads[j] \in Operand
    OBVIOUS
  <2> QED BY <2>1 DEF Operand
<1>3. CASE ~ Spilled(v)
  <2>1. place(inst, v) = preg[v] /\ preg[v] \in Pregs /\ preg[v] \notin Scratch
    BY <1>2, <1>3, PlaceFacts DEF place
  <2>2. {k \in Reloads(inst) : ReloadReg(inst, k) = preg[v]} = {}
    BY <1>1, <2>1, ReloadsApart
  <2> QED BY <1>3, <2>1, <2>2 DEF Reloaded, Loc
<1>4. CASE Spilled(v)
  <2> DEFINE S == {k \in DOMAIN inst.reads : inst.reads[k].v = v}
  <2>1. S \in SUBSET Nat /\ S # {}
    OBVIOUS
  <2>2. PICK k \in S : \A m \in S : k <= m
    <3> HIDE DEF S
    <3> QED BY <2>1, LeastNat
  <2>3. k \in Reloads(inst) /\ inst.reads[k].v = v
    <3>1. \A m \in 1 .. k - 1 : m \in DOMAIN inst.reads /\ ~ (k <= m)
      OBVIOUS
    <3> QED BY <1>4, <2>2, <3>1 DEF Reloads
  <2> DEFINE n == CHOOSE m \in Reloads(inst) : inst.reads[m].v = v
             r == ReloadReg(inst, n)
             into == {m \in Reloads(inst) : ReloadReg(inst, m) = r}
  <2>4. n \in Reloads(inst) /\ inst.reads[n].v = v
    BY <2>3
  <2>5. place(inst, v) = r
    BY <1>4, <2>3 DEF place
  <2>6. r \in Scratch /\ into = {n}
    <3> HIDE DEF n
    <3> QED BY <1>1, <2>4, ReloadsApart
  <2>7. r \in Pregs
    BY <2>6, ConventionAssumption DEF Scratch
  <2> HIDE DEF n, r
  <2>8. n \in Nat
    BY <2>4 DEF Reloads
  <2>9. Max({n}) = n
    <3>1. Max({n}) \in {n}
      <4>1. {n} \in SUBSET (0 .. n) /\ {n} # {}
        BY <2>8
      <4> QED BY <2>8, <4>1, MaxIsLargest
    <3> QED BY <3>1
  <2>10. Reloaded(inst)[r] = after.slot[slot[inst.reads[n].v]]
    BY <2>6, <2>7, <2>9 DEF Reloaded
  <2> QED BY <1>4, <2>4, <2>5, <2>10 DEF Loc
<1> QED BY <1>3, <1>4

\* A register that the reloads do not load keeps its value.
LEMMA UnloadedKept ==
    ASSUME FloatOK, NEW inst, inst.reads \in Seq(Operand), TwoPerClass(inst),
           NEW r \in Pregs \ Scratch
    PROVE  Reloaded(inst)[r] = after.preg[r]
<1>1. {k \in Reloads(inst) : ReloadReg(inst, k) = r} = {}
  BY ReloadsApart
<1> QED BY <1>1 DEF Reloaded

\* What the rewritten instruction computes, and what it leaves behind.
ValueOf(inst, i) ==
    IF inst.move
    THEN Copied(inst, [v \in {inst.reads[j].v : j \in DOMAIN inst.reads} |->
                         Reloaded(inst)[place(inst, v)]], Reloaded(inst))
    ELSE MadeBy(i)

LocAfter(inst, i, v) ==
    IF Spilled(v) THEN RunAfter(inst, i).slot[slot[v]]
    ELSE RunAfter(inst, i).preg[preg[v]]

LEMMA AfterFields ==
    ASSUME NEW inst, NEW i
    PROVE  /\ \A r \in Pregs : RunAfter(inst, i).preg[r] =
                IF inst.def # NONE /\ r = place(inst, inst.def)
                THEN ValueOf(inst, i)
                ELSE IF r \notin inst.kills THEN Reloaded(inst)[r]
                ELSE IF inst.move THEN ValueOf(inst, i) ELSE Killed(i, r)
           /\ RunAfter(inst, i).slot =
                IF stores_result(inst)
                THEN [after.slot EXCEPT ![slot[inst.def]] =
                        RunAfter(inst, i).preg[place(inst, inst.def)]]
                ELSE after.slot
<1> DEFINE value == ValueOf(inst, i)
           done == [r \in Pregs |->
                IF inst.def # NONE /\ r = place(inst, inst.def) THEN value
                ELSE IF r \notin inst.kills THEN Reloaded(inst)[r]
                ELSE IF inst.move THEN value ELSE Killed(i, r)]
<1>1. /\ RunAfter(inst, i).preg = done
      /\ RunAfter(inst, i).slot =
           IF stores_result(inst)
           THEN [after.slot EXCEPT ![slot[inst.def]] = done[place(inst, inst.def)]]
           ELSE after.slot
  BY DEF RunAfter, ValueOf
<1> HIDE DEF value
<1>2. \A r \in Pregs : done[r] =
                IF inst.def # NONE /\ r = place(inst, inst.def) THEN value
                ELSE IF r \notin inst.kills THEN Reloaded(inst)[r]
                ELSE IF inst.move THEN value ELSE Killed(i, r)
  OBVIOUS
<1> HIDE DEF done
<1> QED BY <1>1, <1>2 DEF value

\* The place of a spilled virtual register is a scratch register.
LEMMA SpillPlace ==
    ASSUME FloatOK, NEW inst, inst.reads \in Seq(Operand), TwoPerClass(inst),
           NEW v \in VRegs, Spilled(v)
    PROVE  place(inst, v) \in Scratch /\ place(inst, v) \in Pregs
<1>1. \A r \in Scratch : r \in Pregs
  BY ConventionAssumption DEF Scratch
<1>2. CASE \E j \in Reloads(inst) : inst.reads[j].v = v
  <2> DEFINE j == CHOOSE j \in Reloads(inst) : inst.reads[j].v = v
  <2>1. j \in Reloads(inst)
    BY <1>2
  <2>2. place(inst, v) = ReloadReg(inst, j)
    BY <1>2 DEF place
  <2> HIDE DEF j
  <2> QED BY <1>1, <2>1, <2>2, ReloadsApart
<1>3. CASE ~ \E j \in Reloads(inst) : inst.reads[j].v = v
  <2>1. place(inst, v) = scratch_at(iv[v].fp, 0)
    BY <1>3 DEF place
  <2>2. scratch_at(iv[v].fp, 0) = scratch[iv[v].fp][1] /\ iv[v].fp \in BOOLEAN
    BY DEF scratch_at, FloatOK
  <2> QED BY <1>1, <2>1, <2>2 DEF Scratch
<1> QED BY <1>2, <1>3

\* The result goes to the place of the virtual register that is defined.
LEMMA ResultPlaced ==
    ASSUME Placed, NEW inst \in SafeInsts, TwoPerClass(inst), NEW i,
           inst.def # NONE, Spilled(inst.def) \/ preg[inst.def] # NONE
    PROVE  LocAfter(inst, i, inst.def) = ValueOf(inst, i)
<1> DEFINE d == inst.def
           p == place(inst, d)
<1>1. inst.reads \in Seq(Operand) /\ d \in VRegs
  BY DEF SafeInsts, Instruction
<1>2. FloatOK
  BY DEF Placed, PlaceInv, SavesInv
<1>3. p \in Pregs => RunAfter(inst, i).preg[p] = ValueOf(inst, i)
  BY AfterFields
<1>4. CASE ~ Spilled(d)
  <2>1. p = preg[d] /\ preg[d] \in Pregs
    BY <1>1, <1>4, PlaceFacts DEF place
  <2> QED BY <1>3, <1>4, <2>1 DEF LocAfter
<1>5. CASE Spilled(d)
  <2>1. p \in Pregs /\ slot[d] \in DOMAIN after.slot
    BY <1>1, <1>2, <1>5, SpillPlace, PlaceFacts
  <2>2. stores_result(inst)
    BY <1>5 DEF stores_result
  <2>3. RunAfter(inst, i).slot = [after.slot EXCEPT ![slot[d]] = RunAfter(inst, i).preg[p]]
    BY <2>2, AfterFields
  <2>4. RunAfter(inst, i).slot[slot[d]] = RunAfter(inst, i).preg[p]
    BY <2>1, <2>3
  <2> QED BY <1>3, <1>5, <2>1, <2>4 DEF LocAfter
<1> QED BY <1>4, <1>5

\* A physical register that is no scratch register changes only when the
\* instruction names it or gives it the result.
LEMMA RegisterAfter ==
    ASSUME FloatOK, NEW inst \in SafeInsts, TwoPerClass(inst), NEW i,
           NEW r \in Pregs \ Scratch,
           inst.def # NONE /\ ~ Spilled(inst.def) => preg[inst.def] # r
    PROVE  RunAfter(inst, i).preg[r] =
             IF r \notin inst.kills THEN after.preg[r]
             ELSE IF inst.move THEN ValueOf(inst, i) ELSE Killed(i, r)
<1>1. inst.reads \in Seq(Operand) /\ inst.def \in VRegs \cup {NONE}
  BY DEF SafeInsts, Instruction
<1>2. inst.def # NONE => place(inst, inst.def) # r
  <2>1. CASE inst.def # NONE /\ Spilled(inst.def)
    BY <1>1, <2>1, SpillPlace
  <2>2. CASE inst.def # NONE /\ ~ Spilled(inst.def)
    BY <2>2 DEF place
  <2> QED BY <2>1, <2>2
<1>3. Reloaded(inst)[r] = after.preg[r]
  BY <1>1, UnloadedKept
<1>4. RunAfter(inst, i).preg[r] =
        IF inst.def # NONE /\ r = place(inst, inst.def)
        THEN ValueOf(inst, i)
        ELSE IF r \notin inst.kills THEN Reloaded(inst)[r]
        ELSE IF inst.move THEN ValueOf(inst, i) ELSE Killed(i, r)
  <2>1. r \in Pregs
    OBVIOUS
  <2> QED BY ONLY <2>1, AfterFields
<1> QED BY ONLY <1>2, <1>3, <1>4

\* Another virtual register keeps its value when nothing writes its register.
LEMMA OtherKept ==
    ASSUME Placed, NEW inst \in SafeInsts, TwoPerClass(inst), NEW i,
           NEW v \in VRegs, v # inst.def, Spilled(v) \/ preg[v] # NONE,
           ~ Spilled(v) => /\ preg[v] \notin inst.kills
                           /\ inst.def # NONE => preg[inst.def] # preg[v]
    PROVE  LocAfter(inst, i, v) = Loc(v)
<1>1. FloatOK /\ inst.def \in VRegs \cup {NONE}
  BY DEF Placed, PlaceInv, SavesInv, SafeInsts, Instruction
<1>2. CASE ~ Spilled(v)
  <2>1. preg[v] \in Pregs \ Scratch
    BY <1>2, PlaceFacts
  <2>2. RunAfter(inst, i).preg[preg[v]] = after.preg[preg[v]]
    BY <1>1, <1>2, <2>1, RegisterAfter
  <2> QED BY <1>2, <2>2 DEF LocAfter, Loc
<1>3. CASE Spilled(v)
  <2>1. CASE ~ stores_result(inst)
    BY <1>3, <2>1, AfterFields DEF LocAfter, Loc
  <2>2. CASE stores_result(inst)
    <3>1. inst.def \in VRegs /\ Spilled(inst.def)
      BY <1>1, <2>2 DEF stores_result
    <3>2. slot[inst.def] # slot[v] /\ slot[v] \in DOMAIN after.slot
      BY <1>3, <3>1, PlaceFacts
    <3>3. RunAfter(inst, i).slot =
            [after.slot EXCEPT ![slot[inst.def]] =
               RunAfter(inst, i).preg[place(inst, inst.def)]]
      BY <2>2, AfterFields
    <3>4. RunAfter(inst, i).slot[slot[v]] = after.slot[slot[v]]
      BY <3>2, <3>3
    <3> QED BY <1>3, <3>4 DEF LocAfter, Loc
  <2> QED BY <2>1, <2>2
<1> QED BY <1>2, <1>3

-----------------------------------------------------------------------------
(* What the code from a point on needs.                                    *)

\* The points of block b from x on.
From(b, x) == {y \in Points(b) : ~ Earlier(y, x)}

\* Some instruction of the block reads v before the block writes it, or v is
\* live at the end of the block and the block no longer writes it.
Needs(b, x, v) ==
    \/ \E y \in From(b, x) : v \in Reads(y) /\ \A z \in From(b, x) :
                                                  Earlier(z, y) => At(z).def # v
    \/ v \in live_out[b] /\ \A z \in From(b, x) : At(z).def # v

\* The same for a physical register, which no block hands to the next one.
NeedsFixed(b, x, r) ==
    \E y \in From(b, x) : r \in At(y).uses /\ \A z \in From(b, x) :
                                                 Earlier(z, y) => r \notin At(z).kills

\* y is where the block goes on after x.
Follows(b, x, y) == x \in Points(b) /\ From(b, y) = From(b, x) \ {x}

LEMMA PointOrder ==
    ASSUME ProgOK, CodeOK, NEW b \in Blocks, NEW x \in Points(b), NEW y \in Points(b)
    PROVE  /\ ~ Earlier(x, x)
           /\ x = y \/ Earlier(x, y) \/ Earlier(y, x)
           /\ Earlier(x, y) => ~ Earlier(y, x)
           /\ \A z \in Points(b) : Earlier(x, y) /\ Earlier(y, z) => Earlier(x, z)
           /\ Earlier(x, y) <=> Number(x) < Number(y)
           /\ Number(x) \in Nat
<1>1. \A z \in Points(b) : /\ z = <<z[1], z[2]>>
                           /\ z[1] \in Nat /\ z[2] \in Nat /\ Number(z) \in Nat
  <2> TAKE z \in Points(b)
  <2>1. /\ z = <<z[1], z[2]>>
        /\ z[1] \in 1 .. Len(prog.insts) /\ z[2] \in 1 .. Len(code[z[1]])
        /\ Number(z) \in Nat
    BY PointFacts
  <2> QED BY <2>1
<1>2. ~ Earlier(x, x)
  BY <1>1 DEF Earlier
<1>3. x = y \/ Earlier(x, y) \/ Earlier(y, x)
  BY <1>1 DEF Earlier
<1>4. Earlier(x, y) => ~ Earlier(y, x)
  BY <1>1 DEF Earlier
<1>5. \A z \in Points(b) : Earlier(x, y) /\ Earlier(y, z) => Earlier(x, z)
  BY <1>1 DEF Earlier
<1>6. /\ Earlier(x, y) => Number(x) < Number(y)
      /\ Earlier(y, x) => Number(y) < Number(x)
  BY NumberOrder
<1> QED BY <1>1, <1>2, <1>3, <1>4, <1>5, <1>6

\* What is needed where a block starts is live into it.
LEMMA NeededAtStart ==
    ASSUME Placed, NEW b \in Blocks, NEW v \in VRegs, NEW x, From(b, x) = Points(b),
           Needs(b, x, v)
    PROVE  v \in live_in[b]
<1>1. Solved(b)
  BY DEF Placed, PlaceInv
<1>2. CASE \E y \in Points(b) : v \in Reads(y) /\ \A z \in Points(b) :
                                   Earlier(z, y) => At(z).def # v
  <2>1. v \in use(b)
    BY <1>2 DEF use
  <2> QED BY <1>1, <2>1 DEF Solved
<1>3. CASE v \in live_out[b] /\ \A z \in Points(b) : At(z).def # v
  <2>1. v \notin def(b)
    BY <1>3 DEF def
  <2> QED BY <1>1, <1>3, <2>1 DEF Solved
<1> QED BY <1>2, <1>3 DEF Needs

LEMMA PlacedBasics ==
    ASSUME Placed
    PROVE  ProgOK /\ CodeOK /\ FloatOK /\ ScanInv
BY DEF Placed, PlaceInv, SavesInv, CodeOK

\* A virtual register that is needed at a point has started by then.
LEMMA NeededStarted ==
    ASSUME Placed, NEW b \in Blocks, NEW x \in Points(b), NEW v \in VRegs, Needs(b, x, v)
    PROVE  iv[v].end # NONE /\ iv[v].start <= 2 * Number(x)
<1> USE PlacedBasics
<1>1. Covers(v) /\ iv[v].start \in Nat
  BY DEF Placed, PlaceInv, ScanInv, ScanType
<1>2. \A z \in Points(b) : z \in AllPoints
  BY DEF AllPoints
<1>3. CASE \E z \in Points(b) : Earlier(z, x) /\ At(z).def = v
  <2>1. PICK z \in Points(b) : Earlier(z, x) /\ At(z).def = v
    BY <1>3
  <2>2. 2 * Number(z) + 1 \in Positions(v)
    BY <1>2, <2>1 DEF Positions
  <2>3. Number(z) < Number(x) /\ Number(z) \in Nat /\ Number(x) \in Nat
    BY <2>1, PointOrder
  <2>4. iv[v].end # NONE /\ iv[v].start <= 2 * Number(z) + 1
    BY <1>1, <2>2 DEF Covers
  <2> QED BY <1>1, <2>3, <2>4
<1>4. CASE \A z \in Points(b) : Earlier(z, x) => At(z).def # v
  <2> DEFINE s == <<0, 0>>
  <2>1. From(b, s) = Points(b)
    <3>1. \A z \in Points(b) : z[1] \in Nat \ {0}
      BY PointFacts
    <3> QED BY <3>1 DEF From, Earlier
  <2>2. From(b, x) \subseteq Points(b)
    BY DEF From
  <2>3. \A z \in Points(b) : z \in From(b, x) \/ At(z).def # v
    BY <1>4 DEF From
  <2>4. Needs(b, s, v)
    BY <2>1, <2>2, <2>3 DEF Needs
  <2>5. v \in live_in[b]
    <3> HIDE DEF s
    <3> QED BY <2>1, <2>4, NeededAtStart
  <2>6. block_start(b) \in Positions(v)
    BY <2>5 DEF Positions
  <2>7. iv[v].end # NONE /\ iv[v].start <= block_start(b)
    BY <1>1, <2>6 DEF Covers
  <2>8. block_start(b) \in Nat /\ block_start(b) <= 2 * Number(x) /\ Number(x) \in Nat
    BY NumberBounds
  <2> QED BY <1>1, <2>7, <2>8
<1> QED BY <1>3, <1>4

\* A virtual register that is needed after a point which does not define it
\* is needed at the point, and its interval contains the point.
LEMMA NeededAcross ==
    ASSUME Placed, NEW b \in Blocks, NEW x, NEW y, Follows(b, x, y),
           NEW v \in VRegs, Needs(b, y, v), At(x).def # v
    PROVE  /\ Needs(b, x, v)
           /\ iv[v].end # NONE /\ iv[v].end \in Nat /\ iv[v].start \in Nat
           /\ iv[v].start <= 2 * Number(x) + 1 /\ 2 * Number(x) + 1 <= iv[v].end
<1> USE PlacedBasics
<1>1. x \in Points(b) /\ From(b, y) = From(b, x) \ {x} /\ From(b, x) \subseteq Points(b)
  BY DEF Follows, From
<1>2. Needs(b, x, v)
  <2>1. \A z \in From(b, x) : z \in From(b, y) \/ z = x
    BY <1>1
  <2> QED BY <1>1, <2>1 DEF Needs
<1>3. iv[v].end # NONE /\ iv[v].start <= 2 * Number(x)
  BY <1>1, <1>2, NeededStarted
<1>4. Covers(v) /\ iv[v].start \in Nat /\ iv[v].end \in Nat
  BY <1>3 DEF Placed, PlaceInv, ScanInv, ScanType
<1>5. Number(x) \in Nat
  BY <1>1, PointOrder
<1>6. 2 * Number(x) + 1 <= iv[v].end
  <2>1. CASE \E z \in From(b, y) : v \in Reads(z)
    <3>1. PICK z \in From(b, y) : v \in Reads(z)
      BY <2>1
    <3>2. z \in Points(b) /\ z # x /\ ~ Earlier(z, x)
      BY <1>1 DEF From
    <3>3. Number(x) < Number(z) /\ Number(z) \in Nat
      BY <1>1, <3>2, PointOrder
    <3>4. z \in AllPoints
      BY <3>2 DEF AllPoints
    <3>5. 2 * Number(z) \in Positions(v)
      BY <3>1, <3>4 DEF Positions
    <3>6. 2 * Number(z) <= iv[v].end
      BY <1>4, <3>5 DEF Covers
    <3> QED BY <1>4, <1>5, <3>3, <3>6
  <2>2. CASE v \in live_out[b]
    <3>1. block_end(b) \in Positions(v)
      BY <2>2 DEF Positions
    <3>2. block_end(b) <= iv[v].end
      BY <1>4, <3>1 DEF Covers
    <3>3. block_end(b) \in Nat /\ 2 * Number(x) + 1 <= block_end(b)
      BY <1>1, NumberBounds
    <3> QED BY <1>4, <1>5, <3>2, <3>3
  <2> QED BY <2>1, <2>2 DEF Needs
<1> QED BY <1>2, <1>3, <1>4, <1>5, <1>6

\* The register that an instruction defines has an interval that contains it.
LEMMA DefinedAt ==
    ASSUME Placed, NEW b \in Blocks, NEW x \in Points(b), NEW v \in VRegs, At(x).def = v
    PROVE  /\ Positions(v) # {}
           /\ iv[v].end # NONE /\ iv[v].end \in Nat /\ iv[v].start \in Nat
           /\ iv[v].start <= 2 * Number(x) + 1 /\ 2 * Number(x) + 1 <= iv[v].end
<1>1. x \in AllPoints
  BY DEF AllPoints
<1>2. 2 * Number(x) + 1 \in Positions(v)
  BY <1>1 DEF Positions
<1>3. Covers(v)
  BY DEF Placed, PlaceInv
<1>4. iv[v].end # NONE /\ iv[v].start <= 2 * Number(x) + 1 /\ 2 * Number(x) + 1 <= iv[v].end
  BY <1>2, <1>3 DEF Covers
<1>5. iv[v].end \in Nat /\ iv[v].start \in Nat
  BY <1>4 DEF Placed, PlaceInv, ScanInv, ScanType
<1> QED BY <1>2, <1>4, <1>5

\* A physical register that is needed after a point is in a fixed range there.
LEMMA FixedAcross ==
    ASSUME Placed, NEW b \in Blocks, NEW x, NEW y, Follows(b, x, y),
           NEW r \in Pregs, NeedsFixed(b, y, r)
    PROVE  /\ r \notin At(x).kills => NeedsFixed(b, x, r)
           /\ \E f \in fixed[r] : f.from <= 2 * Number(x) + 1 /\ 2 * Number(x) + 1 <= f.to
<1> USE PlacedBasics
<1>1. x \in Points(b) /\ From(b, y) = From(b, x) \ {x} /\ From(b, x) \subseteq Points(b)
  BY DEF Follows, From
<1>2. PICK u \in From(b, y) : r \in At(u).uses /\ \A z \in From(b, y) :
                                 Earlier(z, u) => r \notin At(z).kills
  BY DEF NeedsFixed
<1>3. r \notin At(x).kills => NeedsFixed(b, x, r)
  <2>1. \A z \in From(b, x) : z \in From(b, y) \/ z = x
    BY <1>1
  <2> QED BY <1>1, <1>2, <2>1 DEF NeedsFixed
<1>4. u \in Points(b) /\ u # x /\ ~ Earlier(u, x)
  BY <1>1, <1>2 DEF From
<1>5. Number(x) < Number(u) /\ Number(x) \in Nat /\ Number(u) \in Nat /\ Earlier(x, u)
  BY <1>1, <1>4, PointOrder
<1>6. FixedCovers(r) /\ fixed[r] \subseteq FixedRange
  BY DEF Placed, PlaceInv, ScanInv, ScanType
<1>7. \A z \in Points(b) : Earlier(x, z) /\ Earlier(z, u) => r \notin At(z).kills
  <2> TAKE z \in Points(b)
  <2> HAVE Earlier(x, z) /\ Earlier(z, u)
  <2>1. z # x /\ ~ Earlier(z, x)
    BY <1>1, PointOrder
  <2>2. z \in From(b, y)
    BY <1>1, <2>1 DEF From
  <2> QED BY <1>2, <2>2
<1> DEFINE K == {z \in Points(b) : r \in At(z).kills /\ ~ Earlier(x, z)}
<1>8. CASE K = {}
  <2>1. ASSUME NEW z \in Points(b), Earlier(z, u), r \in At(z).kills PROVE FALSE
    <3>1. Earlier(x, z)
      BY <1>8, <2>1
    <3> QED BY <1>7, <2>1, <3>1
  <2>2. PICK f \in fixed[r] : f.from <= block_start(b) /\ 2 * Number(u) <= f.to
    BY <1>2, <1>4, <1>6, <2>1 DEF FixedCovers
  <2>3. f.from \in Nat /\ f.to \in Nat
    BY <1>6 DEF FixedRange
  <2>4. block_start(b) \in Nat /\ block_start(b) <= 2 * Number(x)
    BY <1>1, NumberBounds
  <2>5. f.from <= 2 * Number(x) + 1 /\ 2 * Number(x) + 1 <= f.to
    BY ONLY <1>5, <2>2, <2>3, <2>4
  <2> QED BY <1>3, <2>2, <2>5
<1>9. CASE K # {}
  <2> DEFINE S == {Number(z) : z \in K}
  <2>1. \A z \in K : z \in Points(b) /\ Number(z) \in 0 .. Number(x)
    <3> TAKE z \in K
    <3>1. z \in Points(b) /\ ~ Earlier(x, z)
      OBVIOUS
    <3>2. ~ (Number(x) < Number(z)) /\ Number(z) \in Nat
      BY <1>1, <3>1, PointOrder
    <3> QED BY <1>5, <3>1, <3>2
  <2>2. S \in SUBSET (0 .. Number(x)) /\ S # {}
    BY <1>9, <2>1
  <2>3. PICK k \in K : \A z \in K : Number(z) <= Number(k)
    <3>1. Max(S) \in S /\ \A n \in S : n <= Max(S)
      <4> HIDE DEF S
      <4> QED BY <1>5, <2>2, MaxIsLargest
    <3>2. PICK k \in K : Max(S) = Number(k)
      BY <3>1
    <3> QED BY <3>1, <3>2
  <2>4. k \in Points(b) /\ r \in At(k).kills /\ Number(k) \in Nat /\ Number(k) <= Number(x)
    BY <1>5, <2>1
  <2>5. Earlier(k, u)
    <3>1. Number(k) < Number(u)
      BY <1>5, <2>4
    <3> QED BY <1>4, <2>4, <3>1, PointOrder
  <2>6. ASSUME NEW z \in Points(b), Earlier(k, z), Earlier(z, u), r \in At(z).kills
        PROVE  FALSE
    <3>1. ~ Earlier(x, z)
      BY <1>7, <2>6
    <3>2. Number(z) <= Number(k)
      BY <2>3, <2>6, <3>1
    <3>3. Number(k) < Number(z) /\ Number(z) \in Nat
      BY <2>4, <2>6, PointOrder
    <3> QED BY <2>4, <3>2, <3>3
  <2>7. PICK f \in fixed[r] : f.from <= 2 * Number(k) + 1 /\ 2 * Number(u) <= f.to
    BY <1>2, <1>4, <1>6, <2>4, <2>5, <2>6 DEF FixedCovers
  <2>8. f.from \in Nat /\ f.to \in Nat
    BY <1>6 DEF FixedRange
  <2>9. f.from <= 2 * Number(x) + 1 /\ 2 * Number(x) + 1 <= f.to
    BY ONLY <1>5, <2>4, <2>7, <2>8
  <2> QED BY <1>3, <2>7, <2>9
<1> QED BY <1>3, <1>8, <1>9

\* One instruction of the rewritten code: it reads the values of its virtual
\* registers, gives its result its place, and leaves alone every register
\* that the code after it needs.
LEMMA ItemRuns ==
    ASSUME Placed, NEW b \in Blocks, NEW x, NEW y, Follows(b, x, y),
           NEW inst, inst = At(x), TwoPerClass(inst), NEW i
    PROVE  /\ \A j \in DOMAIN inst.reads :
                 /\ Needs(b, x, inst.reads[j].v)
                 /\ Reloaded(inst)[place(inst, inst.reads[j].v)] = Loc(inst.reads[j].v)
           /\ \A v \in VRegs : v # inst.def /\ Needs(b, y, v) =>
                 Needs(b, x, v) /\ LocAfter(inst, i, v) = Loc(v)
           /\ inst.def # NONE => LocAfter(inst, i, inst.def) = ValueOf(inst, i)
           /\ \A r \in Pregs \ Scratch : NeedsFixed(b, y, r) =>
                 /\ r \notin inst.kills =>
                       NeedsFixed(b, x, r) /\ RunAfter(inst, i).preg[r] = after.preg[r]
                 /\ r \in inst.kills =>
                       RunAfter(inst, i).preg[r] =
                         IF inst.move THEN ValueOf(inst, i) ELSE Killed(i, r)
           /\ \A r \in Pregs \ Scratch : r \in inst.uses =>
                 NeedsFixed(b, x, r) /\ Reloaded(inst)[r] = after.preg[r]
<1> USE PlacedBasics
<1>1. x \in Points(b) /\ From(b, x) \subseteq Points(b)
  BY DEF Follows, From
<1>2. /\ inst \in SafeInsts /\ inst.reads \in Seq(Operand)
      /\ inst.def \in VRegs \cup {NONE} /\ inst.uses \subseteq Pregs
  <2>1. At(x) \in SafeInsts
    BY <1>1, PointFacts
  <2> QED BY <2>1 DEF SafeInsts, Instruction
<1>3. x \in From(b, x) /\ \A z \in From(b, x) : ~ Earlier(z, x)
  BY <1>1, PointOrder DEF From
<1>4. Number(x) \in Nat
  BY <1>1, PointOrder
<1>5. ASSUME NEW j \in DOMAIN inst.reads
      PROVE  /\ Needs(b, x, inst.reads[j].v)
             /\ Reloaded(inst)[place(inst, inst.reads[j].v)] = Loc(inst.reads[j].v)
  <2> DEFINE v == inst.reads[j].v
  <2>1. v \in Reads(x)
    BY DEF Reads
  <2>2. v \in VRegs
    <3>1. inst.reads[j] \in Operand
      BY <1>2
    <3> QED BY <3>1 DEF Operand
  <2>3. Needs(b, x, v)
    BY <1>3, <2>1 DEF Needs
  <2>4. 2 * Number(x) \in Positions(v)
    <3>1. x \in AllPoints
      BY <1>1 DEF AllPoints
    <3> QED BY <2>1, <3>1 DEF Positions
  <2>5. Spilled(v) \/ preg[v] # NONE
    BY <2>2, <2>4, PlaceFacts
  <2> QED BY <1>2, <2>3, <2>5, OperandReads
<1>6. inst.def # NONE =>
        /\ inst.def \in VRegs
        /\ Positions(inst.def) # {}
        /\ iv[inst.def].end # NONE /\ iv[inst.def].end \in Nat /\ iv[inst.def].start \in Nat
        /\ iv[inst.def].start <= 2 * Number(x) + 1
        /\ 2 * Number(x) + 1 <= iv[inst.def].end
        /\ Spilled(inst.def) \/ preg[inst.def] # NONE
  BY <1>1, <1>2, DefinedAt, PlaceFacts
<1>7. ASSUME NEW v \in VRegs, v # inst.def, Needs(b, y, v)
      PROVE  Needs(b, x, v) /\ LocAfter(inst, i, v) = Loc(v)
  <2>1. /\ Needs(b, x, v)
        /\ iv[v].end # NONE /\ iv[v].end \in Nat /\ iv[v].start \in Nat
        /\ iv[v].start <= 2 * Number(x) + 1 /\ 2 * Number(x) + 1 <= iv[v].end
    BY <1>7, NeededAcross
  <2>2. Spilled(v) \/ preg[v] # NONE
    <3>1. v \notin left
      BY DEF Placed
    <3> QED BY <2>1, <3>1 DEF ScanInv, PlacedOnce, Spilled
  <2>3. ASSUME preg[v] # NONE, inst.def # NONE, preg[inst.def] = preg[v] PROVE FALSE
    <3>1. Overlap(v, inst.def)
      BY <1>4, <1>6, <2>1, <2>3 DEF Overlap
    <3> QED BY <1>6, <1>7, <2>3, <3>1 DEF ScanInv, NoSharing
  <2>4. ASSUME preg[v] # NONE, preg[v] \in inst.kills PROVE FALSE
    <3>1. preg[v] \in Pregs
      BY <2>4, PlaceFacts
    <3>2. FixedCovers(preg[v]) /\ fixed[preg[v]] \subseteq FixedRange
      BY <3>1 DEF Placed, PlaceInv, ScanInv, ScanType
    <3>3. PICK f \in fixed[preg[v]] :
             f.from <= 2 * Number(x) + 1 /\ 2 * Number(x) + 1 <= f.to
      BY <1>1, <2>4, <3>2 DEF FixedCovers
    <3>4. f.from \in Nat /\ f.to \in Nat
      BY <3>2 DEF FixedRange
    <3>5. f.from <= iv[v].end /\ iv[v].start <= f.to
      BY ONLY <1>4, <2>1, <3>3, <3>4
    <3>6. overlaps_fixed(preg[v], v)
      BY <3>3, <3>5 DEF overlaps_fixed
    <3> QED BY <2>4, <3>6 DEF ScanInv, FixedRespected
  <2>5. ~ Spilled(v) => /\ preg[v] \notin inst.kills
                        /\ inst.def # NONE => preg[inst.def] # preg[v]
    BY <2>2, <2>3, <2>4
  <2> QED BY <1>2, <1>7, <2>1, <2>2, <2>5, OtherKept
<1>8. inst.def # NONE => LocAfter(inst, i, inst.def) = ValueOf(inst, i)
  BY <1>2, <1>6, ResultPlaced
<1>9. ASSUME NEW r \in Pregs \ Scratch, NeedsFixed(b, y, r)
      PROVE  /\ r \notin inst.kills =>
                   NeedsFixed(b, x, r) /\ RunAfter(inst, i).preg[r] = after.preg[r]
             /\ r \in inst.kills =>
                   RunAfter(inst, i).preg[r] =
                     IF inst.move THEN ValueOf(inst, i) ELSE Killed(i, r)
  <2>1. r \notin inst.kills => NeedsFixed(b, x, r)
    BY <1>9, FixedAcross
  <2>2. PICK f \in fixed[r] : f.from <= 2 * Number(x) + 1 /\ 2 * Number(x) + 1 <= f.to
    BY <1>9, FixedAcross
  <2>3. f.from \in Nat /\ f.to \in Nat
    BY DEF ScanInv, ScanType, FixedRange
  <2>4. ASSUME inst.def # NONE, ~ Spilled(inst.def), preg[inst.def] = r PROVE FALSE
    <3>1. f.from <= iv[inst.def].end /\ iv[inst.def].start <= f.to
      BY <1>4, <1>6, <2>2, <2>3, <2>4
    <3>2. overlaps_fixed(r, inst.def)
      BY <2>2, <3>1 DEF overlaps_fixed
    <3> QED BY <1>6, <2>4, <3>2 DEF ScanInv, FixedRespected
  <2>5. RunAfter(inst, i).preg[r] =
             IF r \notin inst.kills THEN after.preg[r]
             ELSE IF inst.move THEN ValueOf(inst, i) ELSE Killed(i, r)
    BY <1>2, <2>4, RegisterAfter
  <2> QED BY <2>1, <2>5
<1>10. ASSUME NEW r \in Pregs \ Scratch, r \in inst.uses
       PROVE  NeedsFixed(b, x, r) /\ Reloaded(inst)[r] = after.preg[r]
  <2>1. NeedsFixed(b, x, r)
    BY <1>3, <1>10 DEF NeedsFixed
  <2> QED BY <1>2, <2>1, UnloadedKept
<1> QED BY <1>5, <1>7, <1>8, <1>9, <1>10

-----------------------------------------------------------------------------
(* What rematerialise_constants does to a function that selection made     *)
(* well.                                                                   *)

LEMMA OneDefinition ==
    ASSUME ProgOK, NEW i \in Idx, NEW k \in Idx, Inst(i).def = Inst(k).def,
           ~ many(Inst(i).def)
    PROVE  i = k
<1> SUFFICES ASSUME i # k PROVE FALSE
  OBVIOUS
<1> DEFINE D == Defs(Inst(i).def)
<1>1. i \in D /\ k \in D /\ D \subseteq Idx
  BY DEF Defs
<1>2. IsFiniteSet(D)
  <2>1. Idx = 1 .. Len(prog.insts) /\ Len(prog.insts) \in Nat
    BY BlockFacts
  <2>2. \A m \in Nat : IsFiniteSet(1 .. m)
    BY FS_Interval
  <2> HIDE DEF D
  <2>3. IsFiniteSet(Idx)
    BY <2>1, <2>2
  <2> QED BY <1>1, <2>3, FS_Subset
<1>3. ~ (Cardinality(D) > 1)
  BY DEF many
<1> HIDE DEF D
<1>4. IsFiniteSet({i}) /\ Cardinality({i}) = 1
  BY FS_Singleton
<1>5. Cardinality({i} \cup {k}) = 2
  BY <1>4, FS_AddElement
<1>6. {i} \cup {k} \subseteq D
  BY <1>1
<1>7. Cardinality({i} \cup {k}) <= Cardinality(D) /\ Cardinality(D) \in Nat
  BY <1>2, <1>6, FS_Subset, FS_CardinalityType
<1> QED BY <1>3, <1>5, <1>7

LEMMA ConstantDropped ==
    ASSUME ProgOK, NEW i \in Idx
    PROVE  Dropped(i) <=> OnlyConstant(prog, i)
<1>1. ASSUME Dropped(i) PROVE OnlyConstant(prog, i)
  <2>1. defines_constant(Inst(i)) /\ ~ many(Inst(i).def)
    BY <1>1 DEF Dropped
  <2>2. \A k \in Idx : Inst(i).def = Inst(k).def => k = i
    BY <2>1, OneDefinition
  <2> QED BY <2>1, <2>2 DEF OnlyConstant, defines_constant, Inst, Idx
<1>2. ASSUME OnlyConstant(prog, i) PROVE Dropped(i)
  <2>1. defines_constant(Inst(i))
    BY <1>2 DEF OnlyConstant, defines_constant, Inst
  <2>2. Defs(Inst(i).def) = {i}
    BY <1>2 DEF Defs, OnlyConstant, Inst, Idx
  <2>3. Cardinality(Defs(Inst(i).def)) = 1
    BY <2>2, FS_Singleton
  <2> QED BY <2>1, <2>3 DEF Dropped, many
<1> QED BY <1>1, <1>2

\* The original definition of a constant does nothing else.
LEMMA DroppedInst ==
    ASSUME ProgOK, WellSelected(prog), NEW d \in Idx, Dropped(d)
    PROVE  /\ Inst(d).reads = <<>> /\ Inst(d).uses = {} /\ Inst(d).kills = {}
           /\ ~ Inst(d).move /\ Inst(d).to = {} /\ Inst(d).exit = "next"
           /\ Inst(d).imm /\ Inst(d).def # NONE /\ Inst(d).def # 0
<1>1. OnlyConstant(prog, d)
  BY ConstantDropped
<1>2. InstSelected(prog, d)
  BY DEF WellSelected, Idx
<1>3. Inst(d) = [Inst(d) EXCEPT !.reads = <<>>, !.uses = {}, !.kills = {},
                                !.move = FALSE, !.to = {}, !.exit = "next"]
  BY <1>1, <1>2 DEF InstSelected, Inst
<1>4. Inst(d) \in Instruction(Blocks)
  BY InstFacts DEF SafeInsts
<1>5. /\ Inst(d).reads = <<>> /\ Inst(d).uses = {} /\ Inst(d).kills = {}
      /\ Inst(d).move = FALSE /\ Inst(d).to = {} /\ Inst(d).exit = "next"
  <2> DEFINE e == Inst(d)
  <2>1. e \in Instruction(Blocks) /\ e = [e EXCEPT !.reads = <<>>, !.uses = {}, !.kills = {},
                                !.move = FALSE, !.to = {}, !.exit = "next"]
    BY <1>3, <1>4
  <2> HIDE DEF e
  <2>2. /\ e.reads = <<>> /\ e.uses = {} /\ e.kills = {}
        /\ e.move = FALSE /\ e.to = {} /\ e.exit = "next"
    BY ONLY <2>1 DEF Instruction
  <2> QED BY <2>2 DEF e
<1>6. Inst(d).imm /\ Inst(d).def # NONE
  BY <1>1 DEF OnlyConstant, Inst
<1>7. Inst(d).def # 0
  BY <1>2, <1>6 DEF InstSelected, Inst
<1> QED BY <1>5, <1>6, <1>7

LEMMA ReplacedBy ==
    ASSUME ProgOK, NEW i \in Idx, NEW j \in DOMAIN Inst(i).reads, Replaced(i, j),
           NEW d, d = definition(Inst(i).reads[j].v)
    PROVE  d \in Idx /\ Dropped(d) /\ Inst(d).def = Inst(i).reads[j].v
<1> DEFINE v == Inst(i).reads[j].v
<1>1. ~ many(v) /\ definition(v) # 0
  BY DEF Replaced
<1> HIDE DEF v
<1>2. d \in Idx /\ defines_constant(Inst(d)) /\ Inst(d).def = v
  BY <1>1, DefinitionFacts DEF v
<1> QED BY <1>1, <1>2 DEF Dropped, v

\* No instruction of the rewritten code reads a constant that has gone.
LEMMA UnreplacedKept ==
    ASSUME ProgOK, WellSelected(prog), NEW i \in Idx, NEW j \in DOMAIN Inst(i).reads,
           ~ Replaced(i, j), NEW d \in Idx, Dropped(d)
    PROVE  Inst(d).def # Inst(i).reads[j].v
<1> SUFFICES ASSUME Inst(d).def = Inst(i).reads[j].v PROVE FALSE
  OBVIOUS
<1> DEFINE v == Inst(i).reads[j].v
           writers == {k \in Idx : Entry(k) = v}
<1>1. OnlyConstant(prog, d) /\ InstSelected(prog, i)
  BY ConstantDropped DEF WellSelected, Idx
<1>2. ~ Inst(i).reads[j].mem
  <2>1. Inst(i).reads[j].mem => \A k \in DOMAIN prog.insts :
                    OnlyConstant(prog, k) => prog.insts[k].def # v
    BY <1>1 DEF InstSelected, Inst
  <2> QED BY <1>1, <2>1 DEF Inst, Idx
<1>3. ~ many(v) /\ defines_constant(Inst(d)) /\ v # 0 /\ v # NONE
  BY DroppedInst DEF Dropped
<1>4. definition(v) = 0
  BY <1>2, <1>3 DEF Replaced
<1>5. writers = {d}
  <2>1. d \in writers
    BY <1>3 DEF Entry
  <2>2. \A k \in writers : k = d
    <3> TAKE k \in writers
    <3>1. k \in Idx /\ Inst(k).def = v
      BY <1>3 DEF Entry
    <3> QED BY <1>3, <3>1, OneDefinition
  <2> HIDE DEF writers
  <2> QED BY <2>1, <2>2
<1>6. Max(writers) = d
  <2>1. \A n \in Nat : d \in 0 .. n => Max({d}) \in {d}
    BY MaxIsLargest
  <2>2. d \in 0 .. Len(prog.insts) /\ Len(prog.insts) \in Nat
    BY BlockFacts
  <2> QED BY <1>5, <2>1, <2>2
<1>7. d # 0
  BY BlockFacts
<1>8. definition(v) = d
  BY <1>3, <1>5, <1>6 DEF definition
<1> QED BY <1>4, <1>7, <1>8

LEMMA ReplacementPairs ==
    ASSUME ProgOK
    PROVE  /\ \A x \in Replacements :
                 /\ x = <<x[1], x[2]>> /\ x[1] \in Idx /\ x[1] \in Nat /\ x[2] \in Nat
                 /\ x[2] \in DOMAIN Inst(x[1]).reads
                 /\ Replaced(x[1], x[2])
           /\ \A i \in Idx : \A j \in DOMAIN Inst(i).reads :
                 Replaced(i, j) => <<i, j>> \in Replacements
<1>1. \A i \in Idx : i \in Nat
  BY BlockFacts
<1>2. ASSUME NEW i \in Idx, NEW j \in DOMAIN Inst(i).reads PROVE j \in 1 .. 4
  <2>1. Len(Inst(i).reads) <= 4
    BY ProgramAssumption DEF ProgOK, Inst, Idx
  <2>2. Inst(i).reads \in Seq(Operand)
    BY InstFacts
  <2> QED BY <2>1, <2>2
<1> QED BY <1>1, <1>2 DEF Replacements

LEMMA ReplacementsFinite ==
    ASSUME ProgOK PROVE IsFiniteSet(Replacements)
<1>1. Idx = 1 .. Len(prog.insts) /\ Len(prog.insts) \in Nat
  BY BlockFacts
<1>2. \A m \in Nat : IsFiniteSet(1 .. m)
  BY FS_Interval
<1>3. IsFiniteSet(Idx) /\ IsFiniteSet(1 .. 4)
  BY <1>1, <1>2
<1>4. IsFiniteSet(Idx \X (1 .. 4))
  BY <1>3, FS_Product
<1> QED BY <1>4, FS_Subset DEF Replacements

\* Every copy has a virtual register of its own, above those of the function.
LEMMA MadeAbove ==
    ASSUME ProgOK, NEW i, NEW j
    PROVE  Made(i, j) \in Nat /\ Made(i, j) >= VCount /\ Made(i, j) \in VRegs
<1> DEFINE S == {x \in Replacements : Earlier(x, <<i, j>>)}
<1>1. Made(i, j) = VCount + Cardinality(S) /\ VCount \in Nat
  BY InstFacts DEF Made
<1>2. Cardinality(S) \in Nat
  <2>1. S \subseteq Replacements
    OBVIOUS
  <2> HIDE DEF S
  <2> QED BY <2>1, ReplacementsFinite, FS_Subset, FS_CardinalityType
<1> HIDE DEF S
<1>3. Made(i, j) \in VRegs
  BY MadeFits
<1> QED BY <1>1, <1>2, <1>3

LEMMA MadeGrows ==
    ASSUME ProgOK, NEW x \in Replacements, NEW y \in Replacements, Earlier(x, y)
    PROVE  Made(x[1], x[2]) # Made(y[1], y[2])
<1> DEFINE S == {z \in Replacements : Earlier(z, <<x[1], x[2]>>)}
           R == {z \in Replacements : Earlier(z, <<y[1], y[2]>>)}
<1>1. \A z \in Replacements : z = <<z[1], z[2]>> /\ z[1] \in Nat /\ z[2] \in Nat
  BY ReplacementPairs
<1>2. S \subseteq R /\ x \in R /\ x \notin S
  BY <1>1 DEF Earlier
<1>3. IsFiniteSet(R)
  <2>1. R \subseteq Replacements
    OBVIOUS
  <2> HIDE DEF R
  <2> QED BY <2>1, ReplacementsFinite, FS_Subset
<1>4. /\ Made(x[1], x[2]) = VCount + Cardinality(S)
      /\ Made(y[1], y[2]) = VCount + Cardinality(R)
      /\ VCount \in Nat
  BY InstFacts DEF Made
<1> HIDE DEF S, R
<1>5. IsFiniteSet(S) /\ Cardinality(S) \in Nat /\ Cardinality(R) \in Nat
  BY <1>2, <1>3, FS_Subset, FS_CardinalityType
<1>6. Cardinality(S) # Cardinality(R)
  BY <1>2, <1>3, FS_Subset
<1> QED BY <1>4, <1>5, <1>6

LEMMA MadeApart ==
    ASSUME ProgOK, NEW x \in Replacements, NEW y \in Replacements,
           Made(x[1], x[2]) = Made(y[1], y[2])
    PROVE  x = y
<1>1. \A z \in Replacements : z = <<z[1], z[2]>> /\ z[1] \in Nat /\ z[2] \in Nat
  BY ReplacementPairs
<1>2. x = y \/ Earlier(x, y) \/ Earlier(y, x)
  BY <1>1 DEF Earlier
<1> QED BY <1>2, MadeGrows

\* A copy is of the class of the register it stands for.
LEMMA ClassKept ==
    ASSUME ProgOK
    PROVE  /\ \A x \in Replacements :
                 IsFloat(Made(x[1], x[2])) <=> Inst(x[1]).reads[x[2]].v \in floats
           /\ \A v : v < VCount => (IsFloat(v) <=> v \in floats)
<1>1. VCount \in Nat /\ floats \subseteq 0 .. VCount - 1
  BY ProgramAssumption
<1>2. ASSUME NEW x \in Replacements
      PROVE  IsFloat(Made(x[1], x[2])) <=> Inst(x[1]).reads[x[2]].v \in floats
  <2>1. Made(x[1], x[2]) \in Nat /\ Made(x[1], x[2]) >= VCount
    BY MadeAbove
  <2>2. Made(x[1], x[2]) \notin floats
    BY <1>1, <2>1
  <2>3. \A y \in Replacements : Made(y[1], y[2]) = Made(x[1], x[2]) => y = x
    BY MadeApart
  <2> QED BY <2>2, <2>3 DEF IsFloat
<1>3. ASSUME NEW v, v < VCount PROVE IsFloat(v) <=> v \in floats
  <2>1. \A y \in Replacements : Made(y[1], y[2]) \in Nat /\ Made(y[1], y[2]) >= VCount
    BY MadeAbove
  <2>2. ASSUME NEW y \in Replacements, Made(y[1], y[2]) = v PROVE FALSE
    BY <1>1, <1>3, <2>1, <2>2
  <2> QED BY <2>2 DEF IsFloat
<1> QED BY <1>2, <1>3

-----------------------------------------------------------------------------
(* The items of the rewritten code.                                        *)

\* The copies in front of an instruction are those of its constant operands.
LEMMA CopiesHold ==
    ASSUME ProgOK, NEW i \in Idx
    PROVE  /\ \A k \in 1 .. Len(Copies(i)) :
                 \E j \in DOMAIN Inst(i).reads :
                    Replaced(i, j) /\ Copies(i)[k] = CopyFor(i, j)
           /\ \A j \in DOMAIN Inst(i).reads : Replaced(i, j) =>
                 \E k \in 1 .. Len(Copies(i)) : Copies(i)[k] = CopyFor(i, j)
           /\ Inst(i).reads = <<>> => Copies(i) = <<>>
<1> DEFINE N == Len(Inst(i).reads)
<1>1. N \in Nat /\ DOMAIN Inst(i).reads = 1 .. N /\ (Inst(i).reads = <<>> => N = 0)
  BY InstFacts
<1>2. PICK f \in [0 .. N -> Seq(Items)] :
              /\ f[0] = <<>> /\ Copies(i) = f[N]
              /\ \A j \in 1 .. N :
                    f[j] = IF Replaced(i, j) THEN Append(f[j - 1], CopyFor(i, j))
                           ELSE f[j - 1]
  <2>1. i \in Idx /\ N = Len(Inst(i).reads)
    OBVIOUS
  <2> HIDE DEF N
  <2> QED BY ONLY ProgOK, <2>1, CopiesSteps
<1> HIDE DEF N
<1> DEFINE Good(n) ==
             /\ \A k \in 1 .. Len(f[n]) :
                   \E j \in 1 .. n : Replaced(i, j) /\ f[n][k] = CopyFor(i, j)
             /\ \A j \in 1 .. n : Replaced(i, j) =>
                   \E k \in 1 .. Len(f[n]) : f[n][k] = CopyFor(i, j)
           T == {n \in 0 .. N : Good(n)}
<1>3. 0 \in T
  BY <1>1, <1>2
<1>4. ASSUME NEW n \in 1 .. N, n - 1 \in T PROVE n \in T
  <2>1. Good(n - 1) /\ n - 1 \in 0 .. N /\ n \in 0 .. N
    BY <1>1, <1>4
  <2>2. f[n - 1] \in Seq(Items)
    BY <1>2, <2>1
  <2>3. CASE ~ Replaced(i, n)
    <3>1. f[n] = f[n - 1]
      BY <1>2, <2>3
    <3>2. 1 .. n = (1 .. n - 1) \cup {n}
      BY <1>1
    <3> QED BY <2>1, <2>3, <3>1, <3>2
  <2>4. CASE Replaced(i, n)
    <3> DEFINE s == f[n - 1]
               c == CopyFor(i, n)
    <3>1. f[n] = Append(s, c)
      BY <1>2, <2>4
    <3>2. CopyFor(i, n) \in Items
      BY <1>1, <2>4, CopyFits DEF N
    <3> HIDE DEF s, c
    <3>3. s \in Seq(Items)
      BY <2>2 DEF s
    <3>4. /\ Len(Append(s, c)) = Len(s) + 1 /\ Len(s) \in Nat
          /\ Append(s, c)[Len(s) + 1] = c
          /\ \A k \in 1 .. Len(s) : Append(s, c)[k] = s[k]
      BY <3>3
    <3>5. 1 .. n = (1 .. n - 1) \cup {n} /\ 1 .. Len(s) + 1 = (1 .. Len(s)) \cup {Len(s) + 1}
      BY <1>1, <3>4
    <3>6. /\ \A k \in 1 .. Len(s) :
               \E j \in 1 .. n - 1 : Replaced(i, j) /\ s[k] = CopyFor(i, j)
          /\ \A j \in 1 .. n - 1 : Replaced(i, j) =>
               \E k \in 1 .. Len(s) : s[k] = CopyFor(i, j)
      BY <2>1 DEF s
    <3>7. ASSUME NEW k \in 1 .. Len(s) + 1
          PROVE  \E j \in 1 .. n : Replaced(i, j) /\ f[n][k] = CopyFor(i, j)
      <4>1. CASE k \in 1 .. Len(s)
        BY <3>1, <3>4, <3>5, <3>6, <4>1
      <4>2. CASE k = Len(s) + 1
        BY <2>4, <3>1, <3>4, <3>5, <4>2 DEF c
      <4> QED BY <3>5, <4>1, <4>2
    <3>8. ASSUME NEW j \in 1 .. n, Replaced(i, j)
          PROVE  \E k \in 1 .. Len(s) + 1 : f[n][k] = CopyFor(i, j)
      <4>1. CASE j \in 1 .. n - 1
        BY <3>1, <3>4, <3>5, <3>6, <3>8, <4>1
      <4>2. CASE j = n
        BY <3>1, <3>4, <3>5, <4>2 DEF c
      <4> QED BY <3>5, <4>1, <4>2
    <3>9. Len(f[n]) = Len(s) + 1
      BY <3>1, <3>4
    <3> QED BY <2>1, <3>7, <3>8, <3>9
  <2> QED BY <2>3, <2>4
<1>5. T = 0 .. N
  <2>1. T \in SUBSET (0 .. N)
    OBVIOUS
  <2>2. N \in Nat /\ 0 \in T /\ \A n \in 1 .. N : n - 1 \in T => n \in T
    BY <1>1, <1>3, <1>4
  <2> HIDE DEF T
  <2> QED BY ONLY <2>1, <2>2, UpTo
<1>6. Good(N)
  <2> HIDE DEF Good
  <2>1. N \in T
    <3>1. N \in 0 .. N
      BY <1>1
    <3> HIDE DEF T
    <3> QED BY ONLY <1>5, <3>1
  <2> QED BY <2>1
<1>7. Inst(i).reads = <<>> => Copies(i) = <<>>
  BY <1>1, <1>2
<1>8. /\ \A k \in 1 .. Len(f[N]) :
            \E j \in DOMAIN Inst(i).reads : Replaced(i, j) /\ f[N][k] = CopyFor(i, j)
      /\ \A j \in DOMAIN Inst(i).reads : Replaced(i, j) =>
            \E k \in 1 .. Len(f[N]) : f[N][k] = CopyFor(i, j)
  BY ONLY <1>1, <1>6
<1>9. Copies(i) = f[N]
  BY <1>2
<1> QED BY ONLY <1>7, <1>8, <1>9

Built ==
    /\ ProgOK
    /\ WellSelected(prog)
    /\ code = [i \in Idx |-> Rebuilt(i)]

\* Nothing is left of a dropped constant; any other instruction follows the
\* copies for its operands.
LEMMA CodeParts ==
    ASSUME Built, NEW i \in Idx
    PROVE  /\ Dropped(i) => code[i] = <<>>
           /\ ~ Dropped(i) =>
                 /\ Len(code[i]) \in Nat /\ Len(code[i]) >= 1
                 /\ code[i][Len(code[i])] = Kept(i)
                 /\ \A k \in 1 .. Len(code[i]) - 1 :
                       \E j \in DOMAIN Inst(i).reads :
                          Replaced(i, j) /\ code[i][k] = CopyFor(i, j)
                 /\ \A j \in DOMAIN Inst(i).reads : Replaced(i, j) =>
                       \E k \in 1 .. Len(code[i]) - 1 : code[i][k] = CopyFor(i, j)
<1> USE DEF Built
<1>1. code[i] = Rebuilt(i)
  OBVIOUS
<1>2. CASE Dropped(i)
  <2>1. Inst(i).reads = <<>>
    BY <1>2, DroppedInst
  <2> QED BY <1>1, <1>2, <2>1, CopiesHold DEF Rebuilt
<1>3. CASE ~ Dropped(i)
  <2> DEFINE s == Copies(i)
             c == Kept(i)
  <2>1. code[i] = Append(s, c)
    BY <1>1, <1>3 DEF Rebuilt
  <2>2. /\ \A k \in 1 .. Len(s) :
               \E j \in DOMAIN Inst(i).reads : Replaced(i, j) /\ s[k] = CopyFor(i, j)
        /\ \A j \in DOMAIN Inst(i).reads : Replaced(i, j) =>
               \E k \in 1 .. Len(s) : s[k] = CopyFor(i, j)
    BY CopiesHold
  <2>3. s \in Seq(Items)
    BY CopiesFit
  <2> HIDE DEF s, c
  <2>4. /\ Len(Append(s, c)) = Len(s) + 1 /\ Len(s) \in Nat
        /\ Append(s, c)[Len(s) + 1] = c
        /\ \A k \in 1 .. Len(s) : Append(s, c)[k] = s[k]
    BY <2>3
  <2>5. Len(code[i]) = Len(s) + 1 /\ Len(code[i]) - 1 = Len(s)
    BY <2>1, <2>4
  <2>6. /\ \A k \in 1 .. Len(s) :
               \E j \in DOMAIN Inst(i).reads : Replaced(i, j) /\ code[i][k] = CopyFor(i, j)
        /\ \A j \in DOMAIN Inst(i).reads : Replaced(i, j) =>
               \E k \in 1 .. Len(s) : code[i][k] = CopyFor(i, j)
    BY <2>1, <2>2, <2>4
  <2>7. code[i][Len(code[i])] = Kept(i) /\ Len(code[i]) \in Nat /\ Len(code[i]) >= 1
    BY <2>1, <2>4, <2>5 DEF c
  <2> QED BY <1>3, <2>5, <2>6, <2>7
<1> QED BY <1>2, <1>3

LEMMA PlacedBuilt ==
    ASSUME Placed, WellSelected(prog) PROVE Built
BY DEF Placed, PlaceInv, SavesInv, Built

\* What selection promises of the operands of instruction i.
LEMMA OperandsSelected ==
    ASSUME ProgOK, WellSelected(prog), NEW i \in Idx
    PROVE  /\ Inst(i).def < VCount
           /\ Inst(i).def \in VRegs \cup {NONE}
           /\ \A j \in DOMAIN Inst(i).reads :
                 Inst(i).reads[j].v \in VRegs /\ Inst(i).reads[j].v < VCount
           /\ \A j, k, m \in DOMAIN Inst(i).reads : j < k /\ k < m =>
                 ~ \E fp \in BOOLEAN : \A n \in {j, k, m} :
                       (Inst(i).reads[n].v \in floats) = fp
<1>1. InstSelected(prog, i)
  BY DEF WellSelected, Idx
<1>2. Inst(i) \in SafeInsts /\ Inst(i).reads \in Seq(Operand)
  BY InstFacts
<1>3. \A j \in DOMAIN Inst(i).reads : Inst(i).reads[j] \in Operand
  BY <1>2
<1>4. /\ Inst(i).def < VCount
      /\ \A j \in DOMAIN Inst(i).reads : Inst(i).reads[j].v < VCount
      /\ \A j, k, m \in DOMAIN Inst(i).reads : j < k /\ k < m =>
            ~ \E fp \in BOOLEAN : \A n \in {j, k, m} :
                  (Inst(i).reads[n].v \in floats) = fp
  BY <1>1 DEF InstSelected, Inst
<1>5. Inst(i).def \in VRegs \cup {NONE}
  BY <1>2 DEF SafeInsts, Instruction
<1> QED BY <1>3, <1>4, <1>5 DEF Operand

LEMMA KeptInst ==
    ASSUME ProgOK, NEW i \in Idx, NEW inst, inst = Kept(i).inst
    PROVE  /\ inst.def = Inst(i).def /\ inst.uses = Inst(i).uses
           /\ inst.kills = Inst(i).kills /\ inst.move = Inst(i).move
           /\ DOMAIN inst.reads = DOMAIN Inst(i).reads
           /\ inst.reads # <<>> <=> Inst(i).reads # <<>>
           /\ \A j \in DOMAIN Inst(i).reads :
                 inst.reads[j].v = IF Replaced(i, j) THEN Made(i, j)
                                   ELSE Inst(i).reads[j].v
<1> DEFINE r == [j \in DOMAIN Inst(i).reads |->
                    IF Replaced(i, j)
                    THEN [Inst(i).reads[j] EXCEPT !.v = Made(i, j)]
                    ELSE Inst(i).reads[j]]
<1>1. Inst(i) \in Instruction(Blocks) /\ Inst(i).reads \in Seq(Operand)
  BY InstFacts DEF SafeInsts
<1>2. inst = [Inst(i) EXCEPT !.reads = r]
  BY DEF Kept
<1>3. \A j \in DOMAIN Inst(i).reads : Inst(i).reads[j] \in Operand
  BY <1>1
<1>4. \A j \in DOMAIN Inst(i).reads :
         r[j].v = IF Replaced(i, j) THEN Made(i, j) ELSE Inst(i).reads[j].v
  BY <1>3 DEF Operand
<1>5. DOMAIN r = DOMAIN Inst(i).reads
  OBVIOUS
<1>6. r # <<>> <=> Inst(i).reads # <<>>
  <2>0. DOMAIN <<>> = {}
    OBVIOUS
  <2>1. DOMAIN Inst(i).reads = {} <=> Inst(i).reads = <<>>
    <3>1. \A s \in Seq(Operand) : DOMAIN s = {} => s = <<>>
      OBVIOUS
    <3> QED BY <1>1, <2>0, <3>1
  <2>2. r = <<>> => DOMAIN r = {}
    BY ONLY <2>0
  <2>3. DOMAIN r = {} => r = <<>>
    BY <1>5
  <2> HIDE DEF r
  <2> QED BY <1>5, <2>1, <2>2, <2>3
<1> HIDE DEF r
<1>7. /\ inst.def = Inst(i).def /\ inst.uses = Inst(i).uses
      /\ inst.kills = Inst(i).kills /\ inst.move = Inst(i).move
      /\ inst.reads = r
  BY <1>1, <1>2 DEF Instruction
<1> QED BY <1>4, <1>5, <1>6, <1>7

LEMMA CopyInst ==
    ASSUME ProgOK, WellSelected(prog), NEW i \in Idx, NEW j \in DOMAIN Inst(i).reads,
           Replaced(i, j), NEW inst, inst = CopyFor(i, j).inst
    PROVE  /\ inst.reads = <<>> /\ inst.uses = {} /\ inst.kills = {} /\ ~ inst.move
           /\ inst.def = Made(i, j)
           /\ MadeBy(CopyFor(i, j).at) = Constant(definition(Inst(i).reads[j].v))
<1> DEFINE d == definition(Inst(i).reads[j].v)
<1>1. d \in Idx /\ Dropped(d)
  BY ReplacedBy
<1>2. CopyFor(i, j) = [inst |-> [Inst(d) EXCEPT !.def = Made(i, j)], at |-> d]
  BY DEF CopyFor
<1> HIDE DEF d
<1>3. inst = [Inst(d) EXCEPT !.def = Made(i, j)] /\ CopyFor(i, j).at = d
  BY <1>2
<1>4. /\ Inst(d).reads = <<>> /\ Inst(d).uses = {} /\ Inst(d).kills = {}
      /\ ~ Inst(d).move /\ Inst(d).imm
  BY <1>1, DroppedInst
<1>5. Inst(d) \in Instruction(Blocks)
  BY <1>1, InstFacts DEF SafeInsts
<1>6. MadeBy(d) = Constant(d)
  BY <1>4 DEF MadeBy
<1> QED BY <1>3, <1>4, <1>5, <1>6 DEF Instruction, d

\* A point is a copy, or the instruction itself.
LEMMA PointKinds ==
    ASSUME Built, CodeOK, NEW b \in Blocks, NEW x \in Points(b)
    PROVE  /\ x[1] \in Idx /\ ~ Dropped(x[1])
           /\ \/ x[2] = Len(code[x[1]]) /\ At(x) = Kept(x[1]).inst
              \/ /\ x[2] \in 1 .. Len(code[x[1]]) - 1
                 /\ \E j \in DOMAIN Inst(x[1]).reads :
                       Replaced(x[1], j) /\ At(x) = CopyFor(x[1], j).inst
<1> USE DEF Built
<1>1. x[1] \in 1 .. Len(prog.insts) /\ x[2] \in 1 .. Len(code[x[1]])
  BY PointFacts
<1>2. x[1] \in Idx
  BY <1>1, BlockFacts
<1>3. ~ Dropped(x[1])
  <2>1. code[x[1]] # <<>>
    BY <1>1
  <2> QED BY <1>2, <2>1, CodeParts
<1>4. /\ Len(code[x[1]]) \in Nat
      /\ code[x[1]][Len(code[x[1]])] = Kept(x[1])
      /\ \A k \in 1 .. Len(code[x[1]]) - 1 :
            \E j \in DOMAIN Inst(x[1]).reads :
               Replaced(x[1], j) /\ code[x[1]][k] = CopyFor(x[1], j)
  BY <1>2, <1>3, CodeParts
<1>5. At(x) = code[x[1]][x[2]].inst
  BY DEF At
<1>6. x[2] = Len(code[x[1]]) \/ x[2] \in 1 .. Len(code[x[1]]) - 1
  BY <1>1, <1>4
<1> QED BY <1>2, <1>3, <1>4, <1>5, <1>6

\* Every instruction of the rewritten code finds a scratch register for each
\* operand.
LEMMA ItemsTwo ==
    ASSUME Placed, WellSelected(prog), NEW b \in Blocks, NEW x \in Points(b)
    PROVE  TwoPerClass(At(x))
<1> USE PlacedBasics, PlacedBuilt
<1> DEFINE i == x[1]
<1>1. i \in Idx
  BY PointKinds
<1>2. \A v \in VRegs : iv[v].fp = IsFloat(v)
  BY DEF Placed, PlaceInv
<1>3. CASE \E j \in DOMAIN Inst(i).reads : Replaced(i, j) /\ At(x) = CopyFor(i, j).inst
  <2>1. At(x).reads = <<>>
    BY <1>1, <1>3, CopyInst DEF Built
  <2> QED BY <2>1 DEF TwoPerClass
<1>4. CASE At(x) = Kept(i).inst
  <2> DEFINE r == At(x).reads
  <2>1. /\ DOMAIN r = DOMAIN Inst(i).reads
        /\ \A j \in DOMAIN r : r[j].v = IF Replaced(i, j) THEN Made(i, j)
                                        ELSE Inst(i).reads[j].v
    BY <1>1, <1>4, KeptInst
  <2>2. ASSUME NEW j \in DOMAIN r
        PROVE  iv[r[j].v].fp = (Inst(i).reads[j].v \in floats)
    <3>1. CASE Replaced(i, j)
      <4> DEFINE e == <<i, j>>
      <4>1. e \in Replacements
        BY <1>1, <2>1, <3>1, ReplacementPairs
      <4>2. IsFloat(Made(e[1], e[2])) <=> Inst(e[1]).reads[e[2]].v \in floats
        BY <4>1, ClassKept
      <4>3. Made(i, j) \in VRegs
        BY MadeAbove
      <4>4. iv[Made(i, j)].fp = IsFloat(Made(i, j))
        BY <1>2, <4>3
      <4>5. IsFloat(Made(i, j)) \in BOOLEAN /\ r[j].v = Made(i, j)
        BY <2>1, <3>1 DEF IsFloat
      <4> QED BY <4>2, <4>4, <4>5
    <3>2. CASE ~ Replaced(i, j)
      <4>1. Inst(i).reads[j].v \in VRegs /\ Inst(i).reads[j].v < VCount
        BY <1>1, <2>1, OperandsSelected DEF Built
      <4>2. IsFloat(Inst(i).reads[j].v) <=> Inst(i).reads[j].v \in floats
        BY <4>1, ClassKept
      <4>3. IsFloat(Inst(i).reads[j].v) \in BOOLEAN /\ r[j].v = Inst(i).reads[j].v
        BY <2>1, <3>2 DEF IsFloat
      <4>4. iv[r[j].v].fp = IsFloat(r[j].v)
        BY <1>2, <4>1, <4>3
      <4> QED BY <4>2, <4>3, <4>4
    <3> QED BY <3>1, <3>2
  <2>3. \A j, k, m \in DOMAIN r : j < k /\ k < m =>
            ~ \E fp \in BOOLEAN : \A n \in {j, k, m} : (Inst(i).reads[n].v \in floats) = fp
    BY <1>1, <2>1, OperandsSelected DEF Built
  <2>4. \A j, k, m \in DOMAIN r : j < k /\ k < m =>
          ~ (/\ iv[r[j].v].fp = iv[r[k].v].fp
             /\ iv[r[k].v].fp = iv[r[m].v].fp)
    <3> TAKE j, k, m \in DOMAIN r
    <3> HAVE j < k /\ k < m
    <3> DEFINE F(n) == (Inst(i).reads[n].v \in floats)
    <3>1. /\ iv[r[j].v].fp = F(j)
          /\ iv[r[k].v].fp = F(k)
          /\ iv[r[m].v].fp = F(m)
      BY <2>2
    <3>2. F(j) \in BOOLEAN /\ F(k) \in BOOLEAN /\ F(m) \in BOOLEAN
      OBVIOUS
    <3>3. ~ (F(j) = F(k) /\ F(k) = F(m))
      <4>1. ~ \E fp \in BOOLEAN : \A n \in {j, k, m} : F(n) = fp
        BY <2>3
      <4> HIDE DEF F
      <4> QED BY <3>2, <4>1
    <3> HIDE DEF F, r
    <3> QED BY <3>1, <3>3
  <2> QED BY <2>4 DEF TwoPerClass
<1> QED BY <1>3, <1>4, PointKinds

\* A constant that has gone is read nowhere.
LEMMA DroppedUnread ==
    ASSUME Built, CodeOK, NEW d \in Idx, Dropped(d), NEW b \in Blocks, NEW x \in Points(b)
    PROVE  Inst(d).def \notin Reads(x)
<1> USE DEF Built
<1> SUFFICES ASSUME NEW j \in DOMAIN At(x).reads, At(x).reads[j].v = Inst(d).def
             PROVE  FALSE
  BY DEF Reads
<1> DEFINE i == x[1]
<1>1. i \in Idx
  BY PointKinds
<1>2. CASE \E k \in DOMAIN Inst(i).reads : Replaced(i, k) /\ At(x) = CopyFor(i, k).inst
  <2>1. At(x).reads = <<>>
    BY <1>1, <1>2, CopyInst
  <2>2. DOMAIN <<>> = {}
    OBVIOUS
  <2> QED BY ONLY <2>1, <2>2, j \in DOMAIN At(x).reads
<1>3. CASE At(x) = Kept(i).inst
  <2>1. /\ j \in DOMAIN Inst(i).reads
        /\ At(x).reads[j].v = IF Replaced(i, j) THEN Made(i, j) ELSE Inst(i).reads[j].v
    BY <1>1, <1>3, KeptInst
  <2>2. Inst(d).def < VCount /\ Inst(d).def \in VRegs \cup {NONE} /\ Inst(d).def # NONE
    BY OperandsSelected, DroppedInst
  <2>3. Inst(d).def \in Nat /\ VCount \in Nat
    BY <2>2, InstFacts, RegisterAssumption
  <2>4. CASE Replaced(i, j)
    <3>1. Made(i, j) \in Nat /\ Made(i, j) >= VCount
      BY MadeAbove
    <3> QED BY <2>1, <2>2, <2>3, <2>4, <3>1
  <2>5. CASE ~ Replaced(i, j)
    BY <1>1, <2>1, <2>5, UnreplacedKept
  <2> QED BY <2>4, <2>5
<1> QED BY <1>2, <1>3, PointKinds

\* The register of a copy is read only by the instruction behind it.
LEMMA CopyReadOnce ==
    ASSUME Built, CodeOK, NEW e \in Replacements, NEW b \in Blocks, NEW x \in Points(b),
           Made(e[1], e[2]) \in Reads(x)
    PROVE  x[1] = e[1] /\ x[2] = Len(code[x[1]])
<1> USE DEF Built
<1>1. PICK j \in DOMAIN At(x).reads : At(x).reads[j].v = Made(e[1], e[2])
  BY DEF Reads
<1> DEFINE i == x[1]
<1>2. i \in Idx
  BY PointKinds
<1>3. ~ \E k \in DOMAIN Inst(i).reads : Replaced(i, k) /\ At(x) = CopyFor(i, k).inst
  <2> SUFFICES ASSUME NEW k \in DOMAIN Inst(i).reads, Replaced(i, k),
                      At(x) = CopyFor(i, k).inst
               PROVE  FALSE
    OBVIOUS
  <2>1. At(x).reads = <<>>
    BY <1>2, CopyInst
  <2>2. DOMAIN <<>> = {}
    OBVIOUS
  <2> QED BY ONLY <2>1, <2>2, <1>1
<1>4. x[2] = Len(code[i]) /\ At(x) = Kept(i).inst
  BY <1>3, PointKinds
<1>5. /\ j \in DOMAIN Inst(i).reads
      /\ At(x).reads[j].v = IF Replaced(i, j) THEN Made(i, j) ELSE Inst(i).reads[j].v
  BY <1>1, <1>2, <1>4, KeptInst
<1>6. Replaced(i, j)
  <2> SUFFICES ASSUME ~ Replaced(i, j) PROVE FALSE
    OBVIOUS
  <2>1. Inst(i).reads[j].v \in VRegs /\ Inst(i).reads[j].v < VCount
    BY <1>2, <1>5, OperandsSelected
  <2>2. Inst(i).reads[j].v \in Nat /\ VCount \in Nat
    BY <2>1, InstFacts, RegisterAssumption
  <2>3. Made(e[1], e[2]) \in Nat /\ Made(e[1], e[2]) >= VCount
    BY MadeAbove
  <2>4. Inst(i).reads[j].v = Made(e[1], e[2])
    BY <1>1, <1>5
  <2> QED BY <2>1, <2>2, <2>3, <2>4
<1>7. <<i, j>> \in Replacements /\ Made(i, j) = Made(e[1], e[2])
  BY <1>1, <1>2, <1>5, <1>6, ReplacementPairs
<1>8. <<i, j>> = e
  <2> DEFINE y == <<i, j>>
  <2>1. y \in Replacements /\ Made(y[1], y[2]) = Made(e[1], e[2])
    BY <1>7
  <2> HIDE DEF y
  <2>2. y = e
    BY <2>1, MadeApart
  <2> QED BY <2>2 DEF y
<1> QED BY <1>4, <1>8

\* So no block reads it before it writes it.
LEMMA CopyNoUse ==
    ASSUME Built, CodeOK, NEW e \in Replacements, NEW b \in Blocks
    PROVE  Made(e[1], e[2]) \notin use(b)
<1> USE DEF Built
<1> SUFFICES ASSUME NEW x \in Points(b), Made(e[1], e[2]) \in Reads(x),
                    \A y \in Points(b) : Earlier(y, x) => At(y).def # Made(e[1], e[2])
             PROVE  FALSE
  BY DEF use
<1> DEFINE i == x[1]
           j == e[2]
<1>1. i = e[1] /\ x[2] = Len(code[i])
  BY CopyReadOnce
<1>2. i \in Idx /\ j \in DOMAIN Inst(i).reads /\ Replaced(i, j)
  BY <1>1, ReplacementPairs
<1>3. ~ Dropped(i)
  BY PointKinds
<1>4. PICK k \in 1 .. Len(code[i]) - 1 : code[i][k] = CopyFor(i, j)
  BY <1>2, <1>3, CodeParts
<1>5. Len(code[i]) \in Nat /\ i \in Members(b)
  BY <1>2, <1>3, CodeParts, PointFacts
<1> DEFINE y == <<i, k>>
<1>6. DOMAIN code[i] = 1 .. Len(code[i])
  <2>1. code[i] \in Seq(Items)
    BY <1>2 DEF CodeOK
  <2> QED BY <2>1
<1>7. y \in Points(b)
  <2>1. k \in DOMAIN code[i]
    BY <1>5, <1>6
  <2>2. y \in {i} \X DOMAIN code[i]
    BY <2>1
  <2> QED BY <1>5, <2>2 DEF Points
<1>8. Earlier(y, x)
  BY <1>1, <1>4, <1>5 DEF Earlier
<1>9. At(y).def = Made(i, j)
  BY <1>2, <1>4, CopyInst DEF At
<1> HIDE DEF y
<1> QED BY <1>1, <1>7, <1>8, <1>9

\* A register that no block uses is live nowhere.
LEMMA UnusedDead ==
    ASSUME Placed, NEW v, \A c \in Blocks : v \notin use(c), NEW b \in Blocks
    PROVE  v \notin live_in[b] /\ v \notin live_out[b]
<1>1. \A c \in Blocks : v \notin live_in[c]
  <2> SUFFICES ASSUME NEW c \in Blocks, v \in live_in[c] PROVE FALSE
    OBVIOUS
  <2>1. ReadAfter(c, v) /\ ProgOK
    BY DEF Placed, PlaceInv, LiveInv
  <2>2. Unwritten(c, v, Len(prog.last)) \subseteq Blocks
    BY <2>1, SearchCloses
  <2> QED BY <2>1, <2>2 DEF ReadAfter
<1>2. Solved(b) /\ successors(b) \subseteq Blocks
  BY PlacedBasics, BlockFacts DEF Placed, PlaceInv
<1>3. live_out[b] = UNION {live_in[s] : s \in successors(b)}
  BY <1>2 DEF Solved
<1>4. ASSUME v \in live_out[b] PROVE FALSE
  <2>1. PICK s \in successors(b) : v \in live_in[s]
    BY <1>3, <1>4
  <2> QED BY <1>1, <1>2, <2>1
<1> QED BY <1>1, <1>4

LEMMA DroppedUnneeded ==
    ASSUME Placed, WellSelected(prog), NEW d \in Idx, Dropped(d), NEW b \in Blocks, NEW x
    PROVE  ~ Needs(b, x, Inst(d).def)
<1> USE PlacedBasics, PlacedBuilt
<1> DEFINE v == Inst(d).def
<1>1. \A c \in Blocks : \A y \in Points(c) : v \notin Reads(y)
  BY DroppedUnread
<1> HIDE DEF v
<1>2. \A c \in Blocks : v \notin use(c)
  BY <1>1 DEF use
<1>3. v \notin live_out[b]
  BY <1>2, UnusedDead
<1>4. ~ Needs(b, x, v)
  BY <1>1, <1>3 DEF Needs, From
<1> QED BY <1>4 DEF v

LEMMA CopyDead ==
    ASSUME Placed, WellSelected(prog), NEW e \in Replacements, NEW b \in Blocks
    PROVE  /\ Made(e[1], e[2]) \notin live_in[b]
           /\ Made(e[1], e[2]) \notin live_out[b]
<1> USE PlacedBasics, PlacedBuilt
<1>1. \A c \in Blocks : Made(e[1], e[2]) \notin use(c)
  BY CopyNoUse
<1> QED BY <1>1, UnusedDead

-----------------------------------------------------------------------------
(* Where control goes.                                                     *)

LEMMA PointShape ==
    ASSUME ProgOK, CodeOK, NEW b \in Blocks, NEW z \in Points(b)
    PROVE  /\ z = <<z[1], z[2]>> /\ z[1] \in Nat /\ z[2] \in Nat
           /\ First(b) <= z[1] /\ z[1] <= prog.last[b]
           /\ First(b) \in Nat /\ prog.last[b] \in Nat
           /\ z[2] \in 1 .. Len(code[z[1]]) /\ Len(code[z[1]]) \in Nat
<1>1. /\ z = <<z[1], z[2]>> /\ z[1] \in 1 .. Len(prog.insts) /\ z[1] \in Members(b)
      /\ z[2] \in 1 .. Len(code[z[1]])
  BY PointFacts
<1>2. First(b) \in 1 .. Len(prog.insts) + 1 /\ prog.last[b] \in 0 .. Len(prog.insts)
  BY BlockOrder
<1>3. Len(prog.insts) \in Nat /\ Idx = 1 .. Len(prog.insts)
  BY BlockFacts
<1>4. Len(code[z[1]]) \in Nat
  <2>1. code[z[1]] \in Seq(Items)
    BY <1>1, <1>3 DEF CodeOK
  <2> QED BY <2>1
<1> QED BY <1>1, <1>2, <1>3, <1>4 DEF Members

\* The points after each step inside a block.
LEMMA Cuts ==
    ASSUME ProgOK, CodeOK, NEW b \in Blocks, NEW i \in Members(b)
    PROVE  /\ \A k \in 1 .. Len(code[i]) - 1 : Follows(b, <<i, k>>, <<i, k + 1>>)
           /\ code[i] # <<>> => Follows(b, <<i, Len(code[i])>>, <<i + 1, 1>>)
           /\ code[i] = <<>> => From(b, <<i + 1, 1>>) = From(b, <<i, 1>>)
           /\ i = First(b) => From(b, <<i, 1>>) = Points(b)
           /\ i = prog.last[b] => From(b, <<i + 1, 1>>) = {}
<1>1. \A z \in Points(b) :
           /\ z = <<z[1], z[2]>> /\ z[1] \in Nat /\ z[2] \in Nat
           /\ First(b) <= z[1] /\ z[1] <= prog.last[b]
           /\ First(b) \in Nat /\ prog.last[b] \in Nat
           /\ z[2] \in 1 .. Len(code[z[1]]) /\ Len(code[z[1]]) \in Nat
  BY PointShape
<1>2. i \in Idx /\ i \in Nat
  BY BlockFacts
<1>3. code[i] \in Seq(Items)
  BY <1>2 DEF CodeOK
<1>4. /\ Len(code[i]) \in Nat /\ DOMAIN code[i] = 1 .. Len(code[i])
      /\ code[i] = <<>> <=> Len(code[i]) = 0
  BY <1>3
<1>5. \A k \in 1 .. Len(code[i]) : <<i, k>> \in Points(b)
  <2> TAKE k \in 1 .. Len(code[i])
  <2>1. <<i, k>> \in {i} \X DOMAIN code[i]
    BY <1>4
  <2> QED BY <2>1 DEF Points
<1>6. \A x : From(b, x) = {z \in Points(b) : ~ (z[1] < x[1] \/ (z[1] = x[1] /\ z[2] < x[2]))}
  BY DEF From, Earlier
<1>7. ASSUME NEW k \in 1 .. Len(code[i]) - 1
      PROVE  Follows(b, <<i, k>>, <<i, k + 1>>)
  <2>1. k \in 1 .. Len(code[i]) /\ k \in Nat
    BY <1>4
  <2>2. <<i, k>> \in Points(b)
    BY <1>5, <2>1
  <2>3. \A z \in Points(b) :
          ~ (z[1] < i \/ (z[1] = i /\ z[2] < k + 1)) <=>
          (~ (z[1] < i \/ (z[1] = i /\ z[2] < k)) /\ z # <<i, k>>)
    BY <1>1, <1>2, <2>1
  <2>4. From(b, <<i, k + 1>>) = From(b, <<i, k>>) \ {<<i, k>>}
    BY <1>6, <2>3
  <2> QED BY <2>2, <2>4 DEF Follows
<1>8. ASSUME code[i] # <<>> PROVE Follows(b, <<i, Len(code[i])>>, <<i + 1, 1>>)
  <2> DEFINE k == Len(code[i])
  <2>1. k \in 1 .. Len(code[i]) /\ k \in Nat
    BY <1>4, <1>8
  <2>2. <<i, k>> \in Points(b)
    BY <1>5, <2>1
  <2>3. \A z \in Points(b) :
          ~ (z[1] < i + 1 \/ (z[1] = i + 1 /\ z[2] < 1)) <=>
          (~ (z[1] < i \/ (z[1] = i /\ z[2] < k)) /\ z # <<i, k>>)
    BY <1>1, <1>2, <2>1
  <2> HIDE DEF k
  <2>4. From(b, <<i + 1, 1>>) = From(b, <<i, k>>) \ {<<i, k>>}
    BY <1>6, <2>3
  <2> QED BY <2>2, <2>4 DEF Follows, k
<1>9. ASSUME code[i] = <<>> PROVE From(b, <<i + 1, 1>>) = From(b, <<i, 1>>)
  <2>1. \A z \in Points(b) : z[1] # i
    BY <1>1, <1>4, <1>9
  <2>2. \A z \in Points(b) :
          ~ (z[1] < i + 1 \/ (z[1] = i + 1 /\ z[2] < 1)) <=>
          ~ (z[1] < i \/ (z[1] = i /\ z[2] < 1))
    BY <1>1, <1>2, <2>1
  <2> QED BY <1>6, <2>2
<1>10. ASSUME i = First(b) PROVE From(b, <<i, 1>>) = Points(b)
  <2>1. \A z \in Points(b) : ~ (z[1] < i \/ (z[1] = i /\ z[2] < 1))
    BY <1>1, <1>2, <1>10
  <2>2. From(b, <<i, 1>>) = {z \in Points(b) : ~ (z[1] < i \/ (z[1] = i /\ z[2] < 1))}
    BY <1>6
  <2> QED BY ONLY <2>1, <2>2
<1>11. ASSUME i = prog.last[b] PROVE From(b, <<i + 1, 1>>) = {}
  <2>1. \A z \in Points(b) : z[1] < i + 1
    BY <1>1, <1>2, <1>11
  <2> QED BY <1>6, <2>1
<1> QED BY <1>7, <1>8, <1>9, <1>10, <1>11

\* Each instruction is in one block.
LEMMA BlockOnce ==
    ASSUME ProgOK, NEW i \in Idx
    PROVE  /\ \E b \in Blocks : i \in Members(b)
           /\ \A b, c \in Blocks : i \in Members(b) /\ i \in Members(c) => b = c
<1>1. /\ Blocks = 1 .. Len(prog.last) /\ Len(prog.last) \in Nat /\ Len(prog.last) > 0
      /\ Idx = 1 .. Len(prog.insts) /\ Len(prog.insts) \in Nat
  BY BlockFacts
<1>2. /\ \A b \in Blocks : /\ prog.last[b] \in 0 .. Len(prog.insts)
                           /\ First(b) \in 1 .. Len(prog.insts) + 1
      /\ \A b, c \in Blocks : b < c => prog.last[b] < First(c)
  BY BlockOrder
<1>3. prog.last[Len(prog.last)] = Len(prog.insts)
  BY ProgramAssumption DEF ProgOK
<1> DEFINE S == {b \in Blocks : i <= prog.last[b]}
<1>4. Len(prog.last) \in S /\ S \in SUBSET Nat
  BY <1>1, <1>3
<1>5. PICK b \in S : \A c \in S : b <= c
  <2> HIDE DEF S
  <2> QED BY <1>4, LeastNat
<1>6. First(b) <= i
  <2>1. CASE b = 1
    BY <1>1, <2>1 DEF First
  <2>2. CASE b # 1
    <3>1. b - 1 \in Blocks /\ b - 1 \notin S
      BY <1>1, <1>5, <2>2
    <3>2. prog.last[b - 1] < i
      BY <1>1, <1>2, <3>1
    <3>3. First(b) = prog.last[b - 1] + 1
      BY <2>2 DEF First
    <3>4. prog.last[b - 1] \in Nat /\ i \in Nat
      BY <1>1, <1>2, <3>1
    <3> QED BY ONLY <3>2, <3>3, <3>4
  <2> QED BY <2>1, <2>2
<1>7. i \in Members(b)
  BY <1>1, <1>2, <1>6 DEF Members
<1>8. ASSUME NEW c \in Blocks, NEW d \in Blocks, i \in Members(c), i \in Members(d), c < d
      PROVE FALSE
  <2>1. i <= prog.last[c] /\ First(d) <= i
    BY <1>8 DEF Members
  <2> QED BY <1>1, <1>2, <1>8, <2>1
<1>9. \A c, d \in Blocks : c = d \/ c < d \/ d < c
  BY <1>1
<1> QED BY <1>7, <1>8, <1>9

\* Control falls through empty blocks, and they hand on what is live.
LEMMA EmptyBlocks ==
    ASSUME Placed, NEW b \in Blocks, NEW c \in Blocks, b <= c, First(b) = First(c)
    PROVE  live_in[c] \subseteq live_in[b]
<1> USE PlacedBasics
<1> DEFINE N == Len(prog.last)
           T == {k \in 0 .. N : k \in Blocks /\ b <= k /\ First(b) = First(k)
                                  => live_in[k] \subseteq live_in[b]}
<1>1. Blocks = 1 .. N /\ N \in Nat /\ Len(prog.insts) \in Nat
  BY BlockFacts
<1>2. /\ \A d \in Blocks : /\ prog.last[d] \in 0 .. Len(prog.insts)
                           /\ First(d) \in 1 .. Len(prog.insts) + 1
                           /\ First(d) <= prog.last[d] + 1
      /\ \A d, e \in Blocks : d < e => prog.last[d] < First(e)
  BY BlockOrder
<1>3. \A d \in Blocks : Solved(d)
  BY DEF Placed, PlaceInv
<1>4. 0 \in T
  BY <1>1
<1>5. ASSUME NEW k \in 1 .. N, k - 1 \in T PROVE k \in T
  <2> SUFFICES ASSUME b <= k, First(b) = First(k) PROVE live_in[k] \subseteq live_in[b]
    BY <1>1
  <2>1. CASE k = b
    BY <2>1
  <2>2. CASE k # b
    <3> DEFINE e == k - 1
    <3>1. e \in Blocks /\ b <= e /\ k \in Blocks /\ k = e + 1 /\ e < k /\ k # 1 /\ e \in Nat
      BY <1>1, <2>2
    <3> HIDE DEF e
    <3>2. First(k) = prog.last[e] + 1
      BY <3>1 DEF First, e
    <3>3. First(b) <= First(e)
      <4>1. CASE b = e
        BY <1>1, <1>2, <3>1, <4>1
      <4>2. CASE b # e
        <5>1. b < e
          BY <1>1, <3>1, <4>2
        <5>2. prog.last[b] < First(e) /\ First(b) <= prog.last[b] + 1
          BY <1>2, <3>1, <5>1
        <5>3. prog.last[b] \in Nat /\ First(e) \in Nat /\ First(b) \in Nat
          BY <1>1, <1>2, <3>1
        <5> QED BY ONLY <5>2, <5>3
      <4> QED BY <4>1, <4>2
    <3>4. First(e) \in Nat /\ prog.last[e] \in Nat /\ First(b) \in Nat
          /\ First(e) <= prog.last[e] + 1
      BY <1>1, <1>2, <3>1
    <3>5. First(e) = First(b) /\ First(e) > prog.last[e]
      BY <2>2, <3>2, <3>3, <3>4
    <3>6. Members(e) = {}
      BY <3>4, <3>5 DEF Members
    <3>7. k \in successors(e) /\ Points(e) = {}
      BY <3>1, <3>6 DEF successors, Points
    <3>8. def(e) = {}
      BY <3>7 DEF def
    <3>9. live_in[k] \subseteq live_in[e]
      BY <1>3, <3>1, <3>7, <3>8 DEF Solved
    <3>10. live_in[e] \subseteq live_in[b]
      BY <1>5, <3>1, <3>5 DEF e
    <3> QED BY <3>9, <3>10
  <2> QED BY <2>1, <2>2
<1>6. T = 0 .. N
  <2>1. T \in SUBSET (0 .. N)
    OBVIOUS
  <2>2. \A k \in 1 .. N : k - 1 \in T => k \in T
    BY <1>5
  <2> HIDE DEF T
  <2> QED BY <1>1, <1>4, <2>1, <2>2, UpTo
<1>7. c \in T
  BY <1>1, <1>6
<1> QED BY <1>7

\* Control that leaves a block lands at the start of a block, and what is
\* live there is live at the end of the block it left.
LEMMA Landing ==
    ASSUME Placed, NEW b \in Blocks, NEW s \in successors(b), NEW n \in Idx, n = First(s),
           NEW c \in Blocks, n \in Members(c)
    PROVE  /\ n = First(c)
           /\ From(c, <<n, 1>>) = Points(c)
           /\ live_in[c] \subseteq live_out[b]
<1> USE PlacedBasics
<1>1. /\ Blocks = 1 .. Len(prog.last) /\ Len(prog.last) \in Nat
      /\ Idx = 1 .. Len(prog.insts) /\ Len(prog.insts) \in Nat
      /\ s \in Blocks
  BY BlockFacts
<1>2. /\ \A d \in Blocks : /\ prog.last[d] \in 0 .. Len(prog.insts)
                           /\ First(d) \in 1 .. Len(prog.insts) + 1
                           /\ First(d) <= prog.last[d] + 1
      /\ \A d, e \in Blocks : d < e => prog.last[d] < First(e)
  BY BlockOrder
<1>3. First(c) <= n /\ n <= prog.last[c]
  BY DEF Members
<1>4. s <= c
  <2> SUFFICES ASSUME c < s PROVE FALSE
    BY <1>1
  <2>1. prog.last[c] < First(s) /\ prog.last[c] \in Nat /\ First(s) \in Nat
    BY <1>1, <1>2
  <2> QED BY <1>3, <2>1
<1>5. First(s) <= First(c)
  <2>1. CASE s = c
    BY <1>1, <1>2, <2>1
  <2>2. CASE s # c
    <3>1. s < c
      BY <1>1, <1>4, <2>2
    <3>2. prog.last[s] < First(c) /\ First(s) <= prog.last[s] + 1
      BY <1>1, <1>2, <3>1
    <3>3. prog.last[s] \in Nat /\ First(c) \in Nat /\ First(s) \in Nat
      BY <1>1, <1>2
    <3> QED BY ONLY <3>2, <3>3
  <2> QED BY <2>1, <2>2
<1>6. n = First(c)
  <2>1. First(c) \in Nat /\ n \in Nat
    BY <1>1, <1>2
  <2> QED BY <1>3, <1>5, <2>1
<1>7. From(c, <<n, 1>>) = Points(c)
  BY <1>6, Cuts
<1>8. live_in[c] \subseteq live_in[s]
  BY <1>1, <1>4, <1>6, EmptyBlocks
<1>9. live_in[s] \subseteq live_out[b]
  BY DEF Placed, PlaceInv, Solved
<1> QED BY <1>6, <1>7, <1>8, <1>9

\* The blocks that an instruction reaches.
LEMMA Leaving ==
    ASSUME ProgOK, NEW b \in Blocks, NEW i \in Members(b)
    PROVE  /\ Inst(i).to \subseteq successors(b)
           /\ Inst(i).exit = "next" /\ i + 1 \in Idx /\ i + 1 \notin Members(b) =>
                 i = prog.last[b] /\ \E s \in successors(b) : First(s) = i + 1
<1>1. Inst(i).to \subseteq successors(b)
  BY DEF successors, Targets
<1>2. ASSUME Inst(i).exit = "next", i + 1 \in Idx, i + 1 \notin Members(b)
      PROVE  i = prog.last[b] /\ \E s \in successors(b) : First(s) = i + 1
  <2>1. /\ Blocks = 1 .. Len(prog.last) /\ Len(prog.last) \in Nat
        /\ Idx = 1 .. Len(prog.insts) /\ Len(prog.insts) \in Nat /\ i \in Idx
    BY BlockFacts
  <2>2. /\ prog.last[b] \in 0 .. Len(prog.insts)
        /\ First(b) \in 1 .. Len(prog.insts) + 1
    BY BlockOrder
  <2>3. prog.last[Len(prog.last)] = Len(prog.insts)
    BY ProgramAssumption DEF ProgOK
  <2>4. i = prog.last[b]
    BY <1>2, <2>1, <2>2 DEF Members
  <2>5. b # Len(prog.last)
    BY <1>2, <2>1, <2>3, <2>4
  <2>6. b + 1 \in Blocks /\ b + 1 # 1 /\ (b + 1) - 1 = b
    BY <2>1, <2>5
  <2>7. First(b + 1) = i + 1
    BY <2>4, <2>6 DEF First
  <2>8. b + 1 \in successors(b)
    BY <1>2, <2>4, <2>6 DEF successors
  <2> QED BY <2>4, <2>7, <2>8
<1> QED BY <1>1, <1>2

-----------------------------------------------------------------------------
(* The code before allocation and the rewritten code, side by side.        *)

\* Where registers and slots a hold v.
LocIn(a, v) == IF Spilled(v) THEN a.slot[slot[v]] ELSE a.preg[preg[v]]

\* From x on, the rewritten code finds every value that it still needs: what
\* the code before allocation has in its registers f, and the constant in the
\* register of each copy.
Agree(b, x, f, a) ==
    /\ \A v \in VRegs : v < VCount /\ Needs(b, x, v) /\ f.vreg[v] # Undefined =>
          LocIn(a, v) = f.vreg[v]
    /\ \A e \in Replacements : Needs(b, x, Made(e[1], e[2])) =>
          LocIn(a, Made(e[1], e[2])) = Constant(definition(Inst(e[1]).reads[e[2]].v))
    /\ \A r \in Pregs \ Scratch : NeedsFixed(b, x, r) /\ f.preg[r] # Undefined =>
          a.preg[r] = f.preg[r]

Reserved(r) ==
    /\ \A k \in Idx : r \notin Inst(k).kills
    /\ \A fp \in BOOLEAN : \A n \in DOMAIN allocatable[fp] : allocatable[fp][n] # r

\* What holds at every point: a constant that has gone was never anything
\* else, and a register that nothing writes is the same on both sides.
Standing(f, a) ==
    /\ \A d \in Idx : Dropped(d) => f.vreg[Inst(d).def] \in {Undefined, Constant(d)}
    /\ \A r \in Pregs \ Scratch : Reserved(r) => a.preg[r] = f.preg[r]

LEMMA ReservedKept ==
    ASSUME Placed, NEW inst \in SafeInsts, TwoPerClass(inst), NEW i,
           NEW r \in Pregs \ Scratch, Reserved(r), r \notin inst.kills
    PROVE  RunAfter(inst, i).preg[r] = after.preg[r]
<1> USE PlacedBasics
<1>1. ASSUME inst.def # NONE, ~ Spilled(inst.def), preg[inst.def] = r PROVE FALSE
  <2>1. inst.def \in VRegs
    BY <1>1 DEF SafeInsts, Instruction
  <2>2. preg[inst.def] # NONE
    BY <1>1, RegisterAssumption DEF NONE
  <2>3. is_allocatable(inst.def, r)
    BY <1>1, <2>1, <2>2 DEF ScanInv, FixedRespected
  <2>4. iv[inst.def].fp \in BOOLEAN
    BY <2>1 DEF FloatOK
  <2> QED BY <2>3, <2>4 DEF Reserved, is_allocatable, class_registers
<1>2. RunAfter(inst, i).preg[r] =
             IF r \notin inst.kills THEN after.preg[r]
             ELSE IF inst.move THEN ValueOf(inst, i) ELSE Killed(i, r)
  BY <1>1, RegisterAfter
<1> QED BY <1>2

\* The store of a spilled result keeps the slots that there are.
LEMMA SlotsKept ==
    ASSUME NEW inst, NEW i
    PROVE  DOMAIN RunAfter(inst, i).slot = DOMAIN after.slot
BY AfterFields

\* A constant written again.
LEMMA CopyStep ==
    ASSUME Placed, WellSelected(prog), NEW b \in Blocks, NEW i \in Members(b),
           NEW k \in 1 .. Len(code[i]) - 1,
           Agree(b, <<i, k>>, before, after), Standing(before, after),
           NEW a, a = RunAfter(code[i][k].inst, code[i][k].at)
    PROVE  Agree(b, <<i, k + 1>>, before, a) /\ Standing(before, a)
<1> USE PlacedBasics, PlacedBuilt
<1> DEFINE x == <<i, k>>
           y == <<i, k + 1>>
           inst == code[i][k].inst
           at == code[i][k].at
<1>1. i \in Idx
  BY BlockFacts
<1>2. Follows(b, x, y) /\ x \in Points(b)
  <2>1. Follows(b, x, y)
    BY Cuts
  <2> QED BY <2>1 DEF Follows
<1>3. inst = At(x)
  BY DEF At
<1>4. ~ Dropped(i)
  BY <1>2, PointKinds
<1>5. PICK j \in DOMAIN Inst(i).reads : Replaced(i, j) /\ code[i][k] = CopyFor(i, j)
  BY <1>1, <1>4, CodeParts
<1> DEFINE c == Constant(definition(Inst(i).reads[j].v))
<1>6. /\ inst.kills = {} /\ ~ inst.move /\ inst.def = Made(i, j)
      /\ MadeBy(at) = c
  BY <1>1, <1>5, CopyInst DEF Built
<1>7. inst \in SafeInsts /\ TwoPerClass(inst)
  BY <1>2, <1>3, PointFacts, ItemsTwo
<1>8. /\ Made(i, j) \in Nat /\ Made(i, j) >= VCount /\ VCount \in Nat
      /\ Made(i, j) # NONE
  BY MadeAbove, InstFacts DEF NONE
<1> HIDE DEF x, y, inst, at, c
<1>9. ValueOf(inst, at) = c
  BY <1>6 DEF ValueOf
<1>10. /\ \A v \in VRegs : v # inst.def /\ Needs(b, y, v) =>
             Needs(b, x, v) /\ LocAfter(inst, at, v) = Loc(v)
       /\ inst.def # NONE => LocAfter(inst, at, inst.def) = ValueOf(inst, at)
       /\ \A r \in Pregs \ Scratch : NeedsFixed(b, y, r) =>
             (r \notin inst.kills =>
                   NeedsFixed(b, x, r) /\ RunAfter(inst, at).preg[r] = after.preg[r])
  <2>1. /\ \A v \in VRegs : v # inst.def /\ Needs(b, y, v) =>
                 Needs(b, x, v) /\ LocAfter(inst, at, v) = Loc(v)
        /\ inst.def # NONE => LocAfter(inst, at, inst.def) = ValueOf(inst, at)
        /\ \A r \in Pregs \ Scratch : NeedsFixed(b, y, r) =>
              /\ r \notin inst.kills =>
                    NeedsFixed(b, x, r) /\ RunAfter(inst, at).preg[r] = after.preg[r]
              /\ r \in inst.kills =>
                    RunAfter(inst, at).preg[r] =
                      IF inst.move THEN ValueOf(inst, at) ELSE Killed(at, r)
    BY ONLY Placed, b \in Blocks, <1>2, <1>3, <1>7, ItemRuns
  <2> QED BY <2>1
<1>11. a = RunAfter(inst, at) /\ Agree(b, x, before, after)
  BY DEF inst, at, x
<1>12. \A v : LocAfter(inst, at, v) = LocIn(a, v) /\ Loc(v) = LocIn(after, v)
  BY <1>11 DEF LocAfter, Loc, LocIn
<1>13. ASSUME NEW v \in VRegs, v < VCount, Needs(b, y, v), before.vreg[v] # Undefined
       PROVE  LocIn(a, v) = before.vreg[v]
  <2>1. v # inst.def
    BY <1>6, <1>8, <1>13, RegisterAssumption
  <2> QED BY <1>10, <1>11, <1>12, <1>13, <2>1 DEF Agree
<1>14. ASSUME NEW e \in Replacements, Needs(b, y, Made(e[1], e[2]))
       PROVE  LocIn(a, Made(e[1], e[2])) = Constant(definition(Inst(e[1]).reads[e[2]].v))
  <2>1. Made(e[1], e[2]) \in VRegs
    BY MadeAbove
  <2>2. CASE Made(e[1], e[2]) # inst.def
    <3>1. Needs(b, x, Made(e[1], e[2])) /\ LocAfter(inst, at, Made(e[1], e[2])) = Loc(Made(e[1], e[2]))
      BY <1>10, <1>14, <2>1, <2>2
    <3> QED BY <1>11, <1>12, <3>1 DEF Agree
  <2>3. CASE Made(e[1], e[2]) = inst.def
    <3> DEFINE d == <<i, j>>
    <3>1. d \in Replacements /\ Made(d[1], d[2]) = Made(e[1], e[2])
      BY <1>1, <1>5, <1>6, <2>3, ReplacementPairs
    <3> HIDE DEF d
    <3>2. d = e
      BY <3>1, MadeApart
    <3>3. e[1] = i /\ e[2] = j
      BY <3>2 DEF d
    <3>4. LocIn(a, Made(e[1], e[2])) = c
      BY <1>6, <1>8, <1>9, <1>10, <1>12, <2>3
    <3> QED BY <3>3, <3>4 DEF c
  <2> QED BY <2>2, <2>3
<1>15. ASSUME NEW r \in Pregs \ Scratch, NeedsFixed(b, y, r), before.preg[r] # Undefined
       PROVE  a.preg[r] = before.preg[r]
  <2>1. NeedsFixed(b, x, r) /\ a.preg[r] = after.preg[r]
    BY <1>6, <1>10, <1>11, <1>15
  <2> QED BY <1>11, <1>15, <2>1 DEF Agree
<1>16. Standing(before, a)
  <2>1. ASSUME NEW r \in Pregs \ Scratch, Reserved(r) PROVE a.preg[r] = before.preg[r]
    <3>1. RunAfter(inst, at).preg[r] = after.preg[r]
      BY <1>6, <1>7, <2>1, ReservedKept
    <3> QED BY <1>11, <2>1, <3>1 DEF Standing
  <2> QED BY <2>1 DEF Standing
<1>17. Agree(b, y, before, a)
  BY <1>13, <1>14, <1>15 DEF Agree
<1> QED BY <1>16, <1>17 DEF y

\* What an instruction itself is in the rewritten code.
LEMMA KeptPoint ==
    ASSUME Placed, WellSelected(prog), NEW b \in Blocks, NEW i \in Members(b),
           code[i] # <<>>, NEW x, x = <<i, Len(code[i])>>, NEW inst, inst = At(x)
    PROVE  /\ i \in Idx /\ ~ Dropped(i) /\ inst = Kept(i).inst
           /\ x \in Points(b) /\ Follows(b, x, <<i + 1, 1>>)
           /\ inst \in SafeInsts /\ TwoPerClass(inst)
<1> USE PlacedBasics, PlacedBuilt
<1>1. i \in Idx
  BY BlockFacts
<1>2. Follows(b, x, <<i + 1, 1>>)
  BY Cuts
<1>3. x \in Points(b) /\ x[1] = i
  BY <1>2 DEF Follows
<1>4. ~ Dropped(i)
  BY <1>1, CodeParts
<1>5. inst = Kept(i).inst
  BY <1>1, <1>4, CodeParts DEF At
<1>6. inst \in SafeInsts /\ TwoPerClass(inst)
  BY <1>3, PointFacts, ItemsTwo
<1> QED BY <1>1, <1>2, <1>3, <1>4, <1>5, <1>6

\* An instruction reads in its operands and in the registers it names what it
\* reads before allocation.
LEMMA InstReads ==
    ASSUME Placed, WellSelected(prog), NEW b \in Blocks, NEW i \in Members(b),
           code[i] # <<>>, NEW x, x = <<i, Len(code[i])>>, NEW inst, inst = At(x),
           Agree(b, x, before, after), Standing(before, after)
    PROVE  /\ \A j \in DOMAIN Inst(i).reads :
                 before.vreg[Inst(i).reads[j].v] # Undefined =>
                    Reloaded(inst)[place(inst, inst.reads[j].v)] =
                      before.vreg[Inst(i).reads[j].v]
           /\ \A r \in Inst(i).uses :
                 before.preg[r] # Undefined => Reloaded(inst)[r] = before.preg[r]
<1> USE PlacedBasics, PlacedBuilt
<1>1. /\ i \in Idx /\ inst = Kept(i).inst
      /\ Follows(b, x, <<i + 1, 1>>)
      /\ inst \in SafeInsts /\ TwoPerClass(inst)
  BY KeptPoint
<1>2. /\ inst.uses = Inst(i).uses
      /\ DOMAIN inst.reads = DOMAIN Inst(i).reads
      /\ \A j \in DOMAIN Inst(i).reads :
            inst.reads[j].v = IF Replaced(i, j) THEN Made(i, j) ELSE Inst(i).reads[j].v
  BY <1>1, KeptInst
<1>3. /\ \A j \in DOMAIN inst.reads :
            /\ Needs(b, x, inst.reads[j].v)
            /\ Reloaded(inst)[place(inst, inst.reads[j].v)] = Loc(inst.reads[j].v)
      /\ \A r \in Pregs \ Scratch : r \in inst.uses =>
            NeedsFixed(b, x, r) /\ Reloaded(inst)[r] = after.preg[r]
  <2> DEFINE y == <<i + 1, 1>>
  <2>1. Follows(b, x, y)
    BY <1>1
  <2> HIDE DEF y
  <2> QED BY ONLY Placed, b \in Blocks, <1>1, <2>1, inst = At(x), ItemRuns
<1>4. \A v : Loc(v) = LocIn(after, v)
  BY DEF Loc, LocIn
<1>5. ASSUME NEW j \in DOMAIN Inst(i).reads, before.vreg[Inst(i).reads[j].v] # Undefined
      PROVE  Loc(inst.reads[j].v) = before.vreg[Inst(i).reads[j].v]
  <2>1. Needs(b, x, inst.reads[j].v)
    BY <1>2, <1>3
  <2>2. CASE ~ Replaced(i, j)
    <3>1. /\ inst.reads[j].v = Inst(i).reads[j].v
          /\ Inst(i).reads[j].v \in VRegs /\ Inst(i).reads[j].v < VCount
      BY <1>1, <1>2, <2>2, OperandsSelected DEF Built
    <3> QED BY <1>4, <1>5, <2>1, <3>1 DEF Agree
  <2>3. CASE Replaced(i, j)
    <3> DEFINE e == <<i, j>>
               d == definition(Inst(i).reads[j].v)
    <3>1. e \in Replacements /\ inst.reads[j].v = Made(e[1], e[2])
      BY <1>1, <1>2, <2>3, ReplacementPairs
    <3>2. LocIn(after, Made(e[1], e[2])) = Constant(definition(Inst(e[1]).reads[e[2]].v))
      BY <2>1, <3>1 DEF Agree
    <3>3. LocIn(after, inst.reads[j].v) = Constant(d)
      BY <3>1, <3>2
    <3>4. d \in Idx /\ Dropped(d) /\ Inst(d).def = Inst(i).reads[j].v
      BY <1>1, <2>3, ReplacedBy
    <3> HIDE DEF d
    <3>5. before.vreg[Inst(d).def] \in {Undefined, Constant(d)}
      BY <3>4 DEF Standing
    <3> QED BY <1>4, <1>5, <3>3, <3>4, <3>5
  <2> QED BY <2>2, <2>3
<1>6. ASSUME NEW r \in Inst(i).uses, before.preg[r] # Undefined
      PROVE  Reloaded(inst)[r] = before.preg[r]
  <2>1. r \in Pregs \ Scratch
    <3>1. InstSelected(prog, i)
      BY <1>1 DEF Built, WellSelected, Idx
    <3>2. \A fp \in BOOLEAN : r # scratch[fp][1] /\ r # scratch[fp][2]
      BY <3>1 DEF InstSelected, Inst
    <3>3. r \in Pregs
      BY <1>1, InstFacts DEF SafeInsts, Instruction
    <3> QED BY <3>2, <3>3 DEF Scratch
  <2>2. NeedsFixed(b, x, r) /\ Reloaded(inst)[r] = after.preg[r]
    BY <1>2, <1>3, <2>1
  <2> QED BY <1>6, <2>1, <2>2 DEF Agree
<1>7. ASSUME NEW j \in DOMAIN Inst(i).reads, before.vreg[Inst(i).reads[j].v] # Undefined
      PROVE  Reloaded(inst)[place(inst, inst.reads[j].v)] = before.vreg[Inst(i).reads[j].v]
  BY <1>2, <1>3, <1>5, <1>7
<1> QED BY <1>6, <1>7

\* What instruction i computes before allocation.
ValueBefore(i) ==
    IF Inst(i).move THEN Copied(Inst(i), before.vreg, before.preg) ELSE MadeBy(i)

LEMMA BeforeFields ==
    ASSUME NEW i
    PROVE  /\ \A v \in 0 .. VCount - 1 : RunBefore(i).vreg[v] =
                 IF v = Inst(i).def THEN ValueBefore(i) ELSE before.vreg[v]
           /\ \A r \in Pregs : RunBefore(i).preg[r] =
                 IF r \notin Inst(i).kills THEN before.preg[r]
                 ELSE IF Inst(i).move THEN ValueBefore(i) ELSE Killed(i, r)
<1> DEFINE value == ValueBefore(i)
<1>1. /\ RunBefore(i).vreg = [v \in 0 .. VCount - 1 |->
                                IF v = Inst(i).def THEN value ELSE before.vreg[v]]
      /\ RunBefore(i).preg = [r \in Pregs |->
                                IF r \notin Inst(i).kills THEN before.preg[r]
                                ELSE IF Inst(i).move THEN value ELSE Killed(i, r)]
  BY DEF RunBefore, ValueBefore
<1> HIDE DEF value
<1> QED BY <1>1 DEF value

\* So it computes the same.
LEMMA ValueSame ==
    ASSUME Placed, WellSelected(prog), NEW b \in Blocks, NEW i \in Members(b),
           code[i] # <<>>, NEW x, x = <<i, Len(code[i])>>, NEW inst, inst = At(x),
           Agree(b, x, before, after), Standing(before, after),
           ValueBefore(i) # Undefined
    PROVE  ValueOf(inst, i) = ValueBefore(i)
<1> USE PlacedBasics, PlacedBuilt
<1>1. i \in Idx /\ inst = Kept(i).inst
  BY KeptPoint
<1>2. /\ inst.uses = Inst(i).uses /\ inst.move = Inst(i).move
      /\ DOMAIN inst.reads = DOMAIN Inst(i).reads
      /\ inst.reads # <<>> <=> Inst(i).reads # <<>>
  BY <1>1, KeptInst
<1>3. /\ \A j \in DOMAIN Inst(i).reads :
            before.vreg[Inst(i).reads[j].v] # Undefined =>
               Reloaded(inst)[place(inst, inst.reads[j].v)] =
                 before.vreg[Inst(i).reads[j].v]
      /\ \A r \in Inst(i).uses :
            before.preg[r] # Undefined => Reloaded(inst)[r] = before.preg[r]
  BY InstReads
<1> DEFINE vregs == [v \in {inst.reads[j].v : j \in DOMAIN inst.reads} |->
                       Reloaded(inst)[place(inst, v)]]
<1>4. CASE ~ Inst(i).move
  BY <1>2, <1>4 DEF ValueOf, ValueBefore
<1>5. CASE Inst(i).move /\ Inst(i).reads # <<>>
  <2>1. 1 \in DOMAIN Inst(i).reads
    <3>1. Inst(i).reads \in Seq(Operand)
      BY <1>1, InstFacts
    <3> QED BY <1>5, <3>1
  <2>2. inst.reads[1].v \in {inst.reads[j].v : j \in DOMAIN inst.reads}
    BY <1>2, <2>1
  <2>3. ValueOf(inst, i) = vregs[inst.reads[1].v]
    BY <1>2, <1>5 DEF ValueOf, Copied
  <2>4. ValueOf(inst, i) = Reloaded(inst)[place(inst, inst.reads[1].v)]
    BY <2>2, <2>3
  <2>5. ValueBefore(i) = before.vreg[Inst(i).reads[1].v]
    BY <1>5 DEF ValueBefore, Copied
  <2> QED BY <1>3, <2>1, <2>4, <2>5
<1>6. CASE Inst(i).move /\ Inst(i).reads = <<>>
  <2>1. Inst(i).uses # {}
    <3>1. InstSelected(prog, i)
      BY <1>1 DEF Built, WellSelected, Idx
    <3> QED BY <1>6, <3>1 DEF InstSelected, Inst
  <2> DEFINE r == CHOOSE q \in Inst(i).uses : TRUE
  <2>2. r \in Inst(i).uses
    BY <2>1
  <2>3. ValueOf(inst, i) = Reloaded(inst)[r]
    BY <1>2, <1>6 DEF ValueOf, Copied
  <2>4. ValueBefore(i) = before.preg[r]
    BY <1>6 DEF ValueBefore, Copied
  <2> HIDE DEF r
  <2> QED BY <1>3, <2>2, <2>3, <2>4
<1> QED BY <1>4, <1>5, <1>6

LEMMA DroppedDef ==
    ASSUME ProgOK, WellSelected(prog), NEW d \in Idx, Dropped(d)
    PROVE  Inst(d).def \in 0 .. VCount - 1 /\ ~ many(Inst(d).def)
<1>1. Inst(d).def < VCount /\ Inst(d).def \in VRegs \cup {NONE} /\ Inst(d).def # NONE
  BY OperandsSelected, DroppedInst
<1>2. Inst(d).def \in VRegs
  BY <1>1
<1>3. Inst(d).def \in Nat /\ VCount \in Nat
  BY <1>2, InstFacts, RegisterAssumption
<1> QED BY <1>1, <1>3 DEF Dropped

\* An instruction.
LEMMA InstStep ==
    ASSUME Placed, WellSelected(prog), NEW b \in Blocks, NEW i \in Members(b),
           code[i] # <<>>, NEW x, x = <<i, Len(code[i])>>, NEW inst, inst = At(x),
           Agree(b, x, before, after), Standing(before, after),
           NEW f, f = RunBefore(i), NEW a, a = RunAfter(inst, i)
    PROVE  Agree(b, <<i + 1, 1>>, f, a) /\ Standing(f, a)
<1> USE PlacedBasics, PlacedBuilt
<1> DEFINE y == <<i + 1, 1>>
<1>1. /\ i \in Idx /\ inst = Kept(i).inst /\ ~ Dropped(i)
      /\ Follows(b, x, y)
      /\ inst \in SafeInsts /\ TwoPerClass(inst)
  BY KeptPoint
<1> HIDE DEF y
<1>2. inst.def = Inst(i).def /\ inst.kills = Inst(i).kills /\ inst.move = Inst(i).move
  BY <1>1, KeptInst
<1>3. /\ \A v \in VRegs : v # inst.def /\ Needs(b, y, v) =>
               Needs(b, x, v) /\ LocAfter(inst, i, v) = Loc(v)
      /\ inst.def # NONE => LocAfter(inst, i, inst.def) = ValueOf(inst, i)
      /\ \A r \in Pregs \ Scratch : NeedsFixed(b, y, r) =>
            /\ r \notin inst.kills =>
                  NeedsFixed(b, x, r) /\ RunAfter(inst, i).preg[r] = after.preg[r]
            /\ r \in inst.kills =>
                  RunAfter(inst, i).preg[r] =
                    IF inst.move THEN ValueOf(inst, i) ELSE Killed(i, r)
  BY ONLY Placed, b \in Blocks, <1>1, inst = At(x), ItemRuns
<1>4. ValueBefore(i) # Undefined => ValueOf(inst, i) = ValueBefore(i)
  BY ValueSame
<1>5. /\ \A v \in 0 .. VCount - 1 : f.vreg[v] =
               IF v = Inst(i).def THEN ValueBefore(i) ELSE before.vreg[v]
      /\ \A r \in Pregs : f.preg[r] =
               IF r \notin Inst(i).kills THEN before.preg[r]
               ELSE IF Inst(i).move THEN ValueBefore(i) ELSE Killed(i, r)
  BY BeforeFields
<1>6. \A v : LocAfter(inst, i, v) = LocIn(a, v) /\ Loc(v) = LocIn(after, v)
  BY DEF LocAfter, Loc, LocIn
<1>7. /\ Inst(i).def < VCount /\ Inst(i).def \in VRegs \cup {NONE}
      /\ VCount \in Nat /\ VRegs \subseteq Nat
  BY <1>1, OperandsSelected, InstFacts, RegisterAssumption DEF Built
<1>8. ASSUME NEW v \in VRegs, v < VCount, Needs(b, y, v), f.vreg[v] # Undefined
      PROVE  LocIn(a, v) = f.vreg[v]
  <2>1. v \in 0 .. VCount - 1 /\ v # NONE
    BY <1>7, <1>8 DEF NONE
  <2>2. CASE v = inst.def
    <3>1. f.vreg[v] = ValueBefore(i)
      BY <1>2, <1>5, <2>1, <2>2
    <3>2. LocIn(a, v) = ValueOf(inst, i)
      BY <1>3, <1>6, <2>1, <2>2
    <3> QED BY <1>4, <1>8, <3>1, <3>2
  <2>3. CASE v # inst.def
    <3>1. f.vreg[v] = before.vreg[v]
      BY <1>2, <1>5, <2>1, <2>3
    <3>2. Needs(b, x, v) /\ LocIn(a, v) = LocIn(after, v)
      BY <1>3, <1>6, <1>8, <2>3
    <3> QED BY <1>8, <3>1, <3>2 DEF Agree
  <2> QED BY <2>2, <2>3
<1>9. ASSUME NEW e \in Replacements, Needs(b, y, Made(e[1], e[2]))
      PROVE  LocIn(a, Made(e[1], e[2])) = Constant(definition(Inst(e[1]).reads[e[2]].v))
  <2>1. Made(e[1], e[2]) \in VRegs /\ Made(e[1], e[2]) >= VCount /\ Made(e[1], e[2]) \in Nat
    BY MadeAbove
  <2>2. Made(e[1], e[2]) # inst.def
    BY <1>2, <1>7, <2>1 DEF NONE
  <2>3. /\ Needs(b, x, Made(e[1], e[2]))
        /\ LocIn(a, Made(e[1], e[2])) = LocIn(after, Made(e[1], e[2]))
    BY <1>3, <1>6, <1>9, <2>1, <2>2
  <2> QED BY <2>3 DEF Agree
<1>10. ASSUME NEW r \in Pregs \ Scratch, NeedsFixed(b, y, r), f.preg[r] # Undefined
       PROVE  a.preg[r] = f.preg[r]
  <2>1. CASE r \notin inst.kills
    <3>1. f.preg[r] = before.preg[r]
      BY <1>2, <1>5, <2>1
    <3>2. NeedsFixed(b, x, r) /\ a.preg[r] = after.preg[r]
      BY <1>3, <1>10, <2>1
    <3> QED BY <1>10, <3>1, <3>2 DEF Agree
  <2>2. CASE r \in inst.kills
    <3>1. f.preg[r] = IF inst.move THEN ValueBefore(i) ELSE Killed(i, r)
      BY <1>2, <1>5, <2>2
    <3>2. a.preg[r] = IF inst.move THEN ValueOf(inst, i) ELSE Killed(i, r)
      BY <1>3, <1>10, <2>2
    <3> QED BY <1>4, <1>10, <3>1, <3>2
  <2> QED BY <2>1, <2>2
<1>11. Standing(f, a)
  <2>1. ASSUME NEW d \in Idx, Dropped(d)
        PROVE  f.vreg[Inst(d).def] \in {Undefined, Constant(d)}
    <3>1. Inst(d).def \in 0 .. VCount - 1 /\ ~ many(Inst(d).def)
      BY <2>1, DroppedDef DEF Built
    <3>2. Inst(d).def # Inst(i).def
      BY <1>1, <2>1, <3>1, OneDefinition
    <3>3. f.vreg[Inst(d).def] = before.vreg[Inst(d).def]
      BY <1>5, <3>1, <3>2
    <3> QED BY <2>1, <3>3 DEF Standing
  <2>2. ASSUME NEW r \in Pregs \ Scratch, Reserved(r) PROVE a.preg[r] = f.preg[r]
    <3>1. r \notin inst.kills
      BY <1>1, <1>2, <2>2 DEF Reserved
    <3>2. a.preg[r] = after.preg[r]
      BY <1>1, <2>2, <3>1, ReservedKept
    <3>3. f.preg[r] = before.preg[r]
      BY <1>2, <1>5, <3>1
    <3> QED BY <2>2, <3>2, <3>3 DEF Standing
  <2> QED BY <2>1, <2>2 DEF Standing
<1>12. Agree(b, y, f, a)
  BY <1>8, <1>9, <1>10 DEF Agree
<1> QED BY <1>11, <1>12 DEF y

\* Nothing, where a constant was defined.
LEMMA DroppedStep ==
    ASSUME Placed, WellSelected(prog), NEW b \in Blocks, NEW i \in Members(b),
           code[i] = <<>>,
           Agree(b, <<i, 1>>, before, after), Standing(before, after),
           NEW f, f = RunBefore(i)
    PROVE  Agree(b, <<i + 1, 1>>, f, after) /\ Standing(f, after)
<1> USE PlacedBasics, PlacedBuilt
<1> DEFINE x == <<i, 1>>
           y == <<i + 1, 1>>
<1>1. i \in Idx /\ Dropped(i)
  <2>1. i \in Idx
    BY BlockFacts
  <2>2. code[i] # <<>> \/ Dropped(i)
    <3>1. ~ Dropped(i) => Len(code[i]) >= 1
      BY <2>1, CodeParts
    <3> QED BY <3>1
  <2> QED BY <2>1, <2>2
<1>2. From(b, y) = From(b, x)
  BY Cuts
<1> HIDE DEF x, y
<1>3. /\ \A v : Needs(b, y, v) <=> Needs(b, x, v)
      /\ \A r : NeedsFixed(b, y, r) <=> NeedsFixed(b, x, r)
  BY <1>2 DEF Needs, NeedsFixed
<1>4. Inst(i).kills = {} /\ ~ Inst(i).move /\ Inst(i).imm /\ Inst(i).reads = <<>>
  BY <1>1, DroppedInst DEF Built
<1>5. ValueBefore(i) = Constant(i)
  BY <1>4 DEF ValueBefore, MadeBy
<1>6. /\ \A v \in 0 .. VCount - 1 : f.vreg[v] =
               IF v = Inst(i).def THEN Constant(i) ELSE before.vreg[v]
      /\ \A r \in Pregs : f.preg[r] = before.preg[r]
  BY <1>4, <1>5, BeforeFields
<1>7. VCount \in Nat /\ VRegs \subseteq Nat
  BY InstFacts, RegisterAssumption
<1>8. Agree(b, x, before, after)
  BY DEF x
<1>9. ASSUME NEW v \in VRegs, v < VCount, Needs(b, y, v), f.vreg[v] # Undefined
      PROVE  LocIn(after, v) = f.vreg[v]
  <2>1. v # Inst(i).def
    BY <1>1, <1>9, DroppedUnneeded
  <2>2. v \in 0 .. VCount - 1
    BY <1>7, <1>9
  <2>3. f.vreg[v] = before.vreg[v]
    BY <1>6, <2>1, <2>2
  <2> QED BY <1>3, <1>8, <1>9, <2>3 DEF Agree
<1>10. Agree(b, y, f, after)
  <2>1. ASSUME NEW e \in Replacements, Needs(b, y, Made(e[1], e[2]))
        PROVE  LocIn(after, Made(e[1], e[2])) =
                 Constant(definition(Inst(e[1]).reads[e[2]].v))
    BY <1>3, <1>8, <2>1 DEF Agree
  <2>2. ASSUME NEW r \in Pregs \ Scratch, NeedsFixed(b, y, r), f.preg[r] # Undefined
        PROVE  after.preg[r] = f.preg[r]
    BY <1>3, <1>6, <1>8, <2>2 DEF Agree
  <2> QED BY <1>9, <2>1, <2>2 DEF Agree
<1>11. Standing(f, after)
  <2>1. ASSUME NEW d \in Idx, Dropped(d)
        PROVE  f.vreg[Inst(d).def] \in {Undefined, Constant(d)}
    <3>1. Inst(d).def \in 0 .. VCount - 1 /\ ~ many(Inst(d).def)
      BY <2>1, DroppedDef DEF Built
    <3>2. CASE d = i
      BY <1>6, <3>1, <3>2
    <3>3. CASE d # i
      <4>1. Inst(d).def # Inst(i).def
        BY <1>1, <3>1, <3>3, OneDefinition
      <4>2. f.vreg[Inst(d).def] = before.vreg[Inst(d).def]
        BY <1>6, <3>1, <4>1
      <4> QED BY <2>1, <4>2 DEF Standing
    <3> QED BY <3>2, <3>3
  <2>2. ASSUME NEW r \in Pregs \ Scratch, Reserved(r) PROVE after.preg[r] = f.preg[r]
    BY <1>6, <2>2 DEF Standing
  <2> QED BY <2>1, <2>2 DEF Standing
<1> QED BY <1>10, <1>11 DEF y

LEMMA SameBlockMember ==
    ASSUME ProgOK, NEW c \in Blocks, NEW i \in Members(c), NEW k \in Idx,
           SameBlock(prog, k, i)
    PROVE  k \in Members(c)
<1>1. /\ Blocks = 1 .. Len(prog.last) /\ Len(prog.last) \in Nat
      /\ Idx = 1 .. Len(prog.insts) /\ Len(prog.insts) \in Nat
      /\ i \in Idx
  BY BlockFacts
<1>2. \A d \in Blocks : prog.last[d] \in Nat /\ First(d) \in Nat
  BY <1>1, BlockOrder
<1>3. First(c) <= i /\ i <= prog.last[c]
  BY DEF Members
<1>4. \A d \in Blocks : k <= prog.last[d] <=> i <= prog.last[d]
  BY DEF SameBlock, Blocks
<1>5. k <= prog.last[c]
  BY <1>3, <1>4
<1>6. First(c) <= k
  <2>1. CASE c = 1
    BY <1>1, <2>1 DEF First
  <2>2. CASE c # 1
    <3>1. c - 1 \in Blocks /\ First(c) = prog.last[c - 1] + 1
      BY <1>1, <2>2 DEF First
    <3>2. prog.last[c - 1] \in Nat /\ i \in Nat /\ k \in Nat
      BY <1>1, <1>2, <3>1
    <3>3. ~ (i <= prog.last[c - 1])
      BY ONLY <1>3, <3>1, <3>2
    <3>4. ~ (k <= prog.last[c - 1])
      BY <1>4, <3>1, <3>3
    <3> QED BY ONLY <3>1, <3>2, <3>4
  <2> QED BY <2>1, <2>2
<1>7. k \in Int /\ First(c) \in Int /\ prog.last[c] \in Int
  BY <1>1, <1>2
<1> QED BY <1>5, <1>6, <1>7 DEF Members

\* A register that a block reads before it writes it is reserved, or the block
\* is the first one and control enters it only once.
LEMMA FixedAtStart ==
    ASSUME Placed, WellSelected(prog), NEW c \in Blocks, NEW x, From(c, x) = Points(c),
           NEW r \in Pregs, NeedsFixed(c, x, r)
    PROVE  \/ Reserved(r)
           \/ /\ 1 \in Members(c)
              /\ \A k \in Idx : \A b \in Inst(k).to : b > 1 /\ prog.last[b - 1] > 0
<1> USE PlacedBasics, PlacedBuilt
<1>1. PICK u \in Points(c) : r \in At(u).uses /\ \A z \in Points(c) :
                                 Earlier(z, u) => r \notin At(z).kills
  BY DEF NeedsFixed
<1> DEFINE i == u[1]
<1>2. i \in Idx /\ i \in Members(c) /\ i \in 1 .. Len(prog.insts)
  BY PointKinds, PointFacts
<1>3. ~ \E j \in DOMAIN Inst(i).reads : Replaced(i, j) /\ At(u) = CopyFor(i, j).inst
  <2> SUFFICES ASSUME NEW j \in DOMAIN Inst(i).reads, Replaced(i, j),
                      At(u) = CopyFor(i, j).inst
               PROVE  FALSE
    OBVIOUS
  <2>1. At(u).uses = {}
    BY <1>2, CopyInst DEF Built
  <2> QED BY <1>1, <2>1
<1>4. At(u) = Kept(i).inst
  BY <1>3, PointKinds
<1>5. r \in Inst(i).uses
  BY <1>1, <1>2, <1>4, KeptInst
<1>6. InstSelected(prog, i)
  BY <1>2 DEF Built, WellSelected, Idx
<1>7. HoldsParameter(prog, i, r)
  BY <1>5, <1>6 DEF InstSelected, Inst
<1>8. Idx = 1 .. Len(prog.insts) /\ Len(prog.insts) \in Nat
  BY BlockFacts
<1>9. CASE \E k \in 1 .. i - 1 : SameBlock(prog, k, i) /\ r \in prog.insts[k].kills
  <2>1. PICK k \in 1 .. i - 1 : SameBlock(prog, k, i) /\ r \in Inst(k).kills
    BY <1>9 DEF Inst
  <2>2. k \in Idx /\ k < i
    BY <1>2, <1>8
  <2>3. k \in Members(c)
    BY <1>2, <2>1, <2>2, SameBlockMember
  <2>4. code[k] # <<>>
    <3>1. ~ Dropped(k)
      BY <2>1, <2>2, DroppedInst DEF Built
    <3> QED BY <2>2, <3>1, CodeParts
  <2> DEFINE z == <<k, Len(code[k])>>
  <2>5. z \in Points(c) /\ At(z) = Kept(k).inst
    <3> HIDE DEF z
    <3>1. z = <<k, Len(code[k])>>
      BY DEF z
    <3> QED BY <2>3, <2>4, <3>1, KeptPoint
  <2>6. r \in At(z).kills
    BY <2>1, <2>2, <2>5, KeptInst
  <2>7. Earlier(z, u)
    BY <2>2 DEF Earlier
  <2> HIDE DEF z
  <2> QED BY <1>1, <2>5, <2>6, <2>7
<1>10. CASE /\ SameBlock(prog, 1, i)
            /\ \A k \in DOMAIN prog.insts : \A b \in prog.insts[k].to :
                  b > 1 /\ prog.last[b - 1] > 0
  <2>1. 1 \in Idx
    BY <1>2, <1>8
  <2>2. 1 \in Members(c)
    BY <1>2, <1>10, <2>1, SameBlockMember
  <2> QED BY <1>10, <2>2 DEF Inst, Idx
<1>11. CASE /\ \A k \in DOMAIN prog.insts : r \notin prog.insts[k].kills
            /\ \A fp \in BOOLEAN : \A n \in DOMAIN allocatable[fp] : allocatable[fp][n] # r
  BY <1>11 DEF Reserved, Inst, Idx
<1> QED BY <1>7, <1>9, <1>10, <1>11 DEF HoldsParameter

\* Control moves on.
LEMMA Moves ==
    ASSUME Placed, WellSelected(prog), NEW b \in Blocks, NEW i \in Members(b),
           NEW f, NEW a, Agree(b, <<i + 1, 1>>, f, a), Standing(f, a),
           NEW n \in Idx,
           \/ \E s \in Inst(i).to : n = First(s)
           \/ Inst(i).exit = "next" /\ n = i + 1,
           NEW c \in Blocks, n \in Members(c)
    PROVE  Agree(c, <<n, 1>>, f, a)
<1> USE PlacedBasics, PlacedBuilt
<1> DEFINE y == <<i + 1, 1>>
           x == <<n, 1>>
<1>1. /\ i \in Idx /\ Idx = 1 .. Len(prog.insts) /\ Len(prog.insts) \in Nat
      /\ Blocks = 1 .. Len(prog.last) /\ Len(prog.last) \in Nat
  BY BlockFacts
<1>2. CASE n = i + 1 /\ n \in Members(b)
  <2>1. c = b
    BY <1>2, BlockOnce
  <2> QED BY <1>2, <2>1
<1>3. CASE ~ (n = i + 1 /\ n \in Members(b))
  <2>1. PICK s \in successors(b) :
           /\ First(s) = n
           /\ s \in Inst(i).to \/ From(b, y) = {}
    <3>1. CASE \E s \in Inst(i).to : n = First(s)
      BY <3>1, Leaving
    <3>2. CASE Inst(i).exit = "next" /\ n = i + 1
      <4>1. n \notin Members(b)
        BY <1>3, <3>2
      <4>2. i = prog.last[b] /\ \E s \in successors(b) : First(s) = i + 1
        BY <3>2, <4>1, Leaving
      <4>3. From(b, y) = {}
        BY <4>2, Cuts
      <4> QED BY <3>2, <4>2, <4>3
    <3> QED BY <3>1, <3>2
  <2>2. n = First(c) /\ From(c, x) = Points(c) /\ live_in[c] \subseteq live_out[b]
    BY <2>1, Landing
  <2>3. Agree(b, y, f, a)
    OBVIOUS
  <2> HIDE DEF x, y
  <2>4. \A v \in VRegs : Needs(c, x, v) => v \in live_in[c] /\ v \in live_out[b]
    BY <2>2, NeededAtStart
  <2>5. ASSUME NEW v \in VRegs, v < VCount, Needs(c, x, v), f.vreg[v] # Undefined
        PROVE  LocIn(a, v) = f.vreg[v]
    <3>1. v \in live_out[b]
      BY <2>4, <2>5
    <3>2. \A z \in From(b, y) : At(z).def # v
      <4> SUFFICES ASSUME NEW z \in From(b, y), At(z).def = v PROVE FALSE
        OBVIOUS
      <4>1. z \in Points(b) /\ s \in Inst(i).to
        BY <2>1 DEF From
      <4> DEFINE k == z[1]
      <4>2. k \in Idx /\ k \in Members(b)
        BY <4>1, PointKinds, PointFacts
      <4>3. k \in i + 1 .. Len(prog.insts)
        <5>1. ~ Earlier(z, y)
          BY DEF From
        <5>2. ~ (k < i + 1)
          BY <5>1 DEF Earlier, y
        <5> QED BY <1>1, <4>2, <5>2
      <4>4. SameBlock(prog, i, k)
        <5> SUFFICES ASSUME NEW d \in Blocks
                     PROVE  i <= prog.last[d] <=> k <= prog.last[d]
          BY DEF SameBlock, Blocks
        <5>1. /\ prog.last[d] \in Nat /\ prog.last[b] \in Nat
              /\ First(b) \in Nat /\ First(d) \in Nat
              /\ b <= d => prog.last[b] <= prog.last[d]
              /\ d < b => prog.last[d] < First(b)
          <6>1. /\ \A e \in Blocks : /\ prog.last[e] \in 0 .. Len(prog.insts)
                                     /\ First(e) \in 1 .. Len(prog.insts) + 1
                /\ \A e, g \in Blocks : e < g => prog.last[e] < First(g)
                /\ \A e, g \in Blocks : e <= g => prog.last[e] <= prog.last[g]
            BY BlockOrder
          <6>2. /\ prog.last[d] \in 0 .. Len(prog.insts) /\ prog.last[b] \in 0 .. Len(prog.insts)
                /\ First(b) \in 1 .. Len(prog.insts) + 1 /\ First(d) \in 1 .. Len(prog.insts) + 1
                /\ b <= d => prog.last[b] <= prog.last[d]
                /\ d < b => prog.last[d] < First(b)
            BY ONLY <6>1, b \in Blocks, d \in Blocks
          <6> QED BY ONLY <1>1, <6>2
        <5>2. First(b) <= i /\ i <= prog.last[b] /\ First(b) <= k /\ k <= prog.last[b]
          BY <4>2 DEF Members
        <5>3. b <= d \/ d < b
          BY <1>1
        <5>4. i \in Nat /\ k \in Nat
          BY <1>1, <4>2
        <5> HIDE DEF k
        <5> QED BY ONLY <5>1, <5>2, <5>3, <5>4
      <4>5. Inst(k).def = NONE
        <5>1. InstSelected(prog, i)
          BY <1>1 DEF Built, WellSelected, Idx
        <5>2. Inst(i).to # {}
          BY <4>1
        <5> QED BY <4>3, <4>4, <5>1, <5>2 DEF InstSelected, Inst
      <4>6. CASE At(z) = Kept(k).inst
        <5>1. v = NONE
          BY <4>2, <4>5, <4>6, KeptInst
        <5> QED BY <5>1, RegisterAssumption DEF NONE
      <4>7. CASE \E j \in DOMAIN Inst(k).reads : Replaced(k, j) /\ At(z) = CopyFor(k, j).inst
        <5>1. PICK j \in DOMAIN Inst(k).reads : Replaced(k, j) /\ At(z) = CopyFor(k, j).inst
          BY <4>7
        <5>2. v = Made(k, j)
          BY <4>2, <5>1, CopyInst DEF Built
        <5>3. Made(k, j) \in Nat /\ Made(k, j) >= VCount /\ VCount \in Nat
          BY MadeAbove, InstFacts
        <5> QED BY <2>5, <5>2, <5>3
      <4> QED BY <4>1, <4>6, <4>7, PointKinds
    <3>3. Needs(b, y, v)
      BY <3>1, <3>2 DEF Needs
    <3> QED BY <2>3, <2>5, <3>3 DEF Agree
  <2>6. ASSUME NEW e \in Replacements, Needs(c, x, Made(e[1], e[2])) PROVE FALSE
    <3>1. Made(e[1], e[2]) \in VRegs
      BY MadeAbove
    <3>2. Made(e[1], e[2]) \in live_in[c]
      BY <2>4, <2>6, <3>1
    <3> QED BY <3>2, CopyDead
  <2>7. ASSUME NEW r \in Pregs \ Scratch, NeedsFixed(c, x, r), f.preg[r] # Undefined
        PROVE  a.preg[r] = f.preg[r]
    <3>1. CASE Reserved(r)
      BY <3>1 DEF Standing
    <3>2. CASE /\ 1 \in Members(c)
               /\ \A k \in Idx : \A t \in Inst(k).to : t > 1 /\ prog.last[t - 1] > 0
      <4>1. First(c) = 1
        <5>1. First(c) <= 1
          BY <3>2 DEF Members
        <5>2. First(c) \in Nat /\ First(c) > 0
          BY <1>1, BlockOrder
        <5> QED BY <5>1, <5>2
      <4>2. n = 1
        BY <2>2, <4>1
      <4>3. CASE n = i + 1
        BY <1>1, <4>2, <4>3
      <4>4. CASE \E t \in Inst(i).to : n = First(t)
        <5>1. PICK t \in Inst(i).to : n = First(t)
          BY <4>4
        <5>2. t > 1 /\ prog.last[t - 1] > 0 /\ t \in Blocks
          BY <1>1, <3>2, <5>1, Leaving, BlockFacts
        <5>3. First(t) = prog.last[t - 1] + 1 /\ t - 1 \in Blocks
          BY <1>1, <5>2 DEF First
        <5>4. prog.last[t - 1] \in Nat
          BY <1>1, <5>3, BlockOrder
        <5> QED BY <4>2, <5>1, <5>2, <5>3, <5>4
      <4> QED BY <4>3, <4>4
    <3> QED BY <2>2, <2>7, <3>1, <3>2, FixedAtStart
  <2>8. Agree(c, x, f, a)
    BY <2>5, <2>6, <2>7 DEF Agree
  <2> QED BY <2>8 DEF x
<1> QED BY <1>2, <1>3

-----------------------------------------------------------------------------
(* The inductive invariant.                                                *)

\* From the prologue on the two runs agree about everything that the code at
\* pc and after it needs.
SimInv ==
    /\ PlaceInv
    /\ WellSelected(prog)
    /\ pc = <<pc[1], pc[2]>> /\ pc[1] \in Nat
    /\ DOMAIN after.slot = 0 .. Cardinality(VRegs) - 1
    /\ phase \in Planning =>
          /\ pc = <<1, 1>>
          /\ before = [vreg |-> [v \in 0 .. VCount - 1 |-> Undefined],
                       preg |-> [r \in Pregs |-> Initially(r)]]
          /\ after.preg = [r \in Pregs |-> Initially(r)]
    /\ phase = "run" =>
          /\ Standing(before, after)
          /\ \A b \in Blocks : pc[1] \in Members(b) => Agree(b, pc, before, after)

LEMMA SimPlaced ==
    ASSUME SimInv, phase = "run" \/ (phase = "scan" /\ left = {})
    PROVE  Placed
BY DEF SimInv, Placed, PlaceInv, Planned

LEMMA SameAgree ==
    ASSUME UNCHANGED <<prog, code, live_out, preg, slot>>
    PROVE  /\ Blocks' = Blocks /\ Idx' = Idx
           /\ \A b : Members(b)' = Members(b)
           /\ \A i : Inst(i)' = Inst(i)
           /\ \A b, x, f, a : Agree(b, x, f, a)' <=> Agree(b, x, f, a)
           /\ \A f, a : Standing(f, a)' <=> Standing(f, a)
<1>1. /\ Replacements' = Replacements
      /\ \A i, j : Made(i, j)' = Made(i, j)
  BY SameRebuilt
<1>2. /\ Blocks' = Blocks /\ Idx' = Idx
      /\ \A b : Members(b)' = Members(b)
      /\ \A i : Inst(i)' = Inst(i)
  BY DEF Blocks, Idx, Members, First, Inst
<1>3. \A b : Points(b)' = Points(b)
  BY <1>2 DEF Points
<1>4. \A x : At(x)' = At(x) /\ Reads(x)' = Reads(x)
  BY DEF At, Reads
<1>5. \A b, x : From(b, x)' = From(b, x)
  BY <1>3 DEF From, Earlier
<1>6. \A b, x, v : Needs(b, x, v)' <=> Needs(b, x, v)
  BY <1>4, <1>5 DEF Needs, Earlier
<1>7. \A b, x, r : NeedsFixed(b, x, r)' <=> NeedsFixed(b, x, r)
  BY <1>4, <1>5 DEF NeedsFixed, Earlier
<1>8. \A v : definition(v)' = definition(v)
  BY <1>2 DEF definition, Entry, Idx, Inst, defines_constant
<1>9. \A a, v : LocIn(a, v)' = LocIn(a, v)
  BY DEF LocIn, Spilled
<1>10. \A i : Dropped(i)' <=> Dropped(i)
  BY DEF Dropped, many, Defs, Idx, Inst, defines_constant
<1>11. \A r : Reserved(r)' <=> Reserved(r)
  BY DEF Reserved, Idx, Inst
<1>12. \A b, x, f, a : Agree(b, x, f, a)' <=> Agree(b, x, f, a)
  BY <1>1, <1>2, <1>6, <1>7, <1>8, <1>9 DEF Agree, Scratch, Constant, Undefined
<1>13. \A f, a : Standing(f, a)' <=> Standing(f, a)
  BY <1>2, <1>10, <1>11 DEF Standing, Scratch, Constant, Undefined
<1> QED BY <1>2, <1>12, <1>13

\* Where control is in the rewritten code.
LEMMA WhereRunning ==
    ASSUME SimInv, Running
    PROVE  /\ pc[1] \in Idx
           /\ ~ IsLast => pc[2] \in 1 .. Len(code[pc[1]]) - 1
           /\ IsLast /\ code[pc[1]] # <<>> => pc[2] = Len(code[pc[1]])
           /\ code[pc[1]] = <<>> => pc[2] = 1
<1>1. /\ pc[1] \in Idx
      /\ code \in [Idx -> Seq(Items)]
      /\ pc[2] \in Nat \ {0}
      /\ pc[2] = 1 \/ pc[2] <= Len(code[pc[1]])
  BY DEF SimInv, PlaceInv, SavesInv, Running
<1>2. code[pc[1]] \in Seq(Items)
  BY <1>1
<1>3. /\ Len(code[pc[1]]) \in Nat
      /\ code[pc[1]] = <<>> <=> Len(code[pc[1]]) = 0
  BY <1>2
<1> QED BY <1>1, <1>3 DEF IsLast

LEMMA SimSound ==
    ASSUME SimInv PROVE ReadsMatch
<1> SUFFICES ASSUME Running, IsLast, code[pc[1]] # <<>>
             PROVE  /\ \A j \in DOMAIN Inst(pc[1]).reads :
                          before.vreg[Inst(pc[1]).reads[j].v] # Undefined =>
                             Reloaded(Here.inst)[place(Here.inst, Here.inst.reads[j].v)]
                               = before.vreg[Inst(pc[1]).reads[j].v]
                    /\ \A r \in Inst(pc[1]).uses :
                          before.preg[r] # Undefined =>
                             Reloaded(Here.inst)[r] = before.preg[r]
  BY DEF ReadsMatch
<1>1. Placed /\ WellSelected(prog)
  BY SimPlaced DEF Running, SimInv
<1>2. pc[1] \in Idx /\ pc[2] = Len(code[pc[1]]) /\ pc = <<pc[1], pc[2]>>
  BY WhereRunning DEF SimInv
<1>3. PICK b \in Blocks : pc[1] \in Members(b)
  BY <1>1, <1>2, PlacedBasics, BlockOnce
<1>4. Agree(b, pc, before, after) /\ Standing(before, after)
  BY <1>3 DEF SimInv, Running
<1> DEFINE i == pc[1]
           inst == Here.inst
<1>5. inst = At(pc) /\ pc = <<i, Len(code[i])>>
  BY <1>2 DEF Here, At
<1>6. i \in Members(b) /\ code[i] # <<>>
  BY <1>3
<1> HIDE DEF i, inst
<1>7. /\ \A j \in DOMAIN Inst(i).reads :
            before.vreg[Inst(i).reads[j].v] # Undefined =>
               Reloaded(inst)[place(inst, inst.reads[j].v)] =
                 before.vreg[Inst(i).reads[j].v]
      /\ \A r \in Inst(i).uses :
            before.preg[r] # Undefined => Reloaded(inst)[r] = before.preg[r]
  BY ONLY <1>1, <1>3, <1>4, <1>5, <1>6, InstReads
<1> QED BY <1>7 DEF i, inst

LEMMA SimInit ==
    ASSUME AllocInit, \A p \in Programs : WellSelected(p)
    PROVE  SimInv
<1>1. PlaceInv
  BY PlaceInit
<1>2. WellSelected(prog)
  BY DEF AllocInit
<1>3. phase = "select" /\ pc = <<1, 1>> /\ pc[1] \in Nat /\ pc = <<pc[1], pc[2]>>
  BY DEF AllocInit
<1>4. /\ before = [vreg |-> [v \in 0 .. VCount - 1 |-> Undefined],
                   preg |-> [r \in Pregs |-> Initially(r)]]
      /\ after.preg = [r \in Pregs |-> Initially(r)]
      /\ DOMAIN after.slot = 0 .. Cardinality(VRegs) - 1
  BY DEF AllocInit
<1> QED BY <1>1, <1>2, <1>3, <1>4 DEF SimInv

\* The prologue.
LEMMA SimEnter ==
    ASSUME SimInv, LayoutFrame PROVE SimInv'
<1> USE DEF liveVars, execVars, scanVars, rangeVars
<1>1. /\ phase = "scan" /\ left = {} /\ phase' \in {"refused", "run"}
      /\ UNCHANGED <<prog, code, live_out, preg, slot, pc, before, after>>
  BY DEF LayoutFrame
<1>2. PlaceInv'
  BY PlaceNext DEF SimInv, AllocNext
<1>3. Placed /\ WellSelected(prog)
  BY <1>1, SimPlaced DEF SimInv
<1>4. /\ pc = <<1, 1>>
      /\ before = [vreg |-> [v \in 0 .. VCount - 1 |-> Undefined],
                   preg |-> [r \in Pregs |-> Initially(r)]]
      /\ after.preg = [r \in Pregs |-> Initially(r)]
  BY <1>1 DEF SimInv, Planning
<1> USE PlacedBasics
<1>5. ASSUME NEW v \in VRegs, v < VCount PROVE before.vreg[v] = Undefined
  <2>1. v \in 0 .. VCount - 1
    BY <1>3, <1>5, InstFacts, RegisterAssumption
  <2> QED BY <1>4, <2>1
<1>6. \A r \in Pregs : after.preg[r] = before.preg[r]
  BY <1>4
<1>7. Standing(before, after)
  <2>1. ASSUME NEW d \in Idx, Dropped(d) PROVE before.vreg[Inst(d).def] = Undefined
    <3>1. Inst(d).def \in 0 .. VCount - 1
      BY <1>3, <2>1, DroppedDef
    <3> QED BY <1>4, <3>1
  <2> QED BY <1>6, <2>1 DEF Standing
<1>8. ASSUME NEW b \in Blocks, 1 \in Members(b) PROVE Agree(b, <<1, 1>>, before, after)
  <2>1. First(b) = 1
    <3>1. First(b) \in 1 .. Len(prog.insts) + 1 /\ Len(prog.insts) \in Nat
      BY <1>3, BlockOrder, BlockFacts
    <3>2. First(b) <= 1
      BY <1>8 DEF Members
    <3> QED BY <3>1, <3>2
  <2> DEFINE x == <<1, 1>>
  <2>2. From(b, x) = Points(b)
    BY <1>3, <1>8, <2>1, Cuts
  <2> HIDE DEF x
  <2>3. ASSUME NEW e \in Replacements, Needs(b, x, Made(e[1], e[2])) PROVE FALSE
    <3>1. Made(e[1], e[2]) \in VRegs
      BY <1>3, MadeAbove
    <3>2. Made(e[1], e[2]) \in live_in[b]
      BY <1>3, <2>2, <2>3, <3>1, NeededAtStart
    <3> QED BY <1>3, <3>2, CopyDead
  <2>4. Agree(b, x, before, after)
    BY <1>5, <1>6, <2>3 DEF Agree
  <2> QED BY <2>4 DEF x
<1>9. /\ Blocks' = Blocks
      /\ \A b : Members(b)' = Members(b)
      /\ \A b, x, f, a : Agree(b, x, f, a)' <=> Agree(b, x, f, a)
      /\ \A f, a : Standing(f, a)' <=> Standing(f, a)
  BY <1>1, SameAgree
<1>10. Standing(before, after)'
  <2>1. \A f, a : Standing(f, a) => Standing(f, a)'
    BY <1>9
  <2> QED BY <1>1, <1>7, <2>1
<1>11. ASSUME NEW b \in Blocks, pc[1] \in Members(b) PROVE Agree(b, pc, before, after)'
  <2>1. Agree(b, pc, before, after)
    BY <1>4, <1>8, <1>11
  <2>2. \A x, f, a : Agree(b, x, f, a) => Agree(b, x, f, a)'
    BY <1>9
  <2> QED BY <1>1, <2>1, <2>2
<1>12. \A b \in Blocks' : pc'[1] \in Members(b)' => Agree(b, pc, before, after)'
  BY <1>1, <1>9, <1>11
<1>13. phase' \notin Planning
  BY <1>1 DEF Planning
<1> QED BY <1>1, <1>2, <1>10, <1>12, <1>13 DEF SimInv

\* One instruction or copy of the rewritten code.
LEMMA SimCopy ==
    ASSUME SimInv, RunCopy PROVE SimInv'
<1> USE DEF liveVars, execVars, scanVars, rangeVars
<1>1. /\ Running /\ ~ IsLast /\ phase = "run" /\ phase' = "run"
      /\ UNCHANGED <<prog, code, live_out, preg, slot, before>>
      /\ after' = RunAfter(Here.inst, Here.at)
      /\ pc' = <<pc[1], pc[2] + 1>>
  BY DEF RunCopy, Running
<1>2. PlaceInv'
  BY PlaceNext DEF SimInv, AllocNext
<1>3. Placed /\ WellSelected(prog)
  BY <1>1, SimPlaced DEF SimInv
<1> USE PlacedBasics
<1>4. /\ pc[1] \in Idx /\ pc[2] \in 1 .. Len(code[pc[1]]) - 1
      /\ pc = <<pc[1], pc[2]>>
  BY <1>1, WhereRunning DEF SimInv
<1> DEFINE i == pc[1]
           k == pc[2]
           a == RunAfter(code[i][k].inst, code[i][k].at)
<1>5. after' = a /\ pc = <<i, k>> /\ pc' = <<i, k + 1>>
  BY <1>1, <1>4 DEF Here
<1>6. ASSUME NEW b \in Blocks, i \in Members(b)
      PROVE  Agree(b, <<i, k + 1>>, before, a) /\ Standing(before, a)
  <2>1. Agree(b, <<i, k>>, before, after) /\ Standing(before, after)
    BY <1>1, <1>5, <1>6 DEF SimInv
  <2>2. k \in 1 .. Len(code[i]) - 1
    BY <1>4
  <2>3. a = RunAfter(code[i][k].inst, code[i][k].at)
    OBVIOUS
  <2> HIDE DEF a, k, i
  <2> QED BY ONLY <1>3, <1>6, <2>1, <2>2, <2>3, CopyStep
<1>7. Standing(before, a)
  <2>1. \E b \in Blocks : i \in Members(b)
    BY <1>3, <1>4, BlockOnce
  <2> QED BY <1>6, <2>1
<1>8. DOMAIN a.slot = DOMAIN after.slot
  BY SlotsKept
<1> HIDE DEF a, k, i
<1>9. /\ Blocks' = Blocks
      /\ \A b : Members(b)' = Members(b)
      /\ \A b, x, f, c : Agree(b, x, f, c)' <=> Agree(b, x, f, c)
      /\ \A f, c : Standing(f, c)' <=> Standing(f, c)
  BY <1>1, SameAgree
<1>10. Standing(before, after)'
  <2>1. \A f, c : Standing(f, c) => Standing(f, c)'
    BY <1>9
  <2> QED BY <1>1, <1>5, <1>7, <2>1
<1>11. ASSUME NEW b \in Blocks, pc'[1] \in Members(b) PROVE Agree(b, pc, before, after)'
  <2>1. Agree(b, <<i, k + 1>>, before, a)
    BY <1>5, <1>6, <1>11
  <2>2. \A x, f, c : Agree(b, x, f, c) => Agree(b, x, f, c)'
    BY <1>9
  <2> QED BY <1>1, <1>5, <2>1, <2>2
<1>12. \A b \in Blocks' : pc'[1] \in Members(b)' => Agree(b, pc, before, after)'
  BY <1>9, <1>11
<1>13. phase' \notin Planning
  BY <1>1 DEF Planning
<1>14. pc' = <<pc'[1], pc'[2]>> /\ pc'[1] \in Nat
  BY <1>5 DEF SimInv, i
<1>15. DOMAIN after'.slot = 0 .. Cardinality(VRegs) - 1
  BY <1>5, <1>8 DEF SimInv
<1>16. WellSelected(prog)'
  BY <1>1, <1>3
<1> QED BY <1>2, <1>10, <1>12, <1>13, <1>14, <1>15, <1>16 DEF SimInv

LEMMA SimInst ==
    ASSUME SimInv, RunInst PROVE SimInv'
<1> USE DEF liveVars, execVars, scanVars, rangeVars
<1> DEFINE i == pc[1]
           f == RunBefore(i)
           a == IF code[i] = <<>> THEN after ELSE RunAfter(Here.inst, i)
<1>1. /\ Running /\ IsLast /\ phase = "run" /\ phase' = "run"
      /\ UNCHANGED <<prog, code, live_out, preg, slot>>
      /\ before' = f /\ after' = a
  BY DEF RunInst, Running
<1>2. PlaceInv'
  BY PlaceNext DEF SimInv, AllocNext
<1>3. Placed /\ WellSelected(prog)
  BY <1>1, SimPlaced DEF SimInv
<1> USE PlacedBasics
<1>4. /\ i \in Idx /\ pc = <<i, pc[2]>>
      /\ code[i] # <<>> => pc[2] = Len(code[i])
      /\ code[i] = <<>> => pc[2] = 1
  BY <1>1, WhereRunning DEF SimInv
<1>5. PICK n : /\ pc' = <<n, 1>>
               /\ \/ \E s \in Inst(i).to : n = First(s)
                  \/ Inst(i).exit = "next" /\ n = i + 1
  BY DEF RunInst, GoTo
<1>6. PICK b \in Blocks : i \in Members(b)
  BY <1>3, <1>4, BlockOnce
<1>7. Agree(b, <<i + 1, 1>>, f, a) /\ Standing(f, a)
  <2>1. Agree(b, pc, before, after) /\ Standing(before, after)
    BY <1>1, <1>6 DEF SimInv
  <2>2. CASE code[i] = <<>>
    <3>1. pc = <<i, 1>> /\ a = after
      BY <1>4, <2>2
    <3>2. Agree(b, <<i, 1>>, before, after) /\ f = RunBefore(i)
      BY <2>1, <3>1
    <3> HIDE DEF a, f, i
    <3>3. Agree(b, <<i + 1, 1>>, f, after) /\ Standing(f, after)
      BY ONLY <1>3, <1>6, <2>1, <2>2, <3>2, DroppedStep
    <3> QED BY <3>1, <3>3
  <2>3. CASE code[i] # <<>>
    <3> DEFINE inst == Here.inst
    <3>1. pc = <<i, Len(code[i])>> /\ a = RunAfter(inst, i) /\ f = RunBefore(i)
      BY <1>4, <2>3
    <3>2. inst = At(pc)
      BY DEF Here, At
    <3> HIDE DEF a, f, i, inst
    <3> QED BY ONLY <1>3, <1>6, <2>1, <2>3, <3>1, <3>2, InstStep
  <2> QED BY <2>2, <2>3
<1>8. DOMAIN a.slot = DOMAIN after.slot
  BY SlotsKept
<1> HIDE DEF a, f
<1>9. ASSUME NEW c \in Blocks, n \in Members(c) PROVE Agree(c, <<n, 1>>, f, a)
  <2>1. n \in Idx
    BY <1>3, <1>9, BlockFacts
  <2> QED BY <1>3, <1>5, <1>6, <1>7, <1>9, <2>1, Moves
<1>10. n \in Nat
  <2>1. i \in Nat /\ Blocks = 1 .. Len(prog.last) /\ Len(prog.insts) \in Nat
    BY <1>3, <1>4, BlockFacts
  <2>2. ASSUME NEW s \in Inst(i).to PROVE First(s) \in Nat
    <3>1. s \in Blocks
      BY <1>3, <1>6, Leaving, BlockFacts
    <3>2. First(s) \in 1 .. Len(prog.insts) + 1
      BY <1>3, <3>1, BlockOrder
    <3> QED BY <2>1, <3>2
  <2> QED BY <1>5, <2>1, <2>2
<1> HIDE DEF i
<1>11. /\ Blocks' = Blocks
       /\ \A d : Members(d)' = Members(d)
       /\ \A d, x, g, c : Agree(d, x, g, c)' <=> Agree(d, x, g, c)
       /\ \A g, c : Standing(g, c)' <=> Standing(g, c)
  BY <1>1, SameAgree
<1>12. Standing(before, after)'
  <2>1. \A g, c : Standing(g, c) => Standing(g, c)'
    BY <1>11
  <2> QED BY <1>1, <1>7, <2>1
<1>13. ASSUME NEW c \in Blocks, pc'[1] \in Members(c) PROVE Agree(c, pc, before, after)'
  <2>1. Agree(c, <<n, 1>>, f, a)
    BY <1>5, <1>9, <1>13
  <2>2. \A x, g, d : Agree(c, x, g, d) => Agree(c, x, g, d)'
    BY <1>11
  <2> QED BY <1>1, <1>5, <2>1, <2>2
<1>14. \A c \in Blocks' : pc'[1] \in Members(c)' => Agree(c, pc, before, after)'
  BY <1>11, <1>13
<1>15. phase' \notin Planning
  BY <1>1 DEF Planning
<1>16. pc' = <<pc'[1], pc'[2]>> /\ pc'[1] \in Nat
  BY <1>5, <1>10
<1>17. DOMAIN after'.slot = 0 .. Cardinality(VRegs) - 1
  BY <1>1, <1>8 DEF SimInv
<1>18. WellSelected(prog)'
  BY <1>1, <1>3
<1> QED BY <1>2, <1>12, <1>14, <1>15, <1>16, <1>17, <1>18 DEF SimInv

\* The phases before the code runs, and its end.
LEMMA SimRest ==
    ASSUME SimInv,
           \/ Rematerialise \/ LiveBlock \/ BuildIntervals \/ Scan \/ RunRet
           \/ UNCHANGED allVars
    PROVE  SimInv'
<1> USE DEF liveVars, execVars, scanVars, rangeVars
<1>1. PlaceInv' /\ WellSelected(prog)' /\ prog' = prog
  <2>1. [AllocNext]_allVars
    BY DEF AllocNext
  <2>2. prog' = prog
    BY DEF Rematerialise, LiveBlock, BuildIntervals, Scan, RunRet, allVars
  <2> QED BY <2>1, <2>2, PlaceNext DEF SimInv
<1>2. CASE Rematerialise \/ LiveBlock \/ BuildIntervals \/ Scan
  <2>1. phase \in Planning /\ phase' \in Planning /\ UNCHANGED <<pc, before, after>>
    BY <1>2 DEF Rematerialise, LiveBlock, BuildIntervals, Scan, Planning
  <2>2. phase' # "run"
    BY <2>1 DEF Planning
  <2>3. /\ pc = <<1, 1>>
        /\ before = [vreg |-> [v \in 0 .. VCount - 1 |-> Undefined],
                     preg |-> [r \in Pregs |-> Initially(r)]]
        /\ after.preg = [r \in Pregs |-> Initially(r)]
        /\ pc = <<pc[1], pc[2]>> /\ pc[1] \in Nat
        /\ DOMAIN after.slot = 0 .. Cardinality(VRegs) - 1
    BY <2>1 DEF SimInv
  <2> QED BY <1>1, <2>1, <2>2, <2>3 DEF SimInv, Initially, Undefined
<1>3. CASE RunRet
  <2>1. /\ phase' = "end" /\ pc' = pc
        /\ after' = [after EXCEPT !.preg = Restored]
    BY <1>3 DEF RunRet
  <2>2. after'.slot = after.slot
    BY <2>1
  <2>3. phase' \notin Planning /\ phase' # "run"
    BY <2>1 DEF Planning
  <2> QED BY <1>1, <2>1, <2>2, <2>3 DEF SimInv
<1>4. CASE UNCHANGED allVars
  <2>1. UNCHANGED <<prog, code, live_out, preg, slot, phase, pc, before, after>>
    BY <1>4 DEF allVars
  <2>2. /\ Blocks' = Blocks
        /\ \A d : Members(d)' = Members(d)
        /\ \A d, x, g, c : Agree(d, x, g, c)' <=> Agree(d, x, g, c)
        /\ \A g, c : Standing(g, c)' <=> Standing(g, c)
    BY <2>1, SameAgree
  <2>3. phase' = "run" =>
          /\ Standing(before, after)'
          /\ \A b \in Blocks' : pc'[1] \in Members(b)' => Agree(b, pc, before, after)'
    <3> SUFFICES ASSUME phase = "run"
                 PROVE  /\ Standing(before, after)'
                        /\ \A b \in Blocks' : pc'[1] \in Members(b)' =>
                                                 Agree(b, pc, before, after)'
      BY <2>1
    <3>1. Standing(before, after)'
      <4>1. Standing(before, after)
        BY DEF SimInv
      <4>2. \A g, c : Standing(g, c) => Standing(g, c)'
        BY <2>2
      <4> QED BY <2>1, <4>1, <4>2
    <3>2. ASSUME NEW b \in Blocks, pc[1] \in Members(b)
          PROVE  Agree(b, pc, before, after)'
      <4>1. Agree(b, pc, before, after)
        BY <3>2 DEF SimInv
      <4>2. \A x, g, c : Agree(b, x, g, c) => Agree(b, x, g, c)'
        BY <2>2
      <4> QED BY <2>1, <4>1, <4>2
    <3> QED BY <2>1, <2>2, <3>1, <3>2
  <2>4. phase' \in Planning => phase \in Planning
    BY <2>1
  <2>5. /\ phase \in Planning =>
             /\ pc = <<1, 1>>
             /\ before = [vreg |-> [v \in 0 .. VCount - 1 |-> Undefined],
                          preg |-> [r \in Pregs |-> Initially(r)]]
             /\ after.preg = [r \in Pregs |-> Initially(r)]
        /\ pc = <<pc[1], pc[2]>> /\ pc[1] \in Nat
        /\ DOMAIN after.slot = 0 .. Cardinality(VRegs) - 1
    BY DEF SimInv
  <2> QED BY <1>1, <2>1, <2>3, <2>4, <2>5 DEF SimInv, Initially, Undefined
<1> QED BY <1>2, <1>3, <1>4

\* For every function that selection makes well, with all its spills, reloads,
\* hints and re-emitted constants: an instruction of the rewritten code reads
\* in each operand, and in each register it names, what the code before
\* allocation gives it.
THEOREM AllocationUnseen ==
    ASSUME \A p \in Programs : WellSelected(p)
    PROVE  AllocSpec => []ReadsMatch
<1>1. AllocInit => SimInv
  BY SimInit
<1>2. SimInv /\ [AllocNext]_allVars => SimInv'
  <2> SUFFICES ASSUME SimInv, [AllocNext]_allVars PROVE SimInv'
    OBVIOUS
  <2>1. CASE LayoutFrame
    BY <2>1, SimEnter
  <2>2. CASE RunCopy
    BY <2>2, SimCopy
  <2>3. CASE RunInst
    BY <2>3, SimInst
  <2>4. CASE \/ Rematerialise \/ LiveBlock \/ BuildIntervals \/ Scan \/ RunRet
             \/ UNCHANGED allVars
    BY <2>4, SimRest
  <2> QED BY <2>1, <2>2, <2>3, <2>4 DEF AllocNext
<1>3. SimInv => ReadsMatch
  BY SimSound
<1> QED BY <1>1, <1>2, <1>3, PTL DEF AllocSpec
=============================================================================
