---------------------------- MODULE BuildProofs -----------------------------
(***************************************************************************)
(* What holds of every build, whatever files, command lines and edits      *)
(* there are.                                                              *)
(***************************************************************************)
EXTENDS Build, LibrariesProofs

-----------------------------------------------------------------------------
(* The command line: run gives options of these types.                     *)

Options == [flags : SUBSET Flags,
            slot : UNION {[S -> Argument] : S \in SUBSET Slots},
            lib : {"none", "static", "shared"}, asserts : {"mode", "on", "off"},
            linker : {"lld", "platform"}, target : DOMAIN target_info,
            runtime : Seq(STRING), input : Paths \cup {NoPath}, libraries : Seq(Paths),
            objects : Seq(Paths), roots : Seq(Seq(STRING)),
            dependencies : Seq(STRING), attribution : Seq(STRING),
            exit : {-1, 0, 2}]

Turns == [i : Nat \ {0}, o : Options]

\* An option with a value keeps the options well typed.
LEMMA TakeValueTyped ==
    ASSUME NEW x \in Options, NEW v \in Argument, NEW opt \in Valued
    PROVE  TakeValue(x, opt, v) \in Options
<1>1. v.word \in STRING /\ v.path \in Paths
  BY DEF Argument
<1>2. Directory(v.path) \in Seq(STRING)
  <2>1. v.path.dir \in Seq(STRING) /\ v.path.name \in STRING
    BY <1>1 DEF Paths
  <2> QED BY <2>1 DEF Directory
<1>3. x.dependencies \in Seq(STRING) /\ x.attribution \in Seq(STRING) /\ x.roots \in Seq(Seq(STRING))
  BY DEF Options
<1>4. /\ Append(x.dependencies, v.word) \in Seq(STRING)
      /\ Append(x.attribution, v.word) \in Seq(STRING)
      /\ Append(x.roots, Directory(v.path)) \in Seq(Seq(STRING))
  BY <1>1, <1>2, <1>3
<1>5. CASE opt = "--lib"
  BY <1>5 DEF TakeValue, Options, Exit
<1>6. CASE opt = "--linker"
  BY <1>6 DEF TakeValue, Options, Exit
<1>7. CASE opt = "--dependency"
  BY <1>4, <1>7 DEF TakeValue, Options
<1>8. CASE opt = "--attribution"
  BY <1>4, <1>8 DEF TakeValue, Options
<1>9. CASE opt = "-I"
  BY <1>4, <1>9 DEF TakeValue, Options
<1>10. CASE opt \notin {"--lib", "--linker", "--dependency", "--attribution", "-I"}
  <2>1. TakeValue(x, opt, v) = [x EXCEPT !.slot = Put(@, opt, v)]
    BY <1>10 DEF TakeValue
  <2>2. opt \in Slots
    BY <1>10 DEF Valued
  <2>3. PICK S \in SUBSET Slots : x.slot \in [S -> Argument]
    BY DEF Options
  <2>4. Put(x.slot, opt, v) \in [S \cup {opt} -> Argument]
    BY <2>3 DEF Put
  <2>5. S \cup {opt} \in SUBSET Slots
    BY <2>2
  <2>6. Put(x.slot, opt, v) \in UNION {[T -> Argument] : T \in SUBSET Slots}
    BY <2>4, <2>5
  <2> QED BY <2>1, <2>6 DEF Options
<1> QED BY <1>5, <1>6, <1>7, <1>8, <1>9, <1>10

\* A file name on the command line keeps the options well typed.
LEMMA TakeFileTyped ==
    ASSUME NEW x \in Options, NEW p \in Paths
    PROVE  TakeFile(x, p) \in Options
<1>1. x.libraries \in Seq(Paths) /\ x.objects \in Seq(Paths)
  BY DEF Options
<1>2. Append(x.libraries, p) \in Seq(Paths) /\ Append(x.objects, p) \in Seq(Paths)
  BY <1>1
<1> QED BY <1>2 DEF TakeFile, Options, Exit

\* One turn of the loop over the arguments.
LEMMA TakeArgumentTyped ==
    ASSUME NEW argv \in Seq(Argument), NEW i \in 1 .. Len(argv), NEW x \in Options
    PROVE  TakeArgument(argv, i, x) \in Options
<1>1. argv[i] \in Argument
  OBVIOUS
<1>2. argv[i].word \in STRING /\ argv[i].path \in Paths
  BY <1>1 DEF Argument
<1> DEFINE arg == argv[i].word
<1>3. CASE arg \in {"--version", "--help", "--print-host-target", "--print-targets"}
  BY <1>3 DEF TakeArgument, Options, Exit
<1>4. CASE /\ arg \notin {"--version", "--help", "--print-host-target", "--print-targets"}
           /\ arg \in Flags
  <2>1. TakeArgument(argv, i, x) = [x EXCEPT !.flags = @ \cup {arg}]
    BY <1>4 DEF TakeArgument
  <2>2. x.flags \cup {arg} \in SUBSET Flags
    BY <1>4 DEF Options
  <2> HIDE DEF arg
  <2> QED BY ONLY <2>1, <2>2, x \in Options DEF Options
<1>5. CASE /\ arg \notin {"--version", "--help", "--print-host-target", "--print-targets"}
           /\ arg \notin Flags /\ arg \in {"--asserts", "--no-asserts"}
  BY <1>5 DEF TakeArgument, Options
<1>6. CASE /\ arg \notin {"--version", "--help", "--print-host-target", "--print-targets"}
           /\ arg \notin Flags /\ arg \notin {"--asserts", "--no-asserts"}
           /\ arg \in Valued
  <2>1. CASE i = Len(argv)
    <3>1. TakeArgument(argv, i, x) = Exit(x, 2)
      BY <1>6, <2>1 DEF TakeArgument
    <3> QED BY <3>1 DEF Exit, Options
  <2>2. CASE i # Len(argv)
    <3>1. TakeArgument(argv, i, x) = TakeValue(x, arg, argv[i + 1])
      BY <1>6, <2>2 DEF TakeArgument
    <3>2. argv[i + 1] \in Argument
      BY <2>2
    <3> QED BY <1>6, <3>1, <3>2, TakeValueTyped
  <2> QED BY <2>1, <2>2
<1>7. CASE /\ arg \notin {"--version", "--help", "--print-host-target", "--print-targets"}
           /\ arg \notin Flags /\ arg \notin {"--asserts", "--no-asserts"}
           /\ arg \notin Valued
  BY <1>2, <1>7, TakeFileTyped DEF TakeArgument, Options, Exit
<1> QED BY <1>3, <1>4, <1>5, <1>6, <1>7

\* The options after the next argument.
NextTurn(argv, x) ==
    IF x.o.exit # -1 \/ x.i > Len(argv) THEN x
    ELSE [i |-> x.i + (IF argv[x.i].word \in Valued THEN 2 ELSE 1),
          o |-> TakeArgument(argv, x.i, x.o)]

\* What the loop starts with is well typed.
LEMMA NoOptionsTyped ==
    ASSUME BuildAssumption
    PROVE  [i |-> 1, o |-> NoOptions] \in Turns
<1>1. Host \in DOMAIN target_info
  BY DEF BuildAssumption
<1>2. <<>> \in UNION {[S -> Argument] : S \in SUBSET Slots}
  <2>1. <<>> \in [{} -> Argument]
    OBVIOUS
  <2>2. {} \in SUBSET Slots
    OBVIOUS
  <2> QED BY ONLY <2>1, <2>2
<1> DEFINE slots == UNION {[S -> Argument] : S \in SUBSET Slots}
<1> HIDE DEF slots
<1>3. /\ <<>> \in slots /\ {} \in SUBSET Flags /\ <<>> \in Seq(STRING)
      /\ <<>> \in Seq(Seq(STRING)) /\ <<>> \in Seq(Paths)
  <2>1. <<>> \in slots
    BY ONLY <1>2 DEF slots
  <2>2. {} \in SUBSET Flags
    OBVIOUS
  <2>3. <<>> \in Seq(STRING) /\ <<>> \in Seq(Seq(STRING)) /\ <<>> \in Seq(Paths)
    BY ONLY EmptySeq
  <2> QED BY ONLY <2>1, <2>2, <2>3
<1>4. NoOptions \in Options
  <2>1. Options = [flags : SUBSET Flags, slot : slots,
            lib : {"none", "static", "shared"}, asserts : {"mode", "on", "off"},
            linker : {"lld", "platform"}, target : DOMAIN target_info,
            runtime : Seq(STRING), input : Paths \cup {NoPath}, libraries : Seq(Paths),
            objects : Seq(Paths), roots : Seq(Seq(STRING)),
            dependencies : Seq(STRING), attribution : Seq(STRING),
            exit : {-1, 0, 2}]
    BY DEF Options, slots
  <2> QED BY ONLY <1>1, <1>3, <2>1 DEF NoOptions
<1> QED BY <1>4 DEF Turns

\* One turn of the loop keeps the options well typed.
LEMMA TurnTyped ==
    ASSUME NEW argv \in Seq(Argument), NEW x \in Turns
    PROVE  NextTurn(argv, x) \in Turns
<1>1. x.i \in Nat \ {0} /\ x.o \in Options
  BY DEF Turns
<1>2. CASE x.o.exit # -1 \/ x.i > Len(argv)
  BY <1>2 DEF NextTurn
<1>3. CASE ~(x.o.exit # -1 \/ x.i > Len(argv))
  <2>1. x.i \in 1 .. Len(argv)
    BY <1>1, <1>3
  <2>2. TakeArgument(argv, x.i, x.o) \in Options
    BY <1>1, <2>1, TakeArgumentTyped
  <2> QED BY <1>1, <1>3, <2>2 DEF NextTurn, Turns
<1> QED BY <1>2, <1>3

\* The turns of Arguments.
LEMMA ArgumentsSteps ==
    ASSUME BuildAssumption, NEW argv \in Seq(Argument)
    PROVE  \E f \in [0 .. Len(argv) -> Turns] :
              /\ f[0] = [i |-> 1, o |-> NoOptions]
              /\ \A n \in 1 .. Len(argv) : f[n] = NextTurn(argv, f[n - 1])
              /\ Arguments(argv) = f[Len(argv)].o
<1> DEFINE Turn(x, n) == NextTurn(argv, x)
           G == [z \in (Turns) \X (1 .. Len(argv)) |-> Turn(z[1], z[2])]
           Loop(f) == f = [n \in 0 .. Len(argv) |-> IF n = 0 THEN [i |-> 1, o |-> NoOptions] ELSE Turn(f[n - 1], n)]
           loop == CHOOSE f : Loop(f)
<1>1. Len(argv) \in Nat
  OBVIOUS
<1>2. [i |-> 1, o |-> NoOptions] \in Turns
  BY NoOptionsTyped
<1>3. \A x \in Turns : \A n \in 1 .. Len(argv) : Turn(x, n) \in Turns
  BY TurnTyped
<1>4. Arguments(argv) = loop[Len(argv)].o
  BY DEF Arguments, NextTurn
<1>5. Loop(loop) /\ loop \in [0 .. Len(argv) -> Turns]
  <2> HIDE DEF Turn
  <2>1. G \in [(Turns) \X (1 .. Len(argv)) -> Turns]
    BY <1>3
  <2>2. PICK f : LoopOf(f, Turns, [i |-> 1, o |-> NoOptions], Len(argv), G)
    <3> HIDE DEF G
    <3> QED BY <1>1, <1>2, <2>1, LoopExists
  <2>3. \A n \in 1 .. Len(argv) : G[<<f[n - 1], n>>] = Turn(f[n - 1], n)
    <3> TAKE n \in 1 .. Len(argv)
    <3>1. n - 1 \in 0 .. Len(argv)
      BY <1>1
    <3>2. <<f[n - 1], n>> \in (Turns) \X (1 .. Len(argv))
      BY <2>2, <3>1 DEF LoopOf
    <3> QED BY <3>2
  <2>4. Loop(f)
    <3> HIDE DEF G
    <3>1. \A n \in 0 .. Len(argv) : n # 0 => n \in 1 .. Len(argv)
      BY <1>1
    <3>2. \A n \in 0 .. Len(argv) : f[n] = IF n = 0 THEN [i |-> 1, o |-> NoOptions] ELSE Turn(f[n - 1], n)
      BY <2>2, <2>3, <3>1 DEF LoopOf
    <3>3. f = [n \in 0 .. Len(argv) |-> f[n]]
      BY <2>2 DEF LoopOf
    <3> QED BY <3>2, <3>3
  <2>5. Loop(loop)
    BY <2>4
  <2> HIDE DEF loop, G
  <2>6. \A n \in 0 .. Len(argv) : loop[n] = IF n = 0 THEN [i |-> 1, o |-> NoOptions] ELSE Turn(loop[n - 1], n)
    BY ONLY <2>5
  <2>7. 0 \in 0 .. Len(argv) /\ \A n \in 1 .. Len(argv) : n \in 0 .. Len(argv) /\ n # 0
    BY <1>1
  <2>8. loop[0] = [i |-> 1, o |-> NoOptions] /\ \A n \in 1 .. Len(argv) : loop[n - 1] \in Turns => loop[n] \in Turns
    BY ONLY <1>3, <2>6, <2>7
  <2>9. loop = [n \in 0 .. Len(argv) |-> loop[n]]
    BY ONLY <2>5
  <2>10. loop \in [0 .. Len(argv) -> Turns]
    BY ONLY <1>1, <1>2, <2>8, <2>9, LoopTyped
  <2> QED BY <2>5, <2>10
<1>6. \A n \in 0 .. Len(argv) : loop[n] = IF n = 0 THEN [i |-> 1, o |-> NoOptions] ELSE Turn(loop[n - 1], n)
  <2> HIDE DEF loop, Turn
  <2> QED BY ONLY <1>5
<1>7. 0 \in 0 .. Len(argv) /\ \A n \in 1 .. Len(argv) : n \in 0 .. Len(argv) /\ n # 0
  BY <1>1
<1>8. loop[0] = [i |-> 1, o |-> NoOptions] /\ \A n \in 1 .. Len(argv) : loop[n] = Turn(loop[n - 1], n)
  <2> HIDE DEF loop, Turn
  <2> QED BY ONLY <1>6, <1>7
<1> HIDE DEF loop
<1> QED BY <1>4, <1>5, <1>8

\* After the loop the options are well typed too, and one without an exit
\* status has a target and a source file.
LEMMA RunTyped ==
    ASSUME BuildAssumption, NEW argv \in Seq(Argument)
    PROVE  run(argv) \in Options
<1>1. Arguments(argv) \in Options
  <2>1. PICK f \in [0 .. Len(argv) -> Turns] : Arguments(argv) = f[Len(argv)].o
    BY ArgumentsSteps
  <2>2. f[Len(argv)] \in Turns
    OBVIOUS
  <2> QED BY <2>1, <2>2 DEF Turns
<1> DEFINE x == Arguments(argv)
           first == x.input = NoPath /\ "--dev" \in x.flags /\ x.libraries # <<>>
           in == IF first THEN [x EXCEPT !.input = Head(x.libraries),
                                         !.libraries = Tail(@)] ELSE x
<1>2. x \in Options
  BY <1>1
<1> HIDE DEF x
<1>3. in \in Options
  <2>1. CASE first
    <3>1. x.libraries \in Seq(Paths) /\ x.libraries # <<>>
      BY <1>2, <2>1 DEF Options
    <3>2. Head(x.libraries) \in Paths /\ Tail(x.libraries) \in Seq(Paths)
      BY <3>1
    <3> QED BY <1>2, <2>1, <3>2 DEF Options
  <2>2. CASE ~first
    BY <1>2, <2>2
  <2> QED BY <2>1, <2>2
<1>4. Settled(x) = IF in.input = NoPath THEN Exit(in, 2)
        ELSE IF Has(in, "--target") /\ ~target_from_name(in.slot["--target"].word)
        THEN Exit(in, 2)
        ELSE [in EXCEPT
                !.target = IF Has(in, "--target") THEN in.slot["--target"].word
                           ELSE @,
                !.runtime = IF Has(in, "--runtime")
                            THEN Directory(in.slot["--runtime"].path) ELSE Home]
  BY DEF Settled
<1> HIDE DEF in
<1>5. Exit(in, 2) \in Options
  BY <1>3 DEF Options, Exit
<1>6. ASSUME Has(in, "--runtime") PROVE Directory(in.slot["--runtime"].path) \in Seq(STRING)
  <2>1. PICK S \in SUBSET Slots : in.slot \in [S -> Argument]
    BY <1>3 DEF Options
  <2>2. in.slot["--runtime"] \in Argument
    BY <1>6, <2>1 DEF Has
  <2>3. in.slot["--runtime"].path \in Paths
    BY <2>2 DEF Argument
  <2>4. in.slot["--runtime"].path.dir \in Seq(STRING) /\ in.slot["--runtime"].path.name \in STRING
    BY <2>3 DEF Paths
  <2> QED BY <2>4 DEF Directory
<1>7. Home \in Seq(STRING)
  BY DEF BuildAssumption
<1>8. Settled(x) \in Options
  <2>1. CASE in.input = NoPath \/ (Has(in, "--target") /\ ~target_from_name(in.slot["--target"].word))
    BY <1>4, <1>5, <2>1
  <2>2. CASE ~(in.input = NoPath \/ (Has(in, "--target") /\ ~target_from_name(in.slot["--target"].word)))
    <3> DEFINE t == IF Has(in, "--target") THEN in.slot["--target"].word ELSE in.target
               r == IF Has(in, "--runtime") THEN Directory(in.slot["--runtime"].path) ELSE Home
    <3>1. t \in DOMAIN target_info
      BY <1>3, <2>2 DEF target_from_name, Options
    <3>2. r \in Seq(STRING)
      BY <1>6, <1>7
    <3>3. Settled(x) = [in EXCEPT !.target = t, !.runtime = r]
      BY <1>4, <2>2
    <3> HIDE DEF t, r
    <3> QED BY ONLY <1>3, <3>1, <3>2, <3>3 DEF Options
  <2> QED BY <2>1, <2>2
<1> QED BY <1>2, <1>8 DEF run, x

-----------------------------------------------------------------------------
(* Sequences of any elements.                                              *)

IsSeq(s) == s \in Seq(ToSet(s))

\* A sequence over some set is a sequence of its own elements.
LEMMA SeqIsSeq ==
    ASSUME NEW X, NEW s \in Seq(X)
    PROVE  IsSeq(s) /\ ToSet(s) \subseteq X /\ Len(s) \in Nat /\ DOMAIN s = 1 .. Len(s)
<1>1. Len(s) \in Nat /\ DOMAIN s = 1 .. Len(s) /\ s \in [1 .. Len(s) -> X]
  BY LenProperties
<1>2. ToSet(s) \subseteq X
  BY <1>1 DEF ToSet
<1>3. s \in [1 .. Len(s) -> ToSet(s)]
  BY <1>1 DEF ToSet
<1>4. s \in Seq(ToSet(s))
  <2> HIDE DEF ToSet
  <2> QED BY ONLY <1>1, <1>3
<1> QED BY <1>1, <1>2, <1>4 DEF IsSeq

\* The elements of one sequence after the other are those of both.
LEMMA IsSeqConcat ==
    ASSUME NEW s, NEW t, IsSeq(s), IsSeq(t)
    PROVE  /\ IsSeq(s \o t) /\ Len(s \o t) = Len(s) + Len(t)
           /\ Len(s) \in Nat /\ Len(t) \in Nat
           /\ ToSet(s \o t) = ToSet(s) \cup ToSet(t)
<1> DEFINE X == ToSet(s) \cup ToSet(t)
<1>1. s \in Seq(X) /\ t \in Seq(X)
  <2>1. ToSet(s) \subseteq X /\ ToSet(t) \subseteq X
    OBVIOUS
  <2>2. s \in Seq(ToSet(s)) /\ t \in Seq(ToSet(t))
    BY DEF IsSeq
  <2> HIDE DEF X
  <2> QED BY ONLY <2>1, <2>2
<1>2. /\ s \o t \in Seq(X) /\ Len(s \o t) = Len(s) + Len(t)
      /\ Len(s) \in Nat /\ Len(t) \in Nat
      /\ \A i \in DOMAIN s : i \in DOMAIN (s \o t) /\ (s \o t)[i] = s[i]
      /\ \A i \in DOMAIN t : /\ Len(s) + i \in DOMAIN (s \o t)
                             /\ (s \o t)[Len(s) + i] = t[i]
  <2> HIDE DEF X
  <2> QED BY ONLY <1>1, ConcatFacts
<1>3. IsSeq(s \o t) /\ ToSet(s \o t) \subseteq X
  <2> HIDE DEF X
  <2> QED BY ONLY <1>2, SeqIsSeq
<1>4. \A i \in DOMAIN s : s[i] \in ToSet(s \o t)
  BY ONLY <1>2 DEF ToSet
<1>5. \A i \in DOMAIN t : t[i] \in ToSet(s \o t)
  BY ONLY <1>2 DEF ToSet
<1>6. ToSet(s) \subseteq ToSet(s \o t) /\ ToSet(t) \subseteq ToSet(s \o t)
  BY ONLY <1>4, <1>5 DEF ToSet
<1> QED BY ONLY <1>2, <1>3, <1>6 DEF X

\* Short sequences.
LEMMA IsSeqShort ==
    /\ IsSeq(<<>>) /\ Len(<<>>) = 0 /\ ToSet(<<>>) = {}
    /\ \A a : IsSeq(<<a>>) /\ Len(<<a>>) = 1 /\ ToSet(<<a>>) = {a}
    /\ \A a, b : IsSeq(<<a, b>>) /\ Len(<<a, b>>) = 2 /\ ToSet(<<a, b>>) = {a, b}
<1>1. IsSeq(<<>>) /\ Len(<<>>) = 0 /\ ToSet(<<>>) = {}
  BY DEF IsSeq, ToSet
<1>2. ASSUME NEW a PROVE IsSeq(<<a>>) /\ Len(<<a>>) = 1 /\ ToSet(<<a>>) = {a}
  <2>1. <<a>> \in Seq({a})
    OBVIOUS
  <2>2. ToSet(<<a>>) = {a}
    BY DEF ToSet
  <2> QED BY <2>1, <2>2 DEF IsSeq
<1>3. ASSUME NEW a, NEW b PROVE IsSeq(<<a, b>>) /\ Len(<<a, b>>) = 2 /\ ToSet(<<a, b>>) = {a, b}
  <2>1. <<a, b>> \in Seq({a, b})
    OBVIOUS
  <2>2. ToSet(<<a, b>>) = {a, b}
    BY DEF ToSet
  <2> QED BY <2>1, <2>2 DEF IsSeq
<1> QED BY ONLY <1>1, <1>2, <1>3

\* A sequence of at most n elements.
Short(s, n) == IsSeq(s) /\ Len(s) \in Nat /\ Len(s) <= n

LEMMA Short0 ==
    Short(<<>>, 0)
<1>1. <<>> \in Seq({}) /\ Len(<<>>) = 0
  OBVIOUS
<1>2. IsSeq(<<>>)
  BY ONLY <1>1, SeqIsSeq
<1> QED BY ONLY <1>1, <1>2 DEF Short

LEMMA Short1 ==
    ASSUME NEW a
    PROVE  Short(<<a>>, 1)
<1>1. <<a>> \in Seq({a}) /\ Len(<<a>>) = 1
  OBVIOUS
<1>2. IsSeq(<<a>>)
  BY ONLY <1>1, SeqIsSeq
<1> QED BY ONLY <1>1, <1>2 DEF Short

LEMMA Short2 ==
    ASSUME NEW a, NEW b
    PROVE  Short(<<a, b>>, 2)
<1>1. <<a, b>> \in Seq({a, b}) /\ Len(<<a, b>>) = 2
  OBVIOUS
<1>2. IsSeq(<<a, b>>)
  BY ONLY <1>1, SeqIsSeq
<1> QED BY ONLY <1>1, <1>2 DEF Short

LEMMA Short3 ==
    ASSUME NEW a, NEW b, NEW c
    PROVE  Short(<<a, b, c>>, 3)
<1>1. <<a, b, c>> \in Seq({a, b, c}) /\ Len(<<a, b, c>>) = 3
  OBVIOUS
<1>2. IsSeq(<<a, b, c>>)
  BY ONLY <1>1, SeqIsSeq
<1> QED BY ONLY <1>1, <1>2 DEF Short

LEMMA Short4 ==
    ASSUME NEW a, NEW b, NEW c, NEW d
    PROVE  Short(<<a, b, c, d>>, 4)
<1>1. <<a, b, c, d>> \in Seq({a, b, c, d}) /\ Len(<<a, b, c, d>>) = 4
  OBVIOUS
<1>2. IsSeq(<<a, b, c, d>>)
  BY ONLY <1>1, SeqIsSeq
<1> QED BY ONLY <1>1, <1>2 DEF Short

LEMMA Short5 ==
    ASSUME NEW a, NEW b, NEW c, NEW d, NEW e
    PROVE  Short(<<a, b, c, d, e>>, 5)
<1>1. <<a, b, c, d, e>> \in Seq({a, b, c, d, e}) /\ Len(<<a, b, c, d, e>>) = 5
  OBVIOUS
<1>2. IsSeq(<<a, b, c, d, e>>)
  BY ONLY <1>1, SeqIsSeq
<1> QED BY ONLY <1>1, <1>2 DEF Short

LEMMA Short6 ==
    ASSUME NEW a, NEW b, NEW c, NEW d, NEW e, NEW f
    PROVE  Short(<<a, b, c, d, e, f>>, 6)
<1>1. <<a, b, c, d, e, f>> \in Seq({a, b, c, d, e, f}) /\ Len(<<a, b, c, d, e, f>>) = 6
  OBVIOUS
<1>2. IsSeq(<<a, b, c, d, e, f>>)
  BY ONLY <1>1, SeqIsSeq
<1> QED BY ONLY <1>1, <1>2 DEF Short

LEMMA Short7 ==
    ASSUME NEW a, NEW b, NEW c, NEW d, NEW e, NEW f, NEW g
    PROVE  Short(<<a, b, c, d, e, f, g>>, 7)
<1>1. <<a, b, c, d, e, f, g>> \in Seq({a, b, c, d, e, f, g}) /\ Len(<<a, b, c, d, e, f, g>>) = 7
  OBVIOUS
<1>2. IsSeq(<<a, b, c, d, e, f, g>>)
  BY ONLY <1>1, SeqIsSeq
<1> QED BY ONLY <1>1, <1>2 DEF Short

LEMMA Short8 ==
    ASSUME NEW a, NEW b, NEW c, NEW d, NEW e, NEW f, NEW g, NEW h
    PROVE  Short(<<a, b, c, d, e, f, g, h>>, 8)
<1>1. <<a, b, c, d, e, f, g, h>> \in Seq({a, b, c, d, e, f, g, h}) /\ Len(<<a, b, c, d, e, f, g, h>>) = 8
  OBVIOUS
<1>2. IsSeq(<<a, b, c, d, e, f, g, h>>)
  BY ONLY <1>1, SeqIsSeq
<1> QED BY ONLY <1>1, <1>2 DEF Short

LEMMA Short9 ==
    ASSUME NEW a, NEW b, NEW c, NEW d, NEW e, NEW f, NEW g, NEW h, NEW i
    PROVE  Short(<<a, b, c, d, e, f, g, h, i>>, 9)
<1>1. <<a, b, c, d, e, f, g, h, i>> \in Seq({a, b, c, d, e, f, g, h, i}) /\ Len(<<a, b, c, d, e, f, g, h, i>>) = 9
  OBVIOUS
<1>2. IsSeq(<<a, b, c, d, e, f, g, h, i>>)
  BY ONLY <1>1, SeqIsSeq
<1> QED BY ONLY <1>1, <1>2 DEF Short

\* The lengths of sequences one after the other.
LEMMA ShortConcat ==
    ASSUME NEW s, NEW t, NEW m \in Nat, NEW n \in Nat, Short(s, m), Short(t, n)
    PROVE  Short(s \o t, m + n)
<1>1. /\ IsSeq(s \o t) /\ Len(s \o t) = Len(s) + Len(t)
      /\ Len(s) \in Nat /\ Len(t) \in Nat /\ Len(s) <= m /\ Len(t) <= n
  BY IsSeqConcat DEF Short
<1> QED BY ONLY <1>1, m \in Nat, n \in Nat DEF Short

-----------------------------------------------------------------------------
(* The command lines of src/linker.c.                                      *)

LEMMA CommandFits ==
    ASSUME NEW argv, NEW extra \in Nat, NEW strings \in Nat,
           Short(argv, LINK_FIXED_ARGS + extra), strings <= LINK_MAX_STRINGS
    PROVE  Fits(Command(argv, extra, strings))
BY DEF Short, Fits, Command, LINK_FIXED_ARGS, LINK_MAX_STRINGS

LEMMA StringsFew ==
    ASSUME NEW in
    PROVE  /\ ProgramStrings(in) \in 0 .. 1
           /\ Short(windows_libpaths(in), 3) /\ Len(windows_libpaths(in)) \in 0 .. 3
BY Short0, Short3 DEF ProgramStrings, windows_libpaths, Short

LEMMA AddInputs ==
    ASSUME NEW in, IsSeq(in.extra)
    PROVE  /\ Len(in.extra) \in Nat
           /\ Short(add_inputs(in), 1 + Len(in.extra))
<1>1. IsSeq(<<in.object>>) /\ Len(<<in.object>>) = 1
  BY IsSeqShort
<1>2. /\ IsSeq(add_inputs(in)) /\ Len(in.extra) \in Nat
      /\ Len(add_inputs(in)) = Len(<<in.object>>) + Len(in.extra)
  BY ONLY <1>1, IsSeq(in.extra), IsSeqConcat DEF add_inputs
<1> QED BY ONLY <1>1, <1>2 DEF Short

LEMMA MacosStart ==
    ASSUME NEW t, NEW in, NEW dylib
    PROVE  Short(macos_start(t, in, dylib), 11)
<1> DEFINE a == <<program(in, "ld64.lld", "ld")>>
           b == IF dylib THEN <<"-dylib">> ELSE <<>>
           c == <<"-S", "-arch", target_info[t].arch, "-platform_version", "macos",
                  "version", "sdk version", "-syslibroot",
                  IF in.linker = "lld" THEN "sysroot" ELSE "sdk path">>
<1>1. Short(a, 1)
  BY Short1
<1>5. Short(b, 1)
  BY Short0, Short1 DEF Short
<1>6. Short(c, 9)
  BY ONLY Short9
<1>2. macos_start(t, in, dylib) = a \o b \o c
  BY DEF macos_start
<1> HIDE DEF a, b, c
<1>3. Short(a \o b, 1 + 1)
  BY ONLY <1>1, <1>5, ShortConcat
<1>4. Short((a \o b) \o c, (1 + 1) + 9)
  BY ONLY <1>6, <1>3, ShortConcat
<1> QED BY ONLY <1>2, <1>4

\* A command line of four parts.
LEMMA FourParts ==
    ASSUME NEW a, NEW b, NEW c, NEW d, NEW n \in Nat, NEW i \in Nat, NEW k \in Nat,
           NEW l \in Nat, NEW m \in Nat, NEW strings \in 0 .. LINK_MAX_STRINGS,
           Short(a, i), Short(b, k), Short(c, l), Short(d, m), i + k + l + m <= 24 + n
    PROVE  Fits(Command(a \o b \o c \o d, n, strings))
<1>1. Short(a \o b, i + k)
  BY ONLY Short(a, i), Short(b, k), i \in Nat, k \in Nat, ShortConcat
<1>2. Short((a \o b) \o c, (i + k) + l)
  BY <1>1, ShortConcat
<1>3. Short(((a \o b) \o c) \o d, ((i + k) + l) + m)
  BY <1>2, ShortConcat
<1>4. Short(((a \o b) \o c) \o d, LINK_FIXED_ARGS + n)
  BY <1>3 DEF Short, LINK_FIXED_ARGS
<1>5. strings \in Nat /\ strings <= LINK_MAX_STRINGS
  BY DEF LINK_MAX_STRINGS
<1> QED BY ONLY <1>4, <1>5, n \in Nat, CommandFits

\* Every command line of a link.
LEMMA LinkFits ==
    ASSUME NEW t, NEW in, IsSeq(in.extra)
    PROVE  Fits(link_command(t, in))
<1> DEFINE n == Len(in.extra)
           x == add_inputs(in)
<1>1. n \in Nat /\ Short(x, 1 + n) /\ ProgramStrings(in) \in 0 .. 1
  BY AddInputs, StringsFew
<1>2. Fits(macos(t, in))
  <2> DEFINE a == macos_start(t, in, FALSE)
             b == <<"-o", in.executable>>
             d == <<link_runtime_library(t), "-lSystem">>
  <2>1. Short(a, 11) /\ Short(b, 2) /\ Short(d, 5)
    <3>1. Short(b, 2) /\ Short(d, 2)
      BY ONLY Short2
    <3>2. Short(a, 11)
      BY MacosStart
    <3> HIDE DEF a, b, d
    <3> QED BY ONLY <3>1, <3>2 DEF Short
  <2>2. 2 + ProgramStrings(in) \in 0 .. LINK_MAX_STRINGS
    BY <1>1 DEF LINK_MAX_STRINGS
  <2>3. macos(t, in) = Command(a \o b \o x \o d, n, 2 + ProgramStrings(in))
    BY DEF macos
  <2> HIDE DEF a, b, d, x, n
  <2>4. /\ 11 \in Nat /\ 2 \in Nat /\ 1 + n \in Nat /\ 5 \in Nat
        /\ 11 + 2 + (1 + n) + 5 <= 24 + n
    BY ONLY <1>1
  <2> QED BY ONLY <1>1, <2>1, <2>2, <2>3, <2>4, FourParts
<1>3. Fits(linux_lld(t, in))
  <2> DEFINE a == <<program(in, "ld.lld", "ld"), "-static", "-pie",
                    "--no-dynamic-linker", "--strip-debug", "-o", in.executable,
                    "rcrt1.o", "crti.o">>
             d == <<link_runtime_library(t), "libc.a",
                    "libclang_rt.builtins.a", "crtn.o">>
  <2>1. Short(a, 9) /\ Short(<<>>, 0) /\ Short(d, 5)
    <3>1. Short(a, 9) /\ Short(<<>>, 0) /\ Short(d, 4)
      BY ONLY Short9, Short0, Short4
    <3> HIDE DEF a, d
    <3> QED BY ONLY <3>1 DEF Short
  <2>2. 6 + ProgramStrings(in) \in 0 .. LINK_MAX_STRINGS
    BY <1>1 DEF LINK_MAX_STRINGS
  <2>3. linux_lld(t, in) = Command(a \o x \o d, n, 6 + ProgramStrings(in))
    BY DEF linux_lld
  <2>4. a \o <<>> = a
    <3> HIDE DEF a
    <3> QED BY <2>1, ConcatEmptySeq DEF Short, IsSeq
  <2> HIDE DEF a, d, x, n
  <2>5. Fits(Command(a \o <<>> \o x \o d, n, 6 + ProgramStrings(in)))
    <3>1. /\ 9 \in Nat /\ 0 \in Nat /\ 1 + n \in Nat /\ 5 \in Nat
          /\ 9 + 0 + (1 + n) + 5 <= 24 + n
      BY ONLY <1>1
    <3> QED BY ONLY <1>1, <2>1, <2>2, <3>1, FourParts
  <2> QED BY ONLY <2>3, <2>4, <2>5
<1>4. Fits(linux_ld(t, in))
  <2> DEFINE a == <<"ld", "-pie", "--strip-debug", "--dynamic-linker", "-o",
                    in.executable, "Scrt1.o", "crti.o">>
             d == <<link_runtime_library(t), "-L", "-lc", "crtn.o">>
  <2>1. Short(a, 8) /\ Short(<<>>, 0) /\ Short(d, 5)
    <3>1. Short(a, 8) /\ Short(<<>>, 0) /\ Short(d, 4)
      BY ONLY Short8, Short0, Short4
    <3> HIDE DEF a, d
    <3> QED BY ONLY <3>1 DEF Short
  <2>2. 6 \in 0 .. LINK_MAX_STRINGS
    BY DEF LINK_MAX_STRINGS
  <2>3. linux_ld(t, in) = Command(a \o x \o d, n, 6)
    BY DEF linux_ld
  <2>4. a \o <<>> = a
    <3> HIDE DEF a
    <3> QED BY <2>1, ConcatEmptySeq DEF Short, IsSeq
  <2> HIDE DEF a, d, x, n
  <2>5. Fits(Command(a \o <<>> \o x \o d, n, 6))
    <3>1. /\ 8 \in Nat /\ 0 \in Nat /\ 1 + n \in Nat /\ 5 \in Nat
          /\ 8 + 0 + (1 + n) + 5 <= 24 + n
      BY ONLY <1>1
    <3> QED BY ONLY <1>1, <2>1, <2>2, <3>1, FourParts
  <2> QED BY ONLY <2>3, <2>4, <2>5
<1>5. Fits(windows(t, in))
  <2> DEFINE a == <<program(in, "lld-link", "link.exe"), "/NOLOGO", "/debug:none",
                    "/SUBSYSTEM:CONSOLE", "/MACHINE", in.executable>>
             b == windows_libpaths(in)
             d == WindowsLibraries(t)
             strings == 2 + ProgramStrings(in) + Len(windows_libpaths(in))
  <2>1. Short(a, 6) /\ Short(b, 3) /\ Short(d, 5)
    BY StringsFew, Short6, Short5 DEF WindowsLibraries
  <2>2. strings \in 0 .. LINK_MAX_STRINGS
    <3>1. Len(windows_libpaths(in)) \in 0 .. 3
      BY StringsFew
    <3> DEFINE k == Len(windows_libpaths(in))
               p == ProgramStrings(in)
    <3>2. k \in 0 .. 3 /\ p \in 0 .. 1 /\ strings = 2 + p + k
      BY <1>1, <3>1
    <3> HIDE DEF k, p, strings
    <3> QED BY ONLY <3>2 DEF LINK_MAX_STRINGS
  <2>3. windows(t, in) = Command(a \o b \o x \o d, n, strings)
    BY DEF windows
  <2> HIDE DEF a, b, d, x, n, strings
  <2>4. /\ 6 \in Nat /\ 3 \in Nat /\ 1 + n \in Nat /\ 5 \in Nat
        /\ 6 + 3 + (1 + n) + 5 <= 24 + n
    BY ONLY <1>1
  <2> QED BY ONLY <1>1, <2>1, <2>2, <2>3, <2>4, FourParts
<1> QED BY <1>2, <1>3, <1>4, <1>5 DEF link_command

\* Every command line of the link of a shared library.
LEMMA LinkSharedFits ==
    ASSUME NEW t, NEW in, NEW major, IsSeq(in.extra)
    PROVE  Fits(link_shared_command(t, in, major))
<1> DEFINE n == Len(in.extra)
           x == add_inputs(in)
           rt == link_runtime_library(t)
           p == ProgramStrings(in)
<1>1. n \in Nat /\ Short(x, 1 + n) /\ p \in 0 .. 1
  BY AddInputs, StringsFew
<1>2. CASE target_info[t].os = "macos"
  <2> DEFINE a == macos_start(t, in, TRUE)
             b == <<"-o", in.executable>>
             c == IF major THEN <<"-install_name", "@rpath",
                                  "-compatibility_version", "major",
                                  "-current_version", "version">> ELSE <<>>
             d == <<rt, "-lSystem">>
  <2>1. Short(a, 11)
    BY MacosStart
  <2>2. Short(b, 2) /\ Short(d, 2)
    BY ONLY Short2
  <2>3. Short(c, 6)
    <3>1. Short(<<"-install_name", "@rpath", "-compatibility_version", "major",
                  "-current_version", "version">>, 6)
      BY ONLY Short6
    <3>2. Short(<<>>, 6)
      BY Short0 DEF Short
    <3> QED BY ONLY <3>1, <3>2
  <2>4. 4 + p \in 0 .. LINK_MAX_STRINGS
    <3> HIDE DEF p
    <3> QED BY <1>1 DEF LINK_MAX_STRINGS
  <2>5. link_shared_command(t, in, major) = Command(a \o b \o c \o x \o d, n, 4 + p)
    BY <1>2 DEF link_shared_command
  <2> HIDE DEF a, b, c, d, x, n, p
  <2>6. Short(a \o b, 11 + 2)
    BY ONLY <2>1, <2>2, ShortConcat
  <2>7. /\ 11 + 2 \in Nat /\ 6 \in Nat /\ 1 + n \in Nat /\ 2 \in Nat
        /\ (11 + 2) + 6 + (1 + n) + 2 <= 24 + n
    BY ONLY <1>1
  <2> QED BY ONLY <1>1, <2>2, <2>3, <2>4, <2>5, <2>6, <2>7, FourParts
<1>3. CASE target_info[t].os = "linux"
  <2> DEFINE a == <<program(in, "ld.lld", "ld"), "-shared", "--strip-debug",
                    "-o", in.executable>>
             b == IF major THEN <<"-soname", "base">> ELSE <<>>
             c == <<rt>>
             d == IF in.linker = "platform" THEN <<"-L", "-lc">> ELSE <<>>
  <2>1. Short(a, 5)
    BY ONLY Short5
  <2>2. Short(b, 2) /\ Short(d, 2)
    <3>1. Short(<<"-soname", "base">>, 2) /\ Short(<<"-L", "-lc">>, 2)
      BY ONLY Short2
    <3>2. Short(<<>>, 2)
      BY Short0 DEF Short
    <3> QED BY ONLY <3>1, <3>2
  <2>3. Short(c, 1)
    BY ONLY Short1
  <2>4. 2 + p \in 0 .. LINK_MAX_STRINGS
    <3> HIDE DEF p
    <3> QED BY <1>1 DEF LINK_MAX_STRINGS
  <2>5. link_shared_command(t, in, major) = Command(a \o b \o x \o c \o d, n, 2 + p)
    BY <1>3 DEF link_shared_command
  <2> HIDE DEF a, b, c, d, x, n, p
  <2>6. Short(a \o b, 5 + 2)
    BY ONLY <2>1, <2>2, ShortConcat
  <2>7. /\ 5 + 2 \in Nat /\ 1 \in Nat /\ 1 + n \in Nat /\ 2 \in Nat
        /\ (5 + 2) + (1 + n) + 1 + 2 <= 24 + n
    BY ONLY <1>1
  <2> QED BY ONLY <1>1, <2>2, <2>3, <2>4, <2>5, <2>6, <2>7, FourParts
<1>4. CASE target_info[t].os \notin {"macos", "linux"}
  <2> DEFINE a == <<program(in, "lld-link", "link.exe"), "/NOLOGO",
                    "/debug:none", "/DLL", "/MACHINE", in.executable, "/DEF">>
             b == windows_libpaths(in)
             d == WindowsLibraries(t)
             k == Len(b)
             strings == 3 + p + k
  <2>1. Short(a, 7)
    BY ONLY Short7
  <2>2. Short(b, 3) /\ k \in 0 .. 3
    BY StringsFew
  <2>3. Short(d, 5)
    BY ONLY Short5 DEF WindowsLibraries
  <2>5. link_shared_command(t, in, major) = Command(a \o b \o x \o d, n, strings)
    BY <1>4 DEF link_shared_command
  <2>4. strings \in 0 .. LINK_MAX_STRINGS
    <3> HIDE DEF p, k
    <3> QED BY <1>1, <2>2 DEF LINK_MAX_STRINGS
  <2> HIDE DEF a, b, d, x, n, p, k, strings
  <2>7. /\ 7 \in Nat /\ 3 \in Nat /\ 1 + n \in Nat /\ 5 \in Nat
        /\ 7 + 3 + (1 + n) + 5 <= 24 + n
    BY ONLY <1>1
  <2> QED BY ONLY <1>1, <2>1, <2>2, <2>3, <2>4, <2>5, <2>7, FourParts
<1> QED BY ONLY <1>2, <1>3, <1>4

\* llvm-ar with its members.
LEMMA ArchiveFits ==
    ASSUME NEW ar, NEW archive, NEW members, IsSeq(members)
    PROVE  Fits(archive_command(ar, archive, members))
<1> DEFINE n == Len(members)
           a == <<ar, "--format", "rcs", archive>>
<1>1. n \in Nat /\ Short(members, n)
  BY IsSeqConcat DEF Short
<1>2. Short(a, 4)
  BY ONLY Short4
<1>3. archive_command(ar, archive, members) = Command(a \o members, n, 0)
  BY DEF archive_command
<1> HIDE DEF a, n
<1>4. Short(a \o members, 4 + n)
  BY ONLY <1>1, <1>2, ShortConcat
<1>5. Short(a \o members, LINK_FIXED_ARGS + n)
  BY <1>1, <1>4 DEF Short, LINK_FIXED_ARGS
<1>6. 0 \in Nat /\ 0 <= LINK_MAX_STRINGS
  BY DEF LINK_MAX_STRINGS
<1> QED BY ONLY <1>1, <1>3, <1>5, <1>6, CommandFits

\* ld -r over the objects of a bundled library.
LEMMA RelocatableFits ==
    ASSUME NEW t, NEW in, NEW output, NEW objects, IsSeq(objects)
    PROVE  Fits(relocatable_command(t, in, output, objects))
<1> DEFINE n == Len(objects)
           mac == target_info[t].os = "macos"
           a == <<IF mac THEN "ld" ELSE program(in, "ld.lld", "ld"), "-r">>
           b == IF mac THEN <<"-keep_private_externs", "-arch",
                              target_info[t].arch>> ELSE <<>>
           c == <<"-o", output>>
           strings == IF mac THEN 0 ELSE ProgramStrings(in)
<1>1. n \in Nat /\ Short(objects, n)
  BY IsSeqConcat DEF Short
<1>2. Short(a, 2) /\ Short(c, 2)
  BY ONLY Short2
<1>3. Short(b, 3)
  <2>1. Short(<<"-keep_private_externs", "-arch", target_info[t].arch>>, 3)
    BY ONLY Short3
  <2>2. Short(<<>>, 3)
    BY Short0 DEF Short
  <2> QED BY ONLY <2>1, <2>2
<1>4. strings \in 0 .. LINK_MAX_STRINGS
  BY StringsFew DEF LINK_MAX_STRINGS
<1>5. relocatable_command(t, in, output, objects)
          = Command(a \o b \o c \o objects, n, strings)
  BY DEF relocatable_command
<1> HIDE DEF a, b, c, n, strings
<1>6. /\ 2 \in Nat /\ 3 \in Nat /\ n \in Nat
      /\ 2 + 3 + 2 + n <= 24 + n
  BY ONLY <1>1
<1> QED BY ONLY <1>1, <1>2, <1>3, <1>4, <1>5, <1>6, FourParts

-----------------------------------------------------------------------------
(* The steps of a command, whose tools have command lines that fit.        *)

\* What a command writes is no program, and a library file that it writes has
\* a module and imports.
ContentFits(c) ==
    /\ c.kind \notin {"executable", "shared", "source"}
    /\ c.kind = "antl" => c.module \in Modules /\ c.imports \in Seq(Modules)

StepFits(x) ==
    /\ x.op = "tool" => Fits(x.command) /\ x.kind \notin {"antl", "source"}
    /\ x.op = "write" => ContentFits(x.content)

StepsFit(steps) == IsSeq(steps) /\ \A x \in ToSet(steps) : StepFits(x)

UnitFits(u) == ContentFits(u.asm) /\ ContentFits(u.antl)

LEMMA FitConcat ==
    ASSUME NEW s, NEW t, StepsFit(s), StepsFit(t)
    PROVE  StepsFit(s \o t)
<1>1. IsSeq(s \o t) /\ ToSet(s \o t) = ToSet(s) \cup ToSet(t)
  BY IsSeqConcat DEF StepsFit
<1> QED BY <1>1 DEF StepsFit

LEMMA FitShort ==
    /\ StepsFit(<<>>)
    /\ \A x : StepFits(x) => StepsFit(<<x>>)
    /\ \A x, y : StepFits(x) /\ StepFits(y) => StepsFit(<<x, y>>)
<1>1. StepsFit(<<>>)
  BY IsSeqShort DEF StepsFit
<1>2. ASSUME NEW x, StepFits(x) PROVE StepsFit(<<x>>)
  <2>1. IsSeq(<<x>>) /\ ToSet(<<x>>) = {x}
    BY IsSeqShort
  <2> QED BY ONLY <1>2, <2>1 DEF StepsFit
<1>3. ASSUME NEW x, NEW y, StepFits(x), StepFits(y) PROVE StepsFit(<<x, y>>)
  <2>1. IsSeq(<<x, y>>) /\ ToSet(<<x, y>>) = {x, y}
    BY IsSeqShort
  <2> QED BY ONLY <1>3, <2>1 DEF StepsFit
<1> QED BY ONLY <1>1, <1>2, <1>3

\* The rest of a sequence has no other elements.
LEMMA IsSeqTail ==
    ASSUME NEW s, IsSeq(s), s # <<>>
    PROVE  /\ IsSeq(Tail(s)) /\ ToSet(Tail(s)) \subseteq ToSet(s)
           /\ Head(s) \in ToSet(s) /\ s = <<Head(s)>> \o Tail(s)
           /\ Len(s) \in Nat /\ Len(s) > 0
<1> DEFINE X == ToSet(s)
<1>1. s \in Seq(X)
  BY DEF IsSeq
<1> HIDE DEF X
<1>2. Tail(s) \in Seq(X) /\ Head(s) \in X /\ s = <<Head(s)>> \o Tail(s)
      /\ Len(s) \in Nat /\ Len(s) > 0
  BY ONLY <1>1, s # <<>>, HeadTailProperties, EmptySeq, LenProperties
<1>3. IsSeq(Tail(s)) /\ ToSet(Tail(s)) \subseteq X
  BY ONLY <1>2, SeqIsSeq
<1> QED BY ONLY <1>2, <1>3 DEF X

LEMMA FitTail ==
    ASSUME NEW s, StepsFit(s), s # <<>>
    PROVE  StepsFit(Tail(s))
<1>1. IsSeq(Tail(s)) /\ ToSet(Tail(s)) \subseteq ToSet(s)
  BY IsSeqTail DEF StepsFit
<1> QED BY ONLY <1>1, StepsFit(s) DEF StepsFit

\* The steps of each kind.
LEMMA StepOps ==
    /\ \A p, c : ContentFits(c) => StepFits(Write(p, c))
    /\ \A p : StepFits(Delete(p))
    /\ StepFits(Listing) /\ StepFits(Query) /\ StepFits(Fail)
    /\ \A p, k, r, c : Fits(c) /\ k \notin {"antl", "source"} => StepFits(Tool(p, k, r, c))
BY DEF StepFits, Write, Delete, Listing, Query, Fail, Tool

LEMMA PlainFits ==
    ASSUME NEW argv, NEW n \in 0 .. LINK_FIXED_ARGS, Short(argv, n)
    PROVE  Fits(Command(argv, 0, 0))
<1>1. Short(argv, LINK_FIXED_ARGS + 0) /\ 0 \in Nat /\ 0 <= LINK_MAX_STRINGS
  BY DEF Short, LINK_FIXED_ARGS, LINK_MAX_STRINGS
<1> QED BY ONLY <1>1, CommandFits

LEMMA AssembleFits ==
    ASSUME NEW asm, NEW object
    PROVE  StepFits(assemble(asm, object))
<1> DEFINE argv == <<IF Has(o, "--llvm-mc") THEN "--llvm-mc"
                     ELSE archive_tool("llvm-mc"),
                     "-triple", "-filetype=obj", "-o", object, asm>>
<1>1. Short(argv, 6)
  BY ONLY Short6
<1>2. assemble(asm, object) = Tool(object, "object", <<asm>>, Command(argv, 0, 0))
  BY DEF assemble
<1> HIDE DEF argv
<1>3. 6 \in 0 .. LINK_FIXED_ARGS
  BY DEF LINK_FIXED_ARGS
<1>4. Fits(Command(argv, 0, 0))
  BY ONLY <1>1, <1>3, PlainFits
<1>5. StepFits(Tool(object, "object", <<asm>>, Command(argv, 0, 0)))
  BY ONLY <1>4, StepOps
<1> QED BY ONLY <1>2, <1>5

LEMMA LinkFactsFit == StepsFit(link_facts)
BY FitShort, StepOps DEF link_facts

LEMMA LinkProgramFits ==
    ASSUME IsSeq(o.objects), NEW object, NEW executable
    PROVE  StepsFit(link_program(object, executable))
<1> DEFINE in == Inputs(object, executable, o.objects)
           x == Tool(executable, "executable", <<object>> \o o.objects,
                     link_command(o.target, in))
<1>1. IsSeq(in.extra)
  BY DEF Inputs
<1>2. Fits(link_command(o.target, in))
  <2> HIDE DEF in
  <2> QED BY ONLY <1>1, LinkFits
<1>3. StepFits(x)
  <2> HIDE DEF in
  <2> QED BY <1>2, StepOps
<1>4. link_program(object, executable) = link_facts \o <<x>>
  BY DEF link_program
<1> HIDE DEF x
<1>5. StepsFit(<<x>>)
  BY ONLY <1>3, FitShort
<1> QED BY ONLY <1>4, <1>5, LinkFactsFit, FitConcat

LEMMA ArchiveStepsFit ==
    ASSUME NEW members, IsSeq(members)
    PROVE  StepsFit(Archive(members))
<1> DEFINE all == Append(members, Plus(PackagePath, ObjectSuffix))
           ar == IF Has(o, "--llvm-ar") THEN "--llvm-ar" ELSE "llvm-ar"
           x == Tool(LibraryPath, "archive", all, archive_command(ar, LibraryPath, all))
<1>1. IsSeq(all)
  <2> DEFINE e == Plus(PackagePath, ObjectSuffix)
             X == ToSet(members) \cup {e}
  <2>1. members \in Seq(X)
    <3>1. ToSet(members) \subseteq X /\ members \in Seq(ToSet(members))
      BY DEF IsSeq
    <3> HIDE DEF X
    <3> QED BY ONLY <3>1
  <2>2. e \in X
    OBVIOUS
  <2> HIDE DEF X, e
  <2>3. Append(members, e) \in Seq(X)
    BY ONLY <2>1, <2>2, AppendFacts
  <2>4. IsSeq(Append(members, e))
    BY ONLY <2>3, SeqIsSeq
  <2> QED BY ONLY <2>4 DEF e
<1>2. Fits(archive_command(ar, LibraryPath, all))
  <2> HIDE DEF all, ar
  <2> QED BY ONLY <1>1, ArchiveFits
<1>3. Archive(members) = <<Delete(LibraryPath), x>>
  BY DEF Archive
<1>4. StepFits(x)
  <2> HIDE DEF all, ar
  <2> QED BY <1>2, StepOps
<1> HIDE DEF x
<1> QED BY ONLY <1>3, <1>4, FitShort, StepOps

\* The members of the runtime that a bundled library takes.
LEMMA KeptIs ==
    ASSUME NEW listing, IsSeq(listing)
    PROVE  /\ IsSeq(Kept(listing))
           /\ \A i \in DOMAIN Kept(listing) : Kept(listing)[i] \in ToSet(listing)
<1> DEFINE n == Len(listing)
           S == {i \in DOMAIN listing : listing[i] \notin {"start", "license"}}
           a == InOrder(S, n)
<1>1. n \in Nat /\ DOMAIN listing = 1 .. n
  BY SeqIsSeq DEF IsSeq
<1>2. S \in SUBSET (1 .. n)
  BY <1>1
<1>3. a \in Seq(S)
  <2> HIDE DEF S, n
  <2> QED BY ONLY <1>1, <1>2, InOrderIs
<1>4. Kept(listing) = [k \in DOMAIN a |-> listing[a[k]]]
  BY DEF Kept
<1> HIDE DEF a
<1>5. Len(a) \in Nat /\ DOMAIN a = 1 .. Len(a) /\ \A k \in 1 .. Len(a) : a[k] \in S
  BY ONLY <1>3
<1>6. \A k \in 1 .. Len(a) : listing[a[k]] \in ToSet(listing)
  <2>1. \A i \in S : listing[i] \in ToSet(listing)
    BY DEF ToSet
  <2> HIDE DEF S
  <2> QED BY ONLY <1>5, <2>1
<1>7. Kept(listing) \in [1 .. Len(a) -> ToSet(listing)]
  BY ONLY <1>4, <1>5, <1>6
<1>8. Kept(listing) \in Seq(ToSet(listing))
  BY ONLY <1>5, <1>7
<1> QED BY ONLY <1>5, <1>7, <1>8, SeqIsSeq

\* A sequence made of one step for every element of another.
LEMMA EachFits ==
    ASSUME NEW s, IsSeq(s), NEW f, f = [i \in DOMAIN s |-> f[i]],
           \A i \in DOMAIN s : StepFits(f[i])
    PROVE  StepsFit(f)
<1>1. Len(s) \in Nat /\ DOMAIN s = 1 .. Len(s)
  BY SeqIsSeq DEF IsSeq
<1>2. f \in [1 .. Len(s) -> ToSet(f)]
  <2>1. \A i \in DOMAIN s : f[i] \in ToSet(f)
    BY DEF ToSet
  <2> QED BY ONLY <1>1, <2>1, f = [i \in DOMAIN s |-> f[i]]
<1>3. IsSeq(f)
  <2> DEFINE X == ToSet(f)
  <2>1. f \in Seq(X)
    <3> HIDE DEF X
    <3>1. f \in [1 .. Len(s) -> X]
      BY <1>2 DEF X
    <3> QED BY ONLY <1>1, <3>1
  <2> QED BY <2>1 DEF IsSeq
<1>4. \A x \in ToSet(f) : \E i \in DOMAIN s : x = f[i]
  <2>1. DOMAIN f = DOMAIN s
    OBVIOUS
  <2> QED BY <2>1 DEF ToSet
<1> QED BY ONLY <1>3, <1>4, \A i \in DOMAIN s : StepFits(f[i]) DEF StepsFit

LEMMA BundleFits ==
    ASSUME NEW object, NEW listing, IsSeq(listing)
    PROVE  StepsFit(bundle(object, listing))
<1> DEFINE kept    == Kept(listing)
           paths   == [i \in DOMAIN kept |-> Extracted(kept[i])]
           argv(i) == <<"llvm-ar", "x", "--output", "library", kept[i]>>
           extract == [i \in DOMAIN kept |->
                        Tool(paths[i], "member", <<>>, Command(argv(i), 0, 0))]
           objects == <<object, StubPath>> \o paths
           joined  == Plus(unit.base, <<".bundled">> \o ObjectSuffix)
           x == Tool(joined, "joined", objects,
                     relocatable_command(o.target,
                            Inputs(object, joined, <<>>), joined, objects))
<1>1. IsSeq(kept)
  BY KeptIs
<1>2. IsSeq(paths)
  <2>1. Len(kept) \in Nat /\ DOMAIN kept = 1 .. Len(kept)
    BY <1>1, SeqIsSeq DEF IsSeq
  <2> DEFINE X == {Extracted(kept[i]) : i \in 1 .. Len(kept)}
  <2>2. paths \in [1 .. Len(kept) -> X]
    BY <2>1
  <2>3. paths \in Seq(X)
    <3> HIDE DEF paths, X, kept
    <3> QED BY ONLY <2>1, <2>2
  <2> HIDE DEF paths, X, kept
  <2> QED BY ONLY <2>3, SeqIsSeq
<1>3. StepsFit(extract)
  <2>1. ASSUME NEW i \in DOMAIN kept
        PROVE  StepFits(extract[i])
    <3>1. extract[i] = Tool(paths[i], "member", <<>>, Command(argv(i), 0, 0))
      OBVIOUS
    <3>2. Short(argv(i), 5)
      BY ONLY Short5
    <3>3. Fits(Command(argv(i), 0, 0))
      <4>1. 5 \in 0 .. LINK_FIXED_ARGS
        BY DEF LINK_FIXED_ARGS
      <4> HIDE DEF argv
      <4> QED BY ONLY <3>2, <4>1, PlainFits
    <3> HIDE DEF extract, argv, paths
    <3> QED BY ONLY <3>1, <3>3, StepOps
  <2>2. extract = [i \in DOMAIN kept |-> extract[i]]
    OBVIOUS
  <2> HIDE DEF extract, kept
  <2> QED BY ONLY <1>1, <2>1, <2>2, EachFits
<1>4. IsSeq(objects)
  <2>1. IsSeq(<<object, StubPath>>)
    BY IsSeqShort
  <2> HIDE DEF paths
  <2> QED BY ONLY <1>2, <2>1, IsSeqConcat
<1>5. StepsFit(Archive(objects)) /\ StepsFit(Archive(<<joined>>))
  <2>1. IsSeq(<<joined>>)
    <3> HIDE DEF joined
    <3> QED BY ONLY IsSeqShort
  <2> HIDE DEF objects, joined
  <2> QED BY ONLY <1>4, <2>1, ArchiveStepsFit
<1>6. StepsFit(<<x>>)
  <2> DEFINE in == Inputs(object, joined, <<>>)
  <2>1. x = Tool(joined, "joined", objects, relocatable_command(o.target, in, joined, objects))
    OBVIOUS
  <2>2. Fits(relocatable_command(o.target, in, joined, objects))
    <3> HIDE DEF in, joined, objects
    <3> QED BY ONLY <1>4, RelocatableFits
  <2> HIDE DEF x, in, joined, objects
  <2>3. StepFits(x)
    BY ONLY <2>1, <2>2, StepOps
  <2> QED BY ONLY <2>3, FitShort
<1>7. bundle(object, listing) = IF target_info[o.target].format = "COFF"
        THEN extract \o Archive(objects)
        ELSE extract \o link_facts \o <<x>> \o Archive(<<joined>>)
  BY DEF bundle
<1> HIDE DEF extract, objects, x, joined
<1>8. StepsFit(extract \o Archive(objects))
  BY ONLY <1>3, <1>5, FitConcat
<1>9. StepsFit(extract \o link_facts)
  BY ONLY <1>3, LinkFactsFit, FitConcat
<1>10. StepsFit((extract \o link_facts) \o <<x>>)
  BY ONLY <1>6, <1>9, FitConcat
<1>11. StepsFit(((extract \o link_facts) \o <<x>>) \o Archive(<<joined>>))
  BY ONLY <1>5, <1>10, FitConcat
<1> QED BY ONLY <1>7, <1>8, <1>11

LEMMA SharedLibraryFits ==
    ASSUME IsSeq(o.objects), NEW object
    PROVE  StepsFit(SharedLibrary(object))
<1> DEFINE major     == On("--soname")
           linux     == target_info[o.target].os = "linux" /\ major
           def       == Plus(unit.base, <<".def">>)
           versioned == IF linux THEN Plus(LibraryPath, <<".1">>) ELSE LibraryPath
           w == IF target_info[o.target].os = "windows"
                THEN <<Write(def, [kind |-> "def", version |-> unit.asm.version])>>
                ELSE <<>>
           in == Inputs(object, versioned, o.objects)
           x == Tool(versioned, "shared", <<object>> \o o.objects,
                     link_shared_command(o.target, in, major))
           ln == <<"ln", "-sf", versioned, LibraryPath>>
           y == Tool(LibraryPath, "symlink", <<versioned>>, Command(ln, 0, 0))
           l == IF linux THEN <<y>> ELSE <<>>
<1>1. StepsFit(w)
  BY FitShort, StepOps DEF ContentFits
<1>2. StepsFit(<<x>>)
  <2>1. IsSeq(in.extra)
    BY DEF Inputs
  <2>2. Fits(link_shared_command(o.target, in, major))
    <3> HIDE DEF in, major
    <3> QED BY ONLY <2>1, LinkSharedFits
  <2>3. x = Tool(versioned, "shared", <<object>> \o o.objects, link_shared_command(o.target, in, major))
    OBVIOUS
  <2> HIDE DEF x, in, major
  <2>4. StepFits(x)
    BY ONLY <2>2, <2>3, StepOps
  <2> QED BY ONLY <2>4, FitShort
<1>3. StepsFit(l)
  <2>1. Short(ln, 4)
    <3> HIDE DEF versioned
    <3> QED BY ONLY Short4
  <2>2. 4 \in 0 .. LINK_FIXED_ARGS
    BY DEF LINK_FIXED_ARGS
  <2>3. Fits(Command(ln, 0, 0))
    <3> HIDE DEF ln
    <3> QED BY ONLY <2>1, <2>2, PlainFits
  <2>4. y = Tool(LibraryPath, "symlink", <<versioned>>, Command(ln, 0, 0))
    OBVIOUS
  <2> HIDE DEF y, ln, linux
  <2>6. StepFits(y)
    BY ONLY <2>3, <2>4, StepOps
  <2>5. StepsFit(<<y>>)
    BY ONLY <2>6, FitShort
  <2> QED BY ONLY <2>5, FitShort
<1>4. SharedLibrary(object) = IF major /\ ~Has(o, "--package-version") THEN <<Fail>>
                              ELSE w \o link_facts \o <<x>> \o l
  BY DEF SharedLibrary
<1>5. StepsFit(<<Fail>>)
  BY FitShort, StepOps
<1> HIDE DEF major, w, x, l
<1>6. StepsFit(w \o link_facts)
  BY ONLY <1>1, LinkFactsFit, FitConcat
<1>7. StepsFit((w \o link_facts) \o <<x>>)
  BY ONLY <1>2, <1>6, FitConcat
<1>8. StepsFit(((w \o link_facts) \o <<x>>) \o l)
  BY ONLY <1>3, <1>7, FitConcat
<1> QED BY ONLY <1>4, <1>5, <1>8

LEMMA CLibraryFits ==
    ASSUME IsSeq(o.objects), NEW object
    PROVE  StepsFit(build_c_library(object))
<1> DEFINE w == <<Write(Plus(unit.base, <<".h">>), Header)>>
           b == IF On("--bundle-runtime") THEN <<Listing>> ELSE Archive(<<object>>)
           rest == IF o.lib = "static" THEN assemble_package \o b
                   ELSE SharedLibrary(object)
<1>1. StepsFit(w)
  BY FitShort, StepOps DEF ContentFits, Header
<1>2. StepsFit(b)
  <2>1. StepsFit(<<Listing>>)
    BY FitShort, StepOps
  <2>2. IsSeq(<<object>>)
    BY IsSeqShort
  <2>3. StepsFit(Archive(<<object>>))
    BY ONLY <2>2, ArchiveStepsFit
  <2> QED BY ONLY <2>1, <2>3
<1>3. StepsFit(assemble_package)
  BY FitShort, StepOps, AssembleFits DEF assemble_package, ContentFits
<1>4. StepsFit(SharedLibrary(object))
  BY SharedLibraryFits
<1>5. build_c_library(object) = w \o rest
  BY DEF build_c_library
<1>6. StepsFit(rest)
  <2> HIDE DEF b
  <2>1. StepsFit(assemble_package \o b)
    BY ONLY <1>2, <1>3, FitConcat
  <2> QED BY ONLY <1>4, <2>1
<1> HIDE DEF w, rest
<1> QED BY ONLY <1>1, <1>5, <1>6, FitConcat

\* The steps of every command.
LEMMA StepsAreFit == IsSeq(o.objects) /\ UnitFits(unit) => StepsFit(Steps)
<1> SUFFICES ASSUME IsSeq(o.objects), UnitFits(unit) PROVE StepsFit(Steps)
  OBVIOUS
<1> DEFINE asm == Plus(unit.base, <<".s">>)
           exe == IF Has(o, "-o") THEN unit.base
                  ELSE Plus(unit.base, target_info[o.target].executable_suffix)
           antl == IF Has(o, "-o") THEN o.slot["-o"].path
                   ELSE Plus(Stem(o.input), <<".antl">>)
           object_only == unit.status = 3
           head == <<Write(asm, unit.asm), assemble(asm, ObjectPath)>>
           rest == IF object_only THEN <<>>
                   ELSE IF o.lib # "none" THEN build_c_library(ObjectPath)
                   ELSE link_program(ObjectPath, exe)
           s == IF Has(o, "-o") THEN unit.base ELSE asm
<1>1. StepsFit(head)
  BY FitShort, StepOps, AssembleFits DEF UnitFits
<1>2. StepsFit(rest)
  BY FitShort, CLibraryFits, LinkProgramFits
<1>3. /\ StepsFit(<<Fail>>) /\ StepsFit(<<Write(antl, unit.antl)>>) /\ StepsFit(<<>>)
      /\ StepsFit(<<Write(s, unit.asm)>>)
  BY FitShort, StepOps DEF UnitFits
<1>4. Steps = IF unit.status = 1 THEN <<Fail>>
        ELSE IF unit.status = 2
        THEN IF unit.antl # Partial THEN <<Write(antl, unit.antl)>> ELSE <<>>
        ELSE IF /\ On("--dev") /\ ~object_only /\ ~On("-S")
                /\ (o.runtime = <<>> \/ ~can_link(o))
        THEN <<Fail>>
        ELSE IF On("-S")
        THEN <<Write(s, unit.asm)>>
        ELSE head \o rest
  BY DEF Steps
<1> HIDE DEF head, rest, antl, s, object_only
<1>5. StepsFit(head \o rest)
  BY ONLY <1>1, <1>2, FitConcat
<1> QED BY ONLY <1>3, <1>4, <1>5

LEMMA NextStepsAreFit == IsSeq(o'.objects) /\ UnitFits(unit') => StepsFit(Steps')
<1>1. (IsSeq(o.objects) /\ UnitFits(unit) => StepsFit(Steps))'
  BY StepsAreFit, PTL
<1> QED BY <1>1 DEF IsSeq, StepsFit, StepFits, UnitFits, ContentFits, ToSet, Fits

-----------------------------------------------------------------------------
(* What compile leaves: the libraries that it found.                       *)

\* The module of a library file is known, and the imports of a source.
Legible(c) ==
    /\ c.kind \in {"source", "antl"} => c.imports \in Seq(Modules)
    /\ c.kind = "antl" => c.module \in Modules

FilesFit(f) == IsFiniteSet(DOMAIN f) /\ \A p \in DOMAIN f : Legible(f[p])

LEMMA FitIsOK ==
    ASSUME NEW f, FilesFit(f)
    PROVE  FilesOK(f)
BY DEF FilesFit, FilesOK, Legible

LEMMA PutFits ==
    ASSUME NEW f, FilesFit(f), NEW p, NEW c, Legible(c)
    PROVE  FilesFit(Put(f, p, c)) /\ FilesFit(Without(f, p))
<1>1. DOMAIN Put(f, p, c) = DOMAIN f \cup {p} /\ DOMAIN Without(f, p) = DOMAIN f \ {p}
  BY DEF Put, Without
<1>2. IsFiniteSet(DOMAIN f \cup {p}) /\ IsFiniteSet(DOMAIN f \ {p})
  BY FS_AddElement, FS_RemoveElement DEF FilesFit
<1>3. \A q \in DOMAIN f \cup {p} : Put(f, p, c)[q] = c \/ (q \in DOMAIN f /\ Put(f, p, c)[q] = f[q])
  BY DEF Put
<1>4. \A q \in DOMAIN f \ {p} : Without(f, p)[q] = f[q]
  BY DEF Without
<1> QED BY <1>1, <1>2, <1>3, <1>4 DEF FilesFit

\* A module path has a segment.
LEMMA ModuleTyped ==
    ASSUME NEW source \in Paths, NEW roots \in Seq(Seq(STRING))
    PROVE  module_path_of_source(source, roots).module \in Modules
<1> DEFINE held == {i \in DOMAIN roots : under(source, roots[i]) # <<>>}
           rest == IF held # {} THEN under(source, roots[Min(held)]) ELSE <<source.name>>
<1>1. module_path_of_source(source, roots).module = rest
  BY DEF module_path_of_source
<1>2. source.dir \in Seq(STRING) /\ source.name \in STRING
  BY DEF Paths
<1>3. <<source.name>> \in Modules
  BY <1>2 DEF Modules
<1>4. ASSUME held # {} PROVE under(source, roots[Min(held)]) \in Modules
  <2>1. held \in SUBSET Nat
    <3>1. DOMAIN roots = 1 .. Len(roots) /\ Len(roots) \in Nat
      BY LenProperties
    <3> QED BY <3>1
  <2>2. Min(held) \in held
    <3> HIDE DEF held
    <3>1. PICK i \in held : \A k \in held : i <= k
      BY ONLY <1>4, <2>1, LeastNat
    <3> QED BY ONLY <3>1 DEF Min
  <2> DEFINE r == roots[Min(held)]
  <2>3. r \in Seq(STRING) /\ under(source, r) # <<>>
    <3>1. Min(held) \in DOMAIN roots /\ under(source, r) # <<>>
      BY <2>2
    <3> HIDE DEF held
    <3> QED BY ONLY <3>1, roots \in Seq(Seq(STRING)), ElementOfSeq, LenProperties
  <2> HIDE DEF r
  <2>4. under(source, r) = SubSeq(source.dir, Len(r) + 1, Len(source.dir)) \o <<source.name>>
    BY <2>3 DEF under
  <2>5. SubSeq(source.dir, Len(r) + 1, Len(source.dir)) \in Seq(STRING)
    <3>1. Len(r) \in Nat /\ Len(source.dir) \in Nat
      BY <1>2, <2>3, LenProperties
    <3> QED BY ONLY <1>2, <3>1, SubSeqProperties
  <2>6. under(source, r) \in Seq(STRING)
    BY ONLY <1>2, <2>4, <2>5, ConcatProperties, <<source.name>> \in Seq(STRING)
  <2> QED BY <2>3, <2>6 DEF r, Modules
<1> HIDE DEF held
<1> QED BY <1>1, <1>3, <1>4

\* The fields of what compile leaves.
Fields == {"status", "module", "found", "load", "base", "notice", "asm", "antl", "package"}

LEMMA NoUnitFits == DOMAIN NoUnit = Fields /\ UnitFits(NoUnit) /\ ~NoUnit.found.ok
BY DEF NoUnit, Fields, UnitFits, ContentFits, Partial

\* Making the assembly keeps what is known of the libraries.
LEMMA BackEndKeeps ==
    ASSUME NEW opts, NEW src, NEW u, DOMAIN u = Fields, UnitFits(u)
    PROVE  LET b == back_end(opts, src, u) IN
           /\ DOMAIN b = Fields /\ UnitFits(b)
           /\ b.found = u.found /\ b.load = u.load /\ b.module = u.module
<1> DEFINE b == back_end(opts, src, u)
<1>1. \E s, a : b = [u EXCEPT !.status = s, !.asm = a] /\ (a = u.asm \/ a.kind = "asm")
  <2> DEFINE dump == opts.flags \cap {"--dump-select", "--dump-alloc"} # {}
             dev  == "--dev" \in opts.flags
             s    == IF \/ src.error = "lower"
                        \/ ~dump /\ "-S" \notin opts.flags /\ ~dev
                           /\ opts.lib = "none" /\ ~src.main
                        \/ src.error = "select"
                     THEN 1
                     ELSE IF dump THEN 2
                     ELSE IF dev /\ ~src.main THEN 3 ELSE 0
             y    == Assembly(opts, src.version, u,
                              s # 3 /\ "-S" \notin opts.flags /\ opts.lib # "static")
             a    == IF s \in {0, 3} THEN y ELSE u.asm
  <2>1. b = [u EXCEPT !.status = s, !.asm = a]
    BY DEF back_end, Fields
  <2>2. y.kind = "asm"
    BY DEF Assembly
  <2> HIDE DEF s, y
  <2> QED BY <2>1, <2>2
<1>2. PICK s, a : b = [u EXCEPT !.status = s, !.asm = a] /\ (a = u.asm \/ a.kind = "asm")
  BY <1>1
<1> HIDE DEF b
<1>3. /\ DOMAIN b = Fields /\ b.found = u.found /\ b.load = u.load /\ b.module = u.module
      /\ b.asm = a /\ b.antl = u.antl
  BY <1>2 DEF Fields
<1>4. UnitFits(b)
  BY <1>2, <1>3 DEF UnitFits, ContentFits
<1> QED BY <1>3, <1>4 DEF b

LEMMA BackEndStatus ==
    ASSUME NEW opts, NEW src, NEW u, DOMAIN u = Fields
    PROVE  back_end(opts, src, u).status \in {0, 1, 2, 3}
<1> DEFINE b == back_end(opts, src, u)
<1>1. \E s \in {0, 1, 2, 3} : \E a : b = [u EXCEPT !.status = s, !.asm = a]
  BY DEF back_end
<1>2. PICK s \in {0, 1, 2, 3} : \E a : b = [u EXCEPT !.status = s, !.asm = a]
  BY <1>1
<1> HIDE DEF b
<1>3. b.status = s
  BY <1>2 DEF Fields
<1> QED BY <1>3 DEF b

LEMMA CheckedKeeps ==
    ASSUME NEW opts, NEW src, src.imports \in Seq(Modules), NEW u, DOMAIN u = Fields,
           UnitFits(u), u.module \in Modules
    PROVE  LET b == Checked(opts, src, u) IN
           /\ DOMAIN b = Fields /\ UnitFits(b)
           /\ b.found = u.found /\ b.load = u.load /\ b.module = u.module
<1> DEFINE own  == own_interface(opts, u.module)
           n    == notice_text(build_notice(RuntimePackage, own, Packages(u)))
           full == [u EXCEPT !.notice = n]
           with == [full EXCEPT !.package = own]
           t    == [u EXCEPT !.status = 2]
           antl == [kind |-> "antl", header |-> TRUE, body |-> TRUE,
                    module |-> u.module, imports |-> src.imports,
                    package |-> own, version |-> src.version,
                    main |-> src.main, error |-> ""]
           c    == [u EXCEPT !.status = 2, !.antl = antl]
           d    == [u EXCEPT !.status = IF src.error = "lower" THEN 1 ELSE 2]
           Good(b) == /\ DOMAIN b = Fields /\ UnitFits(b)
                      /\ b.found = u.found /\ b.load = u.load /\ b.module = u.module
<1>1. Checked(opts, src, u) \in {t, u, c, d, back_end(opts, src, with), back_end(opts, src, u)}
  <2> HIDE DEF own
  <2> QED BY DEF Checked, own
<1>2. Good(u)
  OBVIOUS
<1>3. Good(t) /\ Good(d)
  <2> DEFINE s == IF src.error = "lower" THEN 1 ELSE 2
  <2> HIDE DEF s
  <2> QED BY DEF UnitFits, Fields, s
<1>4. Good(c)
  <2>1. ContentFits(antl)
    BY DEF ContentFits
  <2> HIDE DEF antl
  <2>2. DOMAIN c = Fields /\ c.found = u.found /\ c.load = u.load /\ c.module = u.module
        /\ c.antl = antl /\ c.asm = u.asm
    BY DEF Fields
  <2> QED BY <2>1, <2>2 DEF UnitFits
<1>5. Good(with)
  <2> HIDE DEF n, own
  <2> QED BY DEF UnitFits, Fields
<1>6. Good(back_end(opts, src, with)) /\ Good(back_end(opts, src, u))
  <2> HIDE DEF with
  <2> QED BY <1>5, BackEndKeeps
<1> HIDE DEF t, c, d, with, Good
<1>7. Good(Checked(opts, src, u))
  BY <1>1, <1>2, <1>3, <1>4, <1>6
<1> QED BY <1>7 DEF Good

\* What LibrariesResolved says of the files f.
ResolvedIn(opts, u, f) ==
    LET found == u.found.out
        paths == ToSet(found)
        order == [k \in DOMAIN u.load.order |-> found[u.load.order[k]]]
    IN  u.found.ok =>
        /\ \A p \in paths : \A m \in ToSet(f[p].imports) :
                \/ \E q \in paths : f[q].module = m
                \/ search_roots(opts, f, m) = <<>>
                \/ ToSet(search_roots(opts, f, m)) \subseteq paths
        /\ u.load.ok <=>
            /\ Distinct(f, found)
            /\ \A p \in paths :
                (ends_with(opts.input.suffix, ".anti") => f[p].module # u.module)
                /\ Sound(f, paths, p)
        /\ u.load.ok =>
            /\ Len(order) = Len(found) /\ ToSet(order) = paths
            /\ \A k \in DOMAIN order : \A m \in ToSet(f[order[k]].imports) :
                    \E n \in 1 .. (k - 1) : f[order[n]].module = m

\* The search and the load of the compiled module, or of no module when the
\* input is a library file, resolve the libraries.
LEMMA LoadResolves ==
    ASSUME NEW opts, NEW f, FilesFit(f), NEW with, NEW R, with.roots \in Seq(R),
           NEW Q, with.libraries \in Seq(Q), NEW imports \in Seq(Modules),
           with.roots = opts.roots, with.runtime = opts.runtime,
           NEW module, NEW u, u.found = find_libraries(with, f, imports),
           u.load = load_libraries(f, u.found.out, module),
           \/ module = u.module /\ ends_with(opts.input.suffix, ".anti")
           \/ module = <<>> /\ ~ends_with(opts.input.suffix, ".anti")
    PROVE  ResolvedIn(opts, u, f)
<1> DEFINE found == u.found.out
           paths == ToSet(found)
           load == u.load
           order == [k \in DOMAIN load.order |-> found[load.order[k]]]
<1>1. /\ found \in Seq(Q \cup DOMAIN f)
      /\ u.found.ok =>
           /\ \A p \in paths : p \in DOMAIN f /\ f[p].kind = "antl"
           /\ \A p \in paths : \A m \in ToSet(f[p].imports) :
                 \/ \E q \in paths : f[q].module = m
                 \/ search_roots(with, f, m) = <<>>
                 \/ ToSet(search_roots(with, f, m)) \subseteq paths
  <2>1. FilesOK(f)
    BY FitIsOK
  <2>2. PICK r : r = find_libraries(with, f, imports)
    OBVIOUS
  <2>3. /\ r.out \in Seq(Q \cup DOMAIN f)
        /\ r.ok =>
             /\ \A p \in ToSet(r.out) : p \in DOMAIN f /\ f[p].kind = "antl"
             /\ \A p \in ToSet(r.out) : \A m \in ToSet(f[p].imports) :
                   \/ \E q \in ToSet(r.out) : f[q].module = m
                   \/ search_roots(with, f, m) = <<>>
                   \/ ToSet(search_roots(with, f, m)) \subseteq ToSet(r.out)
    BY ONLY <2>1, <2>2, with.roots \in Seq(R), with.libraries \in Seq(Q),
            imports \in Seq(Modules), FindIs
  <2>4. u.found = r
    BY <2>2
  <2> QED BY ONLY <2>3, <2>4
<1>2. \A m : search_roots(with, f, m) = search_roots(opts, f, m)
  BY DEF search_roots
<1>3. /\ load.ok \in BOOLEAN
      /\ load.ok <=> /\ Distinct(f, found)
                     /\ \A p \in paths : f[p].module # module /\ Sound(f, paths, p)
      /\ load.order \in Seq(1 .. Len(found))
      /\ load.ok => /\ Len(load.order) = Len(found) /\ OrderOK(f, found, load.order)
                    /\ \A i \in 1 .. Len(found) : \E k \in DOMAIN load.order : load.order[k] = i
  <2>1. load = load_libraries(f, found, module)
    OBVIOUS
  <2>2. found \in Seq(Q \cup DOMAIN f)
    BY <1>1
  <2> HIDE DEF found, load
  <2> QED BY ONLY <2>1, <2>2, LoadIs
<1>4. SUFFICES ASSUME u.found.ok
      PROVE  /\ load.ok <=>
                  /\ Distinct(f, found)
                  /\ \A p \in paths :
                        (ends_with(opts.input.suffix, ".anti") => f[p].module # u.module)
                        /\ Sound(f, paths, p)
             /\ load.ok =>
                  /\ Len(order) = Len(found) /\ ToSet(order) = paths
                  /\ \A k \in DOMAIN order : \A m \in ToSet(f[order[k]].imports) :
                        \E n \in 1 .. (k - 1) : f[order[n]].module = m
  <2> HIDE DEF order
  <2> QED BY <1>1, <1>2 DEF ResolvedIn, order
<1>5. \A p \in paths : f[p].module # module <=>
           (ends_with(opts.input.suffix, ".anti") => f[p].module # u.module)
  <2>1. \A p \in paths : f[p].module # <<>>
    BY <1>1, <1>4 DEF FilesFit, Legible, Modules
  <2> HIDE DEF paths
  <2> QED BY <2>1
<1>6. ASSUME load.ok
      PROVE  /\ Len(order) = Len(found) /\ ToSet(order) = paths
             /\ \A k \in DOMAIN order : \A m \in ToSet(f[order[k]].imports) :
                   \E n \in 1 .. (k - 1) : f[order[n]].module = m
  <2>1. /\ Len(load.order) = Len(found) /\ OrderOK(f, found, load.order)
        /\ \A i \in 1 .. Len(found) : \E k \in DOMAIN load.order : load.order[k] = i
    BY <1>3, <1>6
  <2>2. /\ DOMAIN load.order = 1 .. Len(load.order) /\ Len(load.order) \in Nat
        /\ \A k \in 1 .. Len(load.order) : load.order[k] \in 1 .. Len(found)
    BY ONLY <1>3, LenProperties, ElementOfSeq
  <2>3. DOMAIN found = 1 .. Len(found) /\ paths = {found[i] : i \in 1 .. Len(found)}
    BY <1>1, LenProperties, ToSetFinite
  <2> DEFINE l == load.order
             N == Len(found)
  <2>4. DOMAIN order = 1 .. N /\ DOMAIN l = 1 .. N /\ \A k \in 1 .. N : order[k] = found[l[k]] /\ l[k] \in 1 .. N
    BY <2>1, <2>2
  <2> HIDE DEF l, N
  <2>5. Len(order) = N
    BY ONLY <2>1, <2>2, <2>4 DEF N
  <2>6. ToSet(order) = paths
    <3> HIDE DEF order, paths, found
    <3>1. \A i \in 1 .. N : \E k \in 1 .. N : l[k] = i
      BY ONLY <2>1, <2>4 DEF l, N
    <3>2. ToSet(order) = {order[k] : k \in 1 .. N}
      BY ONLY <2>4 DEF ToSet
    <3> QED BY ONLY <2>3, <2>4, <3>1, <3>2 DEF N
  <2>7. \A k \in 1 .. N : \A m \in ToSet(f[found[l[k]]].imports) :
            \E n \in 1 .. k - 1 : f[found[l[n]]].module = m
    BY <2>1, <2>4 DEF OrderOK, l
  <2>8. \A k \in 1 .. N : \A n \in 1 .. k - 1 : n \in 1 .. N
    BY <2>1, <2>2 DEF N
  <2>9. \A k \in DOMAIN order : \A m \in ToSet(f[order[k]].imports) :
            \E n \in 1 .. (k - 1) : f[order[n]].module = m
    <3> HIDE DEF order
    <3> TAKE k \in DOMAIN order
    <3> TAKE m \in ToSet(f[order[k]].imports)
    <3>1. k \in 1 .. N /\ order[k] = found[l[k]]
      BY <2>4
    <3>2. PICK n \in 1 .. k - 1 : f[found[l[n]]].module = m
      BY <2>7, <3>1
    <3>3. order[n] = found[l[n]]
      BY <2>4, <2>8, <3>1
    <3> QED BY <3>2, <3>3
  <2> QED BY <2>5, <2>6, <2>9 DEF N
<1> HIDE DEF order, paths, found
<1> QED BY <1>3, <1>5, <1>6 DEF paths, found

\* Where a build puts its files.
IsPath(p) == p = Path(p.dir, p.name, p.suffix) /\ IsSeq(p.dir) /\ IsSeq(p.suffix)

LEMMA PathsArePaths == \A p \in Paths : IsPath(p)
<1> TAKE p \in Paths
<1>1. p = Path(p.dir, p.name, p.suffix) /\ p.dir \in Seq(STRING) /\ p.suffix \in Seq(STRING)
  BY DEF Paths, Path
<1> QED BY <1>1, SeqIsSeq DEF IsPath

LEMMA SlotPath ==
    ASSUME NEW opts \in Options, Has(opts, "-o")
    PROVE  opts.slot["-o"].path \in Paths /\ IsPath(opts.slot["-o"].path)
<1>1. opts.slot["-o"].path \in Paths
  BY DEF Options, Has, Argument
<1> QED BY <1>1, PathsArePaths

LEMMA StemIs ==
    ASSUME NEW p \in Paths
    PROVE  IsPath(Stem(p))
<1>1. p.dir \in Seq(STRING) /\ p.suffix \in Seq(STRING) /\ DOMAIN p = {"dir", "name", "suffix"}
  BY DEF Paths
<1>2. Front(p.suffix) \in Seq(STRING)
  <2>1. Len(p.suffix) \in Nat
    BY <1>1, LenProperties
  <2>2. SubSeq(p.suffix, 1, Len(p.suffix) - 1) \in Seq(STRING)
    BY ONLY <1>1, <2>1, SubSeqProperties
  <2> QED BY <2>2 DEF Front
<1>3. Stem(p) = Path(p.dir, p.name, Front(p.suffix))
  BY DEF Stem, Path, Paths
<1>4. IsSeq(p.dir) /\ IsSeq(Front(p.suffix))
  BY ONLY <1>1, <1>2, SeqIsSeq
<1> QED BY <1>3, <1>4 DEF IsPath, Path

LEMMA BaseIs ==
    ASSUME NEW opts \in Options, opts.input \in Paths, NEW m
    PROVE  IsPath(base_name(opts, m))
<1>1. CASE opts.lib # "none" /\ "-S" \notin opts.flags
  <2> DEFINE d == (IF Has(opts, "-o") THEN opts.slot["-o"].path ELSE opts.input).dir
             n == library_name(opts, m)
  <2>1. base_name(opts, m) = Path(d, n, <<>>)
    BY <1>1 DEF base_name
  <2>2. IsSeq(d)
    BY SlotPath, PathsArePaths DEF IsPath
  <2> HIDE DEF d, n
  <2> QED BY <2>1, <2>2, IsSeqShort DEF IsPath, Path
<1>2. CASE ~(opts.lib # "none" /\ "-S" \notin opts.flags)
  BY <1>2, SlotPath, StemIs DEF base_name
<1> QED BY <1>1, <1>2

\* A unit that is to be assembled says where.
Placed(u) == u.status \in {1, 2} \/ IsPath(u.base)

\* The unit of a source file.
LEMMA CompileResolves ==
    ASSUME NEW opts \in Options, opts.input \in Paths, FilesFit(files),
           ends_with(opts.input.suffix, ".anti")
    PROVE  /\ UnitFits(compile(opts)) /\ ResolvedIn(opts, compile(opts), files)
           /\ Placed(compile(opts))
<1> DEFINE src  == files[opts.input]
           name == module_name(opts)
           find == find_libraries(opts, files, src.imports)
           load == load_libraries(files, find.out, name.module)
           u    == [NoUnit EXCEPT !.module = name.module, !.found = find]
           v    == [u EXCEPT !.load = load]
           w    == Checked(opts, src, v)
           x    == [w EXCEPT !.base = base_name(opts, name.module)]
           two  == [NoUnit EXCEPT !.status = 2]
           here == opts.input \in DOMAIN files /\ files[opts.input].kind = "source"
           r    == compile(opts)
<1>1. \/ r \in {NoUnit, two}
      \/ r = u /\ ~find.ok
      \/ here /\ r \in {v, x}
  <2> HIDE DEF find, load, name, w
  <2> QED BY DEF compile, find, load, name, w
<1>2. NoUnit.found.ok = FALSE /\ DOMAIN NoUnit = Fields /\ UnitFits(NoUnit)
  BY NoUnitFits
<1>3. two.found = NoUnit.found /\ UnitFits(two)
  <2> HIDE DEF NoUnit
  <2>1. two.found = NoUnit.found /\ two.asm = NoUnit.asm /\ two.antl = NoUnit.antl
    BY <1>2 DEF Fields
  <2> QED BY <1>2, <2>1 DEF UnitFits
<1>4. /\ DOMAIN u = Fields /\ DOMAIN v = Fields /\ UnitFits(u) /\ UnitFits(v)
      /\ u.found = find /\ v.found = find /\ v.load = load /\ v.module = name.module
  <2> HIDE DEF find, load, name
  <2>1. /\ DOMAIN u = Fields /\ DOMAIN v = Fields
        /\ u.found = find /\ v.found = find /\ v.load = load /\ v.module = name.module
        /\ u.asm = NoUnit.asm /\ u.antl = NoUnit.antl /\ v.asm = NoUnit.asm /\ v.antl = NoUnit.antl
    <3> HIDE DEF NoUnit
    <3> QED BY <1>2 DEF Fields
  <2> HIDE DEF u, v
  <2> QED BY <1>2, <2>1 DEF UnitFits
<1>5. name.module \in Modules
  <2>1. opts.roots \in Seq(Seq(STRING))
    BY DEF Options
  <2>2. module_path_of_source(opts.input, opts.roots).module \in Modules
    BY ONLY <2>1, opts.input \in Paths, ModuleTyped
  <2>3. name.module = module_path_of_source(opts.input, opts.roots).module
    BY DEF module_name, module_path_of_source
  <2> QED BY <2>2, <2>3
<1>6. here => src.imports \in Seq(Modules)
  BY DEF FilesFit, Legible
<1>7. here => /\ DOMAIN w = Fields /\ UnitFits(w)
              /\ w.found = find /\ w.load = load /\ w.module = name.module
  <2> HIDE DEF u, v, src, here, find, load, name
  <2> QED BY <1>4, <1>5, <1>6, CheckedKeeps
<1>8. here => /\ UnitFits(x)
              /\ x.found = find /\ x.load = load /\ x.module = name.module
  <2> HIDE DEF w, find, load, name, here
  <2>1. here => /\ x.found = w.found /\ x.load = w.load /\ x.module = w.module
                /\ x.asm = w.asm /\ x.antl = w.antl
    BY <1>7 DEF Fields
  <2> HIDE DEF x
  <2> QED BY <1>7, <2>1 DEF UnitFits
<1>9. \A y : ~y.found.ok => ResolvedIn(opts, y, files)
  BY DEF ResolvedIn
<1>10. opts.roots \in Seq(Seq(STRING)) /\ opts.libraries \in Seq(Paths)
  BY DEF Options
<1>11. ASSUME here, NEW y \in {v, x} PROVE ResolvedIn(opts, y, files)
  <2>1. /\ y.found = find_libraries(opts, files, src.imports)
        /\ y.load = load_libraries(files, y.found.out, y.module)
    <3>1. y.found = find /\ y.load = load /\ y.module = name.module
      BY <1>4, <1>8, <1>11
    <3> HIDE DEF u, v, x, name, src
    <3> QED BY <3>1
  <2>2. src.imports \in Seq(Modules)
    BY <1>6, <1>11
  <2> DEFINE m == y.module
  <2>3. m = y.module /\ y.load = load_libraries(files, y.found.out, m)
    BY <2>1
  <2> HIDE DEF u, v, x, src, m
  <2> QED BY ONLY <1>10, <2>1, <2>2, <2>3, FilesFit(files), ends_with(opts.input.suffix, ".anti"),
                  LoadResolves
<1>12. Placed(NoUnit) /\ Placed(two) /\ Placed(u) /\ Placed(v)
  <2>1. NoUnit.status = 1
    BY DEF NoUnit
  <2> HIDE DEF NoUnit, find, load, name
  <2>2. two.status = 2 /\ u.status = 1 /\ v.status = 1
    BY <1>2, <2>1 DEF Fields
  <2> HIDE DEF two, u, v
  <2> QED BY <2>1, <2>2 DEF Placed
<1>13. here => Placed(x)
  <2> DEFINE base == base_name(opts, name.module)
  <2>1. IsPath(base)
    BY BaseIs
  <2> HIDE DEF base, w, here
  <2>2. here => x.base = base
    BY <1>7 DEF Fields, base
  <2> HIDE DEF x
  <2> QED BY <2>1, <2>2 DEF Placed
<1> HIDE DEF u, v, x, here, two, find, r
<1> QED BY <1>12, <1>13, <1>1, <1>2, <1>3, <1>4, <1>8, <1>9, <1>11 DEF r

\* The unit of a library file.
LEMMA LibraryFileResolves ==
    ASSUME NEW opts \in Options, opts.input \in Paths, FilesFit(files),
           ~ends_with(opts.input.suffix, ".anti")
    PROVE  /\ UnitFits(compile_library_file(opts))
           /\ ResolvedIn(opts, compile_library_file(opts), files)
           /\ Placed(compile_library_file(opts))
<1> DEFINE with == [opts EXCEPT !.libraries = <<opts.input>> \o @]
           find == find_libraries(with, files, <<>>)
           load == load_libraries(files, find.out, <<>>)
           u    == [NoUnit EXCEPT !.found = find]
           v    == [u EXCEPT !.load = load]
           m    == files[opts.input].module
           w    == [u EXCEPT !.load = load, !.module = m]
           b    == back_end(opts, files[opts.input], w)
           base == IF Has(opts, "-o") THEN opts.slot["-o"].path ELSE Stem(opts.input)
           c    == [b EXCEPT !.status = 3, !.base = base]
           r    == compile_library_file(opts)
<1>1. \/ r = u /\ (~find.ok \/ opts.input \notin DOMAIN files)
      \/ r \in {v, c}
      \/ r = b /\ b.status \notin {0, 3}
  <2> HIDE DEF find, load, m
  <2> QED BY DEF compile_library_file, find, load, m
<1>2. NoUnit.found.ok = FALSE /\ DOMAIN NoUnit = Fields /\ UnitFits(NoUnit)
  BY NoUnitFits
<1>3. /\ DOMAIN u = Fields /\ DOMAIN v = Fields /\ DOMAIN w = Fields
      /\ UnitFits(u) /\ UnitFits(v) /\ UnitFits(w)
      /\ u.found = find /\ v.found = find /\ v.load = load /\ w.found = find /\ w.load = load
  <2> HIDE DEF find, load, m
  <2>1. /\ DOMAIN u = Fields /\ DOMAIN v = Fields /\ DOMAIN w = Fields
        /\ u.found = find /\ v.found = find /\ v.load = load /\ w.found = find /\ w.load = load
        /\ u.asm = NoUnit.asm /\ u.antl = NoUnit.antl /\ v.asm = NoUnit.asm /\ v.antl = NoUnit.antl
        /\ w.asm = NoUnit.asm /\ w.antl = NoUnit.antl
    <3> HIDE DEF NoUnit
    <3> QED BY <1>2 DEF Fields
  <2> HIDE DEF u, v, w
  <2> QED BY <1>2, <2>1 DEF UnitFits
<1>4. DOMAIN b = Fields /\ UnitFits(b) /\ b.found = find /\ b.load = load
  <2> HIDE DEF w, find, load
  <2> QED BY <1>3, BackEndKeeps
<1>5. UnitFits(c) /\ c.found = find /\ c.load = load
  <2> HIDE DEF b, base, find, load
  <2>1. c.found = b.found /\ c.load = b.load /\ c.asm = b.asm /\ c.antl = b.antl
    BY <1>4 DEF Fields
  <2> HIDE DEF c
  <2> QED BY <1>4, <2>1 DEF UnitFits
<1>6. /\ opts.roots \in Seq(Seq(STRING)) /\ opts.libraries \in Seq(Paths)
      /\ <<opts.input>> \o opts.libraries \in Seq(Paths) /\ <<>> \in Seq(Modules)
  <2>1. opts.roots \in Seq(Seq(STRING)) /\ opts.libraries \in Seq(Paths)
    BY DEF Options
  <2>2. <<opts.input>> \in Seq(Paths) /\ <<>> \in Seq(Modules)
    BY EmptySeq
  <2> QED BY ONLY <2>1, <2>2, ConcatFacts
<1>7. /\ with.roots = opts.roots /\ with.runtime = opts.runtime
      /\ with.libraries = <<opts.input>> \o opts.libraries
  BY DEF Options
<1>8. ASSUME NEW y, y.found = find, y.load = load PROVE ResolvedIn(opts, y, files)
  <2>1. y.found = find_libraries(with, files, <<>>)
        /\ y.load = load_libraries(files, y.found.out, <<>>)
    BY <1>8
  <2> HIDE DEF with, find, load
  <2> DEFINE i == <<>>
             e == <<>>
  <2>2. i = <<>> /\ i \in Seq(Modules) /\ e = <<>>
    BY ONLY <1>6
  <2>3. y.found = find_libraries(with, files, i) /\ y.load = load_libraries(files, y.found.out, e)
    BY <2>1
  <2>4. with.roots \in Seq(Seq(STRING)) /\ with.libraries \in Seq(Paths)
    BY ONLY <1>6, <1>7
  <2> HIDE DEF i, e
  <2> QED BY ONLY <1>7, <2>2, <2>3, <2>4, FilesFit(files),
                  ~ends_with(opts.input.suffix, ".anti"), LoadResolves
<1>9. opts.input \notin DOMAIN files => ~find.ok
  <2>1. PICK y : y = find
    OBVIOUS
  <2>2. with.roots \in Seq(Seq(STRING)) /\ with.libraries \in Seq(Paths) /\ FilesOK(files)
    BY <1>6, <1>7, FitIsOK
  <2>3. y = find_libraries(with, files, <<>>)
    BY <2>1
  <2> HIDE DEF with, find
  <2>4. /\ \A x : Contains(with.libraries, x) => Contains(y.out, x)
        /\ y.ok => \A p \in ToSet(y.out) : p \in DOMAIN files
    <3> DEFINE i == <<>>
    <3>1. y = find_libraries(with, files, i) /\ i \in Seq(Modules)
      BY <1>6, <2>3
    <3> HIDE DEF i
    <3> QED BY ONLY <2>2, <3>1, FindIs
  <2>5. Contains(with.libraries, opts.input)
    <3>1. opts.libraries \in Seq(Paths) /\ <<opts.input>> \in Seq(Paths)
      BY <1>6
    <3>2. with.libraries = <<opts.input>> \o opts.libraries
      BY <1>7
    <3>3. with.libraries[1] = opts.input /\ 1 \in DOMAIN with.libraries
      BY ONLY <3>1, <3>2
    <3> QED BY <3>3 DEF Contains
  <2>6. opts.input \in ToSet(y.out)
    BY <2>4, <2>5 DEF Contains, ToSet
  <2> QED BY <2>1, <2>4, <2>6
<1>10. r = u /\ (~find.ok \/ opts.input \notin DOMAIN files) => ResolvedIn(opts, r, files)
  <2> HIDE DEF find, u, r
  <2> QED BY <1>3, <1>9 DEF ResolvedIn
<1>11. Placed(u) /\ Placed(v)
  <2>1. NoUnit.status = 1
    BY DEF NoUnit
  <2> HIDE DEF NoUnit, find, load
  <2>2. u.status = 1 /\ v.status = 1
    BY <1>2, <2>1 DEF Fields
  <2> HIDE DEF u, v
  <2> QED BY <2>2 DEF Placed
<1>12. b.status \notin {0, 3} => Placed(b)
  <2> HIDE DEF w
  <2>1. b.status \in {0, 1, 2, 3}
    BY <1>3, BackEndStatus
  <2> HIDE DEF b
  <2> QED BY <2>1 DEF Placed
<1>13. Placed(c)
  <2>1. IsPath(base)
    BY SlotPath, StemIs
  <2> HIDE DEF b, base
  <2>2. c.base = base
    BY <1>4 DEF Fields
  <2> HIDE DEF c
  <2> QED BY <2>1, <2>2 DEF Placed
<1> HIDE DEF u, v, b, c, w, r, find, load
<1> QED BY <1>11, <1>12, <1>13, <1>1, <1>3, <1>4, <1>5, <1>8, <1>10 DEF r

-----------------------------------------------------------------------------
(* The commands one step after the other.                                  *)

Lines == STRING \cup {"sdk"}

Children == [st : {"none", "running", "exited"}, out : Seq(Lines), pipe : Seq(Lines),
             got : Seq(Lines), writer : {FALSE}, code : {0, 1}]

\* A child runs only for a step that starts one; a command that compile
\* refuses has nothing to do but to fail, and has written nothing.
BuildInv ==
    /\ o \in Options
    /\ StepsFit(todo)
    /\ child \in Children
    /\ child = NoChild \/ (status = Running /\ AtProcess /\ child.st # "none")
    /\ unit.status = 1 => files = before /\ (status = Running => todo = <<Fail>>)

LEMMA SeqWider ==
    ASSUME NEW X, NEW Y, X \subseteq Y, NEW s \in Seq(X)
    PROVE  s \in Seq(Y)
  OBVIOUS

LEMMA NoChildTyped == NoChild \in Children /\ NoChild.st = "none"
<1>1. <<>> \in Seq(Lines)
  BY EmptySeq
<1> QED BY <1>1 DEF NoChild, Children

LEMMA OptionsObjects == \A x \in Options : IsSeq(x.objects)
<1> TAKE x \in Options
<1>1. x.objects \in Seq(Paths)
  BY DEF Options
<1> QED BY <1>1, SeqIsSeq

LEMMA BuildInit == Init => BuildInv
<1> SUFFICES ASSUME Init PROVE BuildInv
  OBVIOUS
<1>1. NoOptions \in Options
  BY BuildAssumption, NoOptionsTyped DEF Turns
<1>2. StepsFit(<<>>)
  BY FitShort
<1>3. /\ o = NoOptions /\ todo = <<>> /\ child = NoChild /\ files = before
      /\ status # Running
  BY DEF Init, Running
<1> QED BY ONLY <1>1, <1>2, <1>3, NoChildTyped DEF BuildInv

LEMMA FailingSteps == (unit.status = 1)' => Steps' = <<Fail>>
<1>1. (unit.status = 1 => Steps = <<Fail>>)'
  <2>1. unit.status = 1 => Steps = <<Fail>>
    BY DEF Steps
  <2> QED BY <2>1, PTL
<1> QED BY <1>1

LEMMA EditInv == BuildInv /\ Edit => BuildInv'
<1> SUFFICES ASSUME BuildInv, Edit PROVE BuildInv'
  OBVIOUS
<1>1. NoOptions \in Options
  BY BuildAssumption, NoOptionsTyped DEF Turns
<1>2. /\ o' = NoOptions /\ unit' = NoUnit /\ before' = files' /\ status # Running
      /\ todo' = todo /\ child' = child /\ status' = status
  BY DEF Edit, Idle
<1> QED BY <1>1, <1>2 DEF BuildInv, AtProcess, At

\* The unit of a command that runs.
LEMMA StartUnit ==
    ASSUME BuildInv, FilesFit(files), Start
    PROVE  /\ UnitFits(unit') /\ ResolvedIn(o', unit', files) /\ o' \in Options
           /\ Placed(unit')
<1>1. o' \in Options
  <2>1. PICK c \in Commands : o' = run(c.argv)
    BY DEF Start
  <2>2. c.argv \in Seq(Argument)
    BY BuildAssumption DEF BuildAssumption
  <2> QED BY <2>1, <2>2, BuildAssumption, RunTyped
<1>2. CASE status' # Running
  <2>1. unit' = NoUnit
    BY <1>2 DEF Start
  <2>2. NoUnit.status = 1
    BY DEF NoUnit
  <2> QED BY <1>1, <2>1, <2>2, NoUnitFits DEF ResolvedIn, Placed
<1>3. CASE status' = Running
  <2>1. /\ unit' = IF ends_with(o'.input.suffix, ".antl") THEN compile_library_file(o')
                   ELSE compile(o')
        /\ ~Refused(o')
    BY <1>3 DEF Start, Running
  <2> DEFINE x == o'
  <2>2. /\ x \in Options /\ ~Refused(x)
        /\ unit' = IF ends_with(x.input.suffix, ".antl") THEN compile_library_file(x)
                   ELSE compile(x)
    BY <1>1, <2>1
  <2> HIDE DEF x
  <2>3. ends_with(x.input.suffix, ".anti") \/ ends_with(x.input.suffix, ".antl")
    BY ONLY <2>2 DEF Refused
  <2>4. x.input \in Paths
    <3>1. x.input # NoPath
      <4>1. NoPath.suffix = <<>>
        BY DEF NoPath, Path
      <4> QED BY ONLY <2>3, <4>1 DEF ends_with
    <3> QED BY <2>2, <3>1 DEF Options
  <2>5. ~(ends_with(x.input.suffix, ".anti") /\ ends_with(x.input.suffix, ".antl"))
    BY DEF ends_with
  <2>6. UnitFits(unit') /\ ResolvedIn(x, unit', files) /\ Placed(unit')
    <3>1. CASE ends_with(x.input.suffix, ".antl")
      BY ONLY <2>2, <2>4, <2>5, <3>1, FilesFit(files), LibraryFileResolves
    <3>2. CASE ~ends_with(x.input.suffix, ".antl")
      BY ONLY <2>2, <2>3, <2>4, <3>2, FilesFit(files), CompileResolves
    <3> QED BY <3>1, <3>2
  <2> QED BY <1>1, <2>6 DEF x
<1> QED BY <1>2, <1>3

LEMMA StartInv == BuildInv /\ FilesFit(files) /\ Start => BuildInv'
<1> SUFFICES ASSUME BuildInv, FilesFit(files), Start PROVE BuildInv'
  OBVIOUS
<1>1. /\ files' = files /\ before' = files /\ child' = child /\ status # Running
      /\ todo' = IF status' = Running THEN Steps' ELSE <<>>
  BY DEF Start, Idle
<1>2. o' \in Options /\ UnitFits(unit')
  BY StartUnit
<1>3. child = NoChild
  BY <1>1 DEF BuildInv
<1>4. StepsFit(todo')
  <2>1. IsSeq(o'.objects)
    BY <1>2, OptionsObjects
  <2> QED BY ONLY <1>1, <1>2, <2>1, NextStepsAreFit, FitShort
<1>5. unit'.status = 1 => files' = before' /\ (status' = Running => todo' = <<Fail>>)
  BY ONLY <1>1, FailingSteps
<1>6. StepsFit(todo)'
  BY ONLY <1>4 DEF StepsFit, StepFits, ContentFits, IsSeq, ToSet, Fits
<1>7. child' \in Children
  BY ONLY <1>1, <1>3, NoChildTyped
<1> QED BY ONLY <1>1, <1>2, <1>3, <1>5, <1>6, <1>7 DEF BuildInv

\* A step that ends the command or goes on to the next of its steps.
LEMMA StepsInv ==
    BuildInv /\ (Finish \/ StepFails \/ WriteFile \/ RemoveFile \/ SpawnFails) => BuildInv'
<1> SUFFICES ASSUME BuildInv, Finish \/ StepFails \/ WriteFile \/ RemoveFile \/ SpawnFails
             PROVE  BuildInv'
  OBVIOUS
<1>1. /\ o \in Options /\ StepsFit(todo) /\ child \in Children
      /\ child = NoChild \/ (status = Running /\ AtProcess /\ child.st # "none")
      /\ unit.status = 1 => files = before /\ (status = Running => todo = <<Fail>>)
  BY DEF BuildInv
<1>2. o' = o /\ unit' = unit /\ child' = child /\ before' = before
  BY DEF Finish, StepFails, WriteFile, RemoveFile, SpawnFails
<1>3. child = NoChild
  <2>1. CASE Finish \/ StepFails \/ WriteFile \/ RemoveFile
    BY <1>1, <2>1 DEF Finish, StepFails, WriteFile, RemoveFile, AtProcess, At
  <2>2. CASE SpawnFails
    BY <1>1, <2>2 DEF SpawnFails
  <2> QED BY <2>1, <2>2
<1>4. StepsFit(<<>>)
  BY FitShort
<1>5. CASE Finish
  BY <1>1, <1>2, <1>3, <1>5 DEF Finish, BuildInv, Running
<1>6. CASE StepFails \/ SpawnFails
  BY <1>1, <1>2, <1>3, <1>4, <1>6 DEF StepFails, SpawnFails, Fails, BuildInv, Running
<1>7. CASE WriteFile \/ RemoveFile
  <2>1. todo # <<>> /\ todo # <<Fail>> /\ status = Running
    BY <1>7 DEF WriteFile, RemoveFile, At, Fail
  <2>2. StepsFit(Tail(todo))
    BY <1>1, <2>1, FitTail
  <2>3. todo' = Tail(todo) \/ todo' = <<>>
    BY <1>7 DEF WriteFile, RemoveFile, Fails
  <2>4. unit.status # 1
    BY <1>1, <2>1
  <2>5. StepsFit(todo)'
    BY <1>4, <2>2, <2>3 DEF StepsFit, StepFits, ContentFits, IsSeq, ToSet, Fits
  <2> QED BY ONLY <1>1, <1>2, <1>3, <2>4, <2>5 DEF BuildInv
<1> QED BY <1>5, <1>6, <1>7

\* What a child does to its own state.
LEMMA ChildTyped ==
    ASSUME child \in Children,
           Spawn \/ ChildWrites \/ ChildExits \/ ChildFails \/ ParentReads
    PROVE  child' \in Children /\ (child.st # "none" \/ Spawn => child'.st # "none")
<1>1. /\ child.out \in Seq(Lines) /\ child.pipe \in Seq(Lines) /\ child.got \in Seq(Lines)
      /\ <<>> \in Seq(Lines)
  BY EmptySeq DEF Children
<1>2. CASE Spawn
  <2>1. RuntimeMembers \in Seq(Lines)
    <3>1. RuntimeMembers \in Seq(STRING) /\ STRING \subseteq Lines
      BY BuildAssumption DEF BuildAssumption, Lines
    <3> QED BY ONLY <3>1, SeqWider
  <2>2. <<"sdk">> \in Seq(Lines)
    BY DEF Lines
  <2>3. Output \in Seq(Lines)
    BY <1>1, <2>1, <2>2 DEF Output
  <2>4. child' = [NoChild EXCEPT !.st = "running", !.out = Output, !.writer = FALSE]
    BY <1>2 DEF Spawn
  <2> HIDE DEF Lines
  <2> QED BY <2>3, <2>4, NoChildTyped DEF Children
<1>3. CASE ChildWrites
  <2>1. child.out # <<>> /\ child.st = "running"
        /\ child' = [child EXCEPT !.pipe = Append(@, Head(child.out)), !.out = Tail(@)]
    BY <1>3 DEF ChildWrites
  <2>2. Head(child.out) \in Lines /\ Tail(child.out) \in Seq(Lines)
    BY ONLY <1>1, <2>1, HeadTailProperties
  <2>3. Append(child.pipe, Head(child.out)) \in Seq(Lines)
    BY ONLY <1>1, <2>2, AppendFacts
  <2> QED BY ONLY <2>1, <2>2, <2>3, child \in Children DEF Children
<1>4. CASE ChildExits
  BY <1>4 DEF ChildExits, Children
<1>5. CASE ChildFails
  BY <1>1, <1>5 DEF ChildFails, Children
<1>6. CASE ParentReads
  <2>1. child' = [child EXCEPT !.got = @ \o child.pipe, !.pipe = <<>>]
    BY <1>6 DEF ParentReads
  <2>2. child.got \o child.pipe \in Seq(Lines)
    BY ONLY <1>1, ConcatFacts
  <2> DEFINE got == child.got \o child.pipe
  <2>3. child' = [child EXCEPT !.got = got, !.pipe = <<>>] /\ got \in Seq(Lines)
    BY <2>1, <2>2
  <2> HIDE DEF got
  <2>4. child' \in Children
    BY ONLY <1>1, <2>3, child \in Children DEF Children
  <2>5. child'.st = child.st /\ ~Spawn
    BY <1>6, <2>1 DEF Children, ParentReads, Spawn, AtProcess, At, NoChild
  <2> QED BY ONLY <2>4, <2>5
<1> QED BY <1>2, <1>3, <1>4, <1>5, <1>6

LEMMA ChildInv ==
    BuildInv /\ (Spawn \/ ChildWrites \/ ChildExits \/ ChildFails \/ ParentReads) => BuildInv'
<1> SUFFICES ASSUME BuildInv,
                    Spawn \/ ChildWrites \/ ChildExits \/ ChildFails \/ ParentReads
             PROVE  BuildInv'
  OBVIOUS
<1>1. /\ o \in Options /\ StepsFit(todo) /\ child \in Children
      /\ child = NoChild \/ (status = Running /\ AtProcess /\ child.st # "none")
      /\ unit.status = 1 => files = before /\ (status = Running => todo = <<Fail>>)
  BY DEF BuildInv
<1>2. /\ o' = o /\ unit' = unit /\ todo' = todo /\ status' = status /\ before' = before
  BY DEF Spawn, ChildWrites, ChildExits, ChildFails, ParentReads
<1>3. status = Running /\ AtProcess /\ (child.st # "none" \/ Spawn)
  <2>1. CASE Spawn
    BY <2>1 DEF Spawn, AtProcess, At
  <2>2. CASE ChildWrites \/ ChildExits \/ ChildFails
    BY <1>1, <2>2, NoChildTyped DEF ChildWrites, ChildExits, ChildFails
  <2>3. CASE ParentReads
    BY <1>1, <2>3 DEF ParentReads, NoChild
  <2> QED BY <2>1, <2>2, <2>3
<1>4. child' \in Children /\ child'.st # "none"
  BY <1>1, <1>3, ChildTyped
<1>5. todo # <<Fail>>
  BY <1>3 DEF AtProcess, At, Fail
<1>6. unit.status # 1
  BY <1>1, <1>3, <1>5
<1>7. AtProcess'
  BY <1>2, <1>3 DEF AtProcess, At
<1>8. StepsFit(todo)'
  BY <1>1, <1>2 DEF StepsFit, StepFits, ContentFits, IsSeq, ToSet, Fits
<1> QED BY ONLY <1>1, <1>2, <1>3, <1>4, <1>6, <1>7, <1>8 DEF BuildInv

LEMMA WaitInv == BuildInv /\ wait_for => BuildInv'
<1> SUFFICES ASSUME BuildInv, wait_for PROVE BuildInv'
  OBVIOUS
<1>1. /\ o \in Options /\ StepsFit(todo) /\ child \in Children
      /\ child = NoChild \/ (status = Running /\ AtProcess /\ child.st # "none")
      /\ unit.status = 1 => files = before /\ (status = Running => todo = <<Fail>>)
  BY DEF BuildInv
<1>2. /\ o' = o /\ unit' = unit /\ before' = before /\ child' = NoChild /\ files' = files
  BY DEF wait_for
<1>3. status = Running /\ AtProcess
  BY <1>1, NoChildTyped DEF wait_for
<1>4. todo # <<>> /\ todo # <<Fail>>
  BY <1>3 DEF AtProcess, At, Fail
<1>5. StepsFit(todo')
  <2>1. \/ todo' = <<>> \/ todo' = Tail(todo)
        \/ todo' = bundle(ObjectPath, child.got)
    BY DEF wait_for, Fails
  <2>2. StepsFit(<<>>) /\ StepsFit(Tail(todo))
    BY <1>1, <1>4, FitTail, FitShort
  <2>3. IsSeq(child.got)
    <3>1. child.got \in Seq(Lines)
      BY <1>1 DEF Children
    <3> QED BY ONLY <3>1, SeqIsSeq
  <2>4. StepsFit(bundle(ObjectPath, child.got))
    BY ONLY <2>3, BundleFits
  <2> QED BY ONLY <2>1, <2>2, <2>4
<1>6. StepsFit(todo)'
  BY ONLY <1>5 DEF StepsFit, StepFits, ContentFits, IsSeq, ToSet, Fits
<1>7. unit.status # 1
  BY <1>1, <1>3, <1>4
<1> QED BY ONLY <1>1, <1>2, <1>6, <1>7, NoChildTyped DEF BuildInv

LEMMA CrashInv == BuildInv /\ Crash => BuildInv'
<1> SUFFICES ASSUME BuildInv, Crash PROVE BuildInv'
  OBVIOUS
<1>1. /\ o \in Options /\ StepsFit(todo) /\ child \in Children
      /\ unit.status = 1 => files = before /\ (status = Running => todo = <<Fail>>)
  BY DEF BuildInv
<1>2. /\ o' = o /\ unit' = unit /\ before' = before /\ child' = NoChild
      /\ status = Running /\ status' = Killed /\ todo' = <<>>
  BY DEF Crash
<1>3. unit.status = 1 => files' = files
  BY <1>1, <1>2 DEF Crash, At, Fail
<1>4. StepsFit(todo)'
  BY <1>2, FitShort DEF StepsFit, StepFits, ContentFits, IsSeq, ToSet, Fits
<1> QED BY ONLY <1>1, <1>2, <1>3, <1>4, NoChildTyped DEF BuildInv, Running, Killed

\* What a tool makes of its files, and what is left of a file.
LEMMA MadeLegible ==
    ASSUME NEW f, NEW x, StepFits(x), x.op = "tool"
    PROVE  Legible(Made(f, x))
BY DEF StepFits, Made, Legible

LEMMA BrokenFits ==
    ASSUME FilesFit(files), NEW p, NEW f \in Broken(p)
    PROVE  FilesFit(f)
<1>1. Legible(Partial)
  BY DEF Legible, Partial
<1> QED BY <1>1, PutFits DEF Broken

LEMMA FilesNext == BuildInv /\ FilesFit(files) /\ [Next]_vars => FilesFit(files')
<1> SUFFICES ASSUME BuildInv, FilesFit(files), Next, files' # files PROVE FilesFit(files')
  BY DEF vars
<1>1. CASE Edit
  <2>1. PICK e \in Edits : files' = Put(files, e.path, e.content)
    BY <1>1 DEF Edit
  <2>2. Legible(e.content)
    BY BuildAssumption DEF BuildAssumption, Content, Legible
  <2> QED BY <2>1, <2>2, PutFits
<1>2. CASE ~Edit
  <2>1. WriteFile \/ RemoveFile \/ ChildExits \/ ChildFails \/ Crash
    BY <1>2 DEF Next, Work, Start, Finish, StepFails, Spawn, SpawnFails, ChildWrites,
                ParentReads, wait_for
  <2>2. status = Running /\ todo # <<>>
    BY <1>2, <2>1 DEF WriteFile, RemoveFile, ChildExits, ChildFails, Crash, At, BuildInv,
                      NoChild, AtProcess
  <2>3. StepFits(Head(todo))
    BY <2>2, IsSeqTail DEF BuildInv, StepsFit
  <2>4. CASE WriteFile
    <3>1. ContentFits(Head(todo).content)
      BY <2>3, <2>4 DEF WriteFile, At, StepFits
    <3>2. Legible(Head(todo).content)
      BY <3>1 DEF ContentFits, Legible
    <3> QED BY <2>4, <3>2, PutFits, BrokenFits DEF WriteFile
  <2>5. CASE RemoveFile
    <3>1. Legible(Partial)
      BY DEF Legible, Partial
    <3> QED BY <2>5, <3>1, PutFits DEF RemoveFile
  <2>6. CASE ChildExits
    <3>1. At("tool") /\ files' = Put(files, Head(todo).path, Made(files, Head(todo)))
      BY <2>6 DEF ChildExits
    <3>2. Legible(Made(files, Head(todo)))
      BY <2>3, <3>1, MadeLegible DEF At
    <3> QED BY <3>1, <3>2, PutFits
  <2>7. CASE ChildFails \/ Crash
    <3>1. files' \in Broken(Head(todo).path)
      BY <2>7 DEF ChildFails, Crash
    <3> QED BY <3>1, BrokenFits
  <2> QED BY <2>1, <2>4, <2>5, <2>6, <2>7
<1> QED BY <1>1, <1>2

Builds == BuildInv /\ FilesFit(files)

LEMMA BuildNext == Builds /\ [Next]_vars => Builds'
<1> SUFFICES ASSUME BuildInv, FilesFit(files), [Next]_vars PROVE Builds'
  BY DEF Builds
<1>1. BuildInv'
  <2>1. CASE UNCHANGED vars
    BY <2>1 DEF vars, BuildInv, AtProcess, At, StepsFit, StepFits, ContentFits, IsSeq, ToSet, Fits
  <2>2. CASE Next
    BY <2>2, EditInv, StartInv, StepsInv, ChildInv, WaitInv, CrashInv DEF Next, Work
  <2> QED BY <2>1, <2>2
<1>2. FilesFit(files')
  BY FilesNext
<1> QED BY <1>1, <1>2 DEF Builds, FilesFit, Legible

LEMMA BuildAlways == Spec => []Builds
<1>1. Init => Builds
  <2> SUFFICES ASSUME Init PROVE FilesFit(files)
    BY BuildInit DEF Builds
  <2>1. files \in Worlds
    BY DEF Init
  <2> QED BY <2>1, BuildAssumption DEF BuildAssumption, FilesFit, Legible, Content
<1> QED BY <1>1, BuildNext, PTL DEF Spec

-----------------------------------------------------------------------------
(* What flows through the steps of a command.  D has for every path the    *)
(* content that a step of this command is to read or to make there.        *)

Makes(x, p) == x.op \in {"write", "tool"} /\ x.path = p

\* What a step makes of the contents D.
Fresh(D, x) ==
    IF x.op = "write" THEN x.content
    ELSE IF x.kind = "archive"
    THEN [kind |-> "archive", members |-> {Member(D, p) : p \in ToSet(x.reads)}]
    ELSE IF x.kind = "member" THEN [kind |-> "rt", name |-> x.path.name]
    ELSE [kind |-> x.kind, from |-> [i \in DOMAIN x.reads |-> D[x.reads[i]]]]

\* Who reads r at the i-th step finds D[r] there, or nothing.
Sure(D, L, f, r, i) ==
    \/ \E j \in 1 .. i - 1 : Makes(L[j], r)
    \/ r \in DOMAIN f => f[r] = D[r]

\* The steps L, run from the files f, make what D says; nothing that lies
\* there before is read in its place, and no archive is added to.
Flow(D, L, f, goal) ==
    /\ IsSeq(L)
    /\ \A i \in 1 .. Len(L) :
        /\ L[i].op \in {"write", "tool"} => Fresh(D, L[i]) = D[L[i].path]
        /\ L[i].op = "tool" => \A r \in ToSet(L[i].reads) : Sure(D, L, f, r, i)
        /\ L[i].op = "tool" /\ L[i].kind = "archive" =>
               \/ i > 1 /\ L[i - 1] = Delete(L[i].path)
               \/ i = 1 /\ L[i].path \notin DOMAIN f
    /\ \A r \in goal : Sure(D, L, f, r, Len(L) + 1)

\* Every file of the goal is there or is still to be made, and what is
\* removed is made at once again.
Whole(L, f, goal) ==
    /\ \A p \in goal : p \in DOMAIN f \/ \E j \in 1 .. Len(L) : Makes(L[j], p)
    /\ \A i \in 1 .. Len(L) : L[i].op = "remove" =>
            i < Len(L) /\ Makes(L[i + 1], L[i].path)

\* The files after a step that succeeds.
After(f, x) == IF x.op = "write" THEN Put(f, x.path, x.content)
               ELSE IF x.op = "tool" THEN Put(f, x.path, Made(f, x))
               ELSE IF x.op = "remove" THEN Without(f, x.path) ELSE f

\* The steps after the first.
LEMMA TailIs ==
    ASSUME NEW L, IsSeq(L), L # <<>>
    PROVE  /\ IsSeq(Tail(L)) /\ Len(L) \in Nat /\ Len(L) > 0 /\ Head(L) = L[1]
           /\ Len(Tail(L)) = Len(L) - 1
           /\ \A i \in 1 .. Len(L) - 1 : Tail(L)[i] = L[i + 1]
<1>1. /\ IsSeq(Tail(L)) /\ Len(L) \in Nat /\ Len(L) > 0
  BY IsSeqTail
<1> DEFINE X == ToSet(L)
<1>2. L \in Seq(X)
  BY DEF IsSeq
<1> HIDE DEF X
<1>3. /\ Head(L) = L[1] /\ Len(Tail(L)) = Len(L) - 1
      /\ \A i \in 1 .. Len(L) - 1 : Tail(L)[i] = L[i + 1]
  BY ONLY <1>2, L # <<>>, HeadTailProperties
<1> QED BY ONLY <1>1, <1>3

\* What a step makes of files that are as D says.
LEMMA MadeIs ==
    ASSUME NEW D, NEW L, NEW f, NEW goal, Flow(D, L, f, goal), L # <<>>,
           Head(L).op = "tool", ToSet(Head(L).reads) \subseteq DOMAIN f
    PROVE  Made(f, Head(L)) = D[Head(L).path]
<1> DEFINE x == Head(L)
<1>1. x = L[1] /\ 1 \in 1 .. Len(L)
  BY TailIs DEF Flow
<1>2. \A r \in ToSet(x.reads) : r \in DOMAIN f /\ f[r] = D[r]
  <2>1. \A r \in ToSet(x.reads) : Sure(D, L, f, r, 1)
    BY <1>1 DEF Flow
  <2> QED BY <2>1 DEF Sure
<1>3. Fresh(D, x) = D[x.path]
  BY <1>1 DEF Flow
<1>4. x.kind = "archive" => x.path \notin DOMAIN f
  BY <1>1 DEF Flow
<1> HIDE DEF x
<1>5. CASE x.kind = "archive"
  <2>1. {Member(f, p) : p \in ToSet(x.reads)} = {Member(D, p) : p \in ToSet(x.reads)}
    BY <1>2 DEF Member
  <2> DEFINE new == {Member(D, p) : p \in ToSet(x.reads)}
             all == new \cup {m \in {} : \A n \in new : n[1] # m[1]}
  <2>2. Made(f, x) = [kind |-> "archive", members |-> all]
    BY <1>4, <1>5, <2>1 DEF Made
  <2>3. all = new
    OBVIOUS
  <2>4. Fresh(D, x) = [kind |-> "archive", members |-> new]
    BY <1>5 DEF x, Fresh
  <2> QED BY <1>3, <2>2, <2>3, <2>4 DEF x
<1>6. CASE x.kind = "member"
  BY <1>3, <1>6 DEF Made, Fresh, x
<1>7. CASE x.kind \notin {"archive", "member"}
  <2>1. [i \in DOMAIN x.reads |-> f[x.reads[i]]] = [i \in DOMAIN x.reads |-> D[x.reads[i]]]
    <3>1. \A i \in DOMAIN x.reads : x.reads[i] \in ToSet(x.reads)
      BY DEF ToSet
    <3> QED BY <1>2, <3>1
  <2>2. Made(f, x) = [kind |-> x.kind, from |-> [i \in DOMAIN x.reads |-> f[x.reads[i]]]]
    BY <1>7 DEF Made
  <2>3. Fresh(D, x) = [kind |-> x.kind, from |-> [i \in DOMAIN x.reads |-> D[x.reads[i]]]]
    BY <1>7 DEF Fresh, x
  <2> QED BY <1>3, <2>1, <2>2, <2>3 DEF x
<1> QED BY <1>5, <1>6, <1>7

\* The files after a step: what it made is as D says, all else is as it was.
LEMMA AfterIs ==
    ASSUME NEW D, NEW L, NEW f, NEW goal, Flow(D, L, f, goal), L # <<>>,
           Head(L).op = "tool" => ToSet(Head(L).reads) \subseteq DOMAIN f
    PROVE  LET g == After(f, Head(L)) IN
           /\ \A r \in DOMAIN g : Makes(Head(L), r) => g[r] = D[r]
           /\ \A r \in DOMAIN g : ~Makes(Head(L), r) => r \in DOMAIN f /\ g[r] = f[r]
           /\ \A r : Makes(Head(L), r) => r \in DOMAIN g
           /\ \A r \in DOMAIN f : r \in DOMAIN g \/ (Head(L).op = "remove" /\ Head(L).path = r)
           /\ Head(L).op = "remove" => Head(L).path \notin DOMAIN g
<1>1. PICK x : x = Head(L)
  OBVIOUS
<1>2. PICK g : g = After(f, x)
  OBVIOUS
<1>3. x = L[1] /\ 1 \in 1 .. Len(L)
  BY <1>1, TailIs DEF Flow
<1>4. x.op = "tool" => Made(f, x) = D[x.path]
  BY <1>1, MadeIs
<1>5. x.op = "write" => x.content = D[x.path]
  BY <1>3 DEF Flow, Fresh
<1>6. /\ \A r \in DOMAIN g : Makes(x, r) => g[r] = D[r]
      /\ \A r \in DOMAIN g : ~Makes(x, r) => r \in DOMAIN f /\ g[r] = f[r]
      /\ \A r : Makes(x, r) => r \in DOMAIN g
      /\ \A r \in DOMAIN f : r \in DOMAIN g \/ (x.op = "remove" /\ x.path = r)
      /\ x.op = "remove" => x.path \notin DOMAIN g
  <2>1. CASE x.op \in {"write", "tool"}
    <3>1. g = Put(f, x.path, D[x.path])
      BY <1>2, <1>4, <1>5, <2>1 DEF After
    <3>2. /\ DOMAIN g = DOMAIN f \cup {x.path}
          /\ \A r \in DOMAIN g : g[r] = IF r = x.path THEN D[x.path] ELSE f[r]
      BY <3>1 DEF Put
    <3> QED BY ONLY <2>1, <3>2 DEF Makes
  <2>2. CASE x.op = "remove"
    <3>1. g = Without(f, x.path)
      BY <1>2, <2>2 DEF After
    <3>2. DOMAIN g = DOMAIN f \ {x.path} /\ \A r \in DOMAIN g : g[r] = f[r]
      BY <3>1 DEF Without
    <3> QED BY ONLY <2>2, <3>2 DEF Makes
  <2>3. CASE x.op \notin {"write", "tool", "remove"}
    <3>1. g = f
      BY <1>2, <2>3 DEF After
    <3> QED BY ONLY <2>3, <3>1 DEF Makes
  <2> QED BY <2>1, <2>2, <2>3
<1> QED BY ONLY <1>1, <1>2, <1>6

\* Each step that succeeds leaves the others what they need.
LEMMA FlowStep ==
    ASSUME NEW D, NEW L, NEW f, NEW goal, Flow(D, L, f, goal), L # <<>>,
           Head(L).op = "tool" => ToSet(Head(L).reads) \subseteq DOMAIN f
    PROVE  Flow(D, Tail(L), After(f, Head(L)), goal)
<1> DEFINE x == Head(L)
           T == Tail(L)
           N == Len(L)
<1> DEFINE h == After(f, x)
<1>1. PICK g : g = h
  OBVIOUS
<1>2. /\ IsSeq(T) /\ N \in Nat /\ N > 0 /\ x = L[1] /\ Len(T) = N - 1
      /\ \A i \in 1 .. N - 1 : T[i] = L[i + 1]
  BY TailIs DEF Flow
<1>3. /\ \A r \in DOMAIN g : Makes(x, r) => g[r] = D[r]
      /\ \A r \in DOMAIN g : ~Makes(x, r) => r \in DOMAIN f /\ g[r] = f[r]
      /\ x.op = "remove" => x.path \notin DOMAIN g
  BY <1>1, AfterIs
<1> HIDE DEF x, T, N, h
<1>4. ASSUME NEW r, NEW i \in 2 .. N + 1, Sure(D, L, f, r, i)
      PROVE  Sure(D, T, g, r, i - 1)
  <2>1. CASE \E j \in 2 .. i - 1 : Makes(L[j], r)
    <3>1. PICK j \in 2 .. i - 1 : Makes(L[j], r)
      BY <2>1
    <3>2. j - 1 \in 1 .. N - 1 /\ j - 1 \in 1 .. (i - 1) - 1 /\ (j - 1) + 1 = j
      BY <1>2
    <3>3. Makes(T[j - 1], r)
      BY <1>2, <3>1, <3>2
    <3> QED BY <3>2, <3>3 DEF Sure
  <2>2. CASE Makes(x, r)
    BY <1>3, <2>2 DEF Sure
  <2>3. CASE ~Makes(x, r) /\ ~\E j \in 2 .. i - 1 : Makes(L[j], r)
    <3>1. \A j \in 1 .. i - 1 : j = 1 \/ j \in 2 .. i - 1
      BY <1>2
    <3>2. r \in DOMAIN f => f[r] = D[r]
      BY <1>2, <1>4, <2>3, <3>1 DEF Sure
    <3> QED BY <1>3, <2>3, <3>2 DEF Sure
  <2> QED BY <2>1, <2>2, <2>3
<1>5. ASSUME NEW i \in 1 .. N - 1
      PROVE  /\ T[i].op \in {"write", "tool"} => Fresh(D, T[i]) = D[T[i].path]
             /\ T[i].op = "tool" => \A r \in ToSet(T[i].reads) : Sure(D, T, g, r, i)
             /\ T[i].op = "tool" /\ T[i].kind = "archive" =>
                    \/ i > 1 /\ T[i - 1] = Delete(T[i].path)
                    \/ i = 1 /\ T[i].path \notin DOMAIN g
  <2>1. /\ i + 1 \in 1 .. N /\ i + 1 \in 2 .. N + 1 /\ (i + 1) - 1 = i /\ T[i] = L[i + 1]
        /\ i + 1 # 1 /\ i > 0
    BY <1>2
  <2>2. /\ T[i].op \in {"write", "tool"} => Fresh(D, T[i]) = D[T[i].path]
        /\ T[i].op = "tool" => \A r \in ToSet(T[i].reads) : Sure(D, L, f, r, i + 1)
        /\ T[i].op = "tool" /\ T[i].kind = "archive" => L[i] = Delete(T[i].path)
    BY <2>1 DEF Flow, N
  <2>3. T[i].op = "tool" => \A r \in ToSet(T[i].reads) : Sure(D, T, g, r, i)
    BY <1>4, <2>1, <2>2
  <2>4. ASSUME T[i].op = "tool" /\ T[i].kind = "archive"
        PROVE  \/ i > 1 /\ T[i - 1] = Delete(T[i].path)
               \/ i = 1 /\ T[i].path \notin DOMAIN g
    <3>1. L[i] = Delete(T[i].path)
      BY <2>2, <2>4
    <3>2. CASE i = 1
      <4>1. x.op = "remove" /\ x.path = T[i].path
        BY <1>2, <3>1, <3>2 DEF Delete
      <4> QED BY <1>3, <3>2, <4>1
    <3>3. CASE i # 1
      <4>1. i - 1 \in 1 .. N - 1 /\ (i - 1) + 1 = i /\ i > 1
        BY <1>2, <3>3
      <4> QED BY <1>2, <3>1, <4>1
    <3> QED BY <3>2, <3>3
  <2> QED BY <2>2, <2>3, <2>4
<1>6. \A r \in goal : Sure(D, T, g, r, Len(T) + 1)
  <2>1. N + 1 \in 2 .. N + 1 /\ (N + 1) - 1 = Len(T) + 1
    BY <1>2
  <2>2. \A r \in goal : Sure(D, L, f, r, N + 1)
    BY DEF Flow, N
  <2> QED BY <1>4, <2>1, <2>2
<1>7. Flow(D, T, g, goal)
  BY <1>2, <1>5, <1>6 DEF Flow
<1> QED BY <1>1, <1>7 DEF T, h, x

LEMMA WholeStep ==
    ASSUME NEW D, NEW L, NEW f, NEW goal, Flow(D, L, f, goal), L # <<>>,
           Head(L).op = "tool" => ToSet(Head(L).reads) \subseteq DOMAIN f,
           Whole(L, f, goal)
    PROVE  Whole(Tail(L), After(f, Head(L)), goal)
<1> DEFINE x == Head(L)
           T == Tail(L)
           N == Len(L)
<1> DEFINE h == After(f, x)
<1>1. PICK g : g = h
  OBVIOUS
<1>2. /\ N \in Nat /\ N > 0 /\ x = L[1] /\ Len(T) = N - 1
      /\ \A i \in 1 .. N - 1 : T[i] = L[i + 1]
  BY TailIs DEF Flow
<1>3. /\ \A r : Makes(x, r) => r \in DOMAIN g
      /\ \A r \in DOMAIN f : r \in DOMAIN g \/ (x.op = "remove" /\ x.path = r)
  BY <1>1, AfterIs
<1> HIDE DEF x, T, N, h
<1>4. ASSUME NEW p \in goal, p \notin DOMAIN g PROVE \E j \in 1 .. N - 1 : Makes(T[j], p)
  <2>1. CASE \E j \in 2 .. N : Makes(L[j], p)
    <3>1. PICK j \in 2 .. N : Makes(L[j], p)
      BY <2>1
    <3>2. j - 1 \in 1 .. N - 1 /\ (j - 1) + 1 = j
      BY <1>2
    <3> QED BY <1>2, <3>1, <3>2
  <2>2. CASE ~\E j \in 2 .. N : Makes(L[j], p)
    <3>1. \A j \in 1 .. N : j = 1 \/ j \in 2 .. N
      BY <1>2
    <3>2. ~Makes(x, p)
      BY <1>3, <1>4
    <3>3. p \in DOMAIN f
      BY <1>2, <2>2, <3>1, <3>2 DEF Whole, N
    <3>4. x.op = "remove" /\ x.path = p
      BY <1>3, <1>4, <3>3
    <3>5. 1 < N /\ Makes(L[2], p)
      BY <1>2, <3>4 DEF Whole, N
    <3>6. 2 \in 2 .. N
      BY <1>2, <3>5
    <3> QED BY <2>2, <3>5, <3>6
  <2> QED BY <2>1, <2>2
<1>5. ASSUME NEW i \in 1 .. N - 1, T[i].op = "remove"
      PROVE  i < N - 1 /\ Makes(T[i + 1], T[i].path)
  <2>1. i + 1 \in 1 .. N /\ T[i] = L[i + 1]
    BY <1>2
  <2>2. i + 1 < N /\ Makes(L[(i + 1) + 1], T[i].path)
    BY <1>5, <2>1 DEF Whole, N
  <2>3. i < N - 1 /\ i + 1 \in 1 .. N - 1
    BY <1>2, <2>2
  <2> QED BY <1>2, <2>2, <2>3
<1>6. Whole(T, g, goal)
  BY <1>2, <1>4, <1>5 DEF Whole
<1> QED BY <1>1, <1>6 DEF T, h, x

\* The same of steps that start with the files of have as D says.
Runs(D, have, s) ==
    /\ IsSeq(s)
    /\ \A x \in ToSet(s) : x.op # "listing"
    /\ \A i \in 1 .. Len(s) :
        /\ s[i].op \in {"write", "tool"} => Fresh(D, s[i]) = D[s[i].path]
        /\ s[i].op = "tool" => \A r \in ToSet(s[i].reads) :
               r \in have \/ \E j \in 1 .. i - 1 : Makes(s[j], r)
        /\ s[i].op = "tool" /\ s[i].kind = "archive" =>
               i > 1 /\ s[i - 1] = Delete(s[i].path)
        /\ s[i].op = "remove" => i < Len(s) /\ Makes(s[i + 1], s[i].path)

\* What steps make.
Outs(s) == {x.path : x \in {y \in ToSet(s) : y.op \in {"write", "tool"}}}

LEMMA OutsIs ==
    ASSUME NEW s, IsSeq(s)
    PROVE  \A p : p \in Outs(s) <=> \E j \in 1 .. Len(s) : Makes(s[j], p)
<1>1. Len(s) \in Nat /\ DOMAIN s = 1 .. Len(s)
  BY SeqIsSeq DEF IsSeq
<1> QED BY <1>1 DEF Outs, Makes, ToSet

\* One part after the other.
LEMMA RunsConcat ==
    ASSUME NEW D, NEW have, NEW s, NEW t, Runs(D, have, s), Runs(D, have \cup Outs(s), t)
    PROVE  Runs(D, have, s \o t) /\ Outs(s \o t) = Outs(s) \cup Outs(t)
<1> DEFINE u == s \o t
           M == Len(s)
           N == Len(t)
<1>1. /\ IsSeq(s) /\ IsSeq(t) /\ IsSeq(u) /\ Len(u) = M + N /\ M \in Nat /\ N \in Nat
      /\ ToSet(u) = ToSet(s) \cup ToSet(t)
  BY IsSeqConcat DEF Runs
<1>2. /\ \A i \in 1 .. M : u[i] = s[i]
      /\ \A i \in 1 .. N : u[M + i] = t[i]
  <2> DEFINE X == ToSet(s) \cup ToSet(t)
  <2>1. ToSet(s) \subseteq X /\ ToSet(t) \subseteq X /\ s \in Seq(ToSet(s)) /\ t \in Seq(ToSet(t))
    BY <1>1 DEF IsSeq
  <2> HIDE DEF X
  <2>2. s \in Seq(X) /\ t \in Seq(X)
    BY ONLY <2>1
  <2>3. DOMAIN s = 1 .. M /\ DOMAIN t = 1 .. N
    BY ONLY <2>2, LenProperties
  <2> QED BY ONLY <2>2, <2>3, ConcatFacts
<1> HIDE DEF u
<1>3. \A p \in Outs(s) : \E j \in 1 .. M : Makes(s[j], p)
  BY <1>1, OutsIs
<1> HIDE DEF M, N
<1>4. ASSUME NEW i \in 1 .. M
      PROVE  /\ u[i].op \in {"write", "tool"} => Fresh(D, u[i]) = D[u[i].path]
             /\ u[i].op = "tool" => \A r \in ToSet(u[i].reads) :
                    r \in have \/ \E j \in 1 .. i - 1 : Makes(u[j], r)
             /\ u[i].op = "tool" /\ u[i].kind = "archive" =>
                    i > 1 /\ u[i - 1] = Delete(u[i].path)
             /\ u[i].op = "remove" => i < M + N /\ Makes(u[i + 1], u[i].path)
  <2>1. /\ u[i] = s[i] /\ \A j \in 1 .. i - 1 : j \in 1 .. M /\ u[j] = s[j]
        /\ i > 1 => i - 1 \in 1 .. M
        /\ i < M => i + 1 \in 1 .. M /\ i < M + N
    BY <1>1, <1>2
  <2>2. /\ s[i].op \in {"write", "tool"} => Fresh(D, s[i]) = D[s[i].path]
        /\ s[i].op = "tool" => \A r \in ToSet(s[i].reads) :
               r \in have \/ \E j \in 1 .. i - 1 : Makes(s[j], r)
        /\ s[i].op = "tool" /\ s[i].kind = "archive" =>
               i > 1 /\ s[i - 1] = Delete(s[i].path)
        /\ s[i].op = "remove" => i < M /\ Makes(s[i + 1], s[i].path)
    BY DEF Runs, M
  <2>3. i > 1 => u[i - 1] = s[i - 1]
    BY <1>2, <2>1
  <2>4. i < M => u[i + 1] = s[i + 1]
    BY <1>2, <2>1
  <2> QED BY <2>1, <2>2, <2>3, <2>4
<1>5. ASSUME NEW k \in 1 .. N
      PROVE  LET i == M + k IN
             /\ u[i].op \in {"write", "tool"} => Fresh(D, u[i]) = D[u[i].path]
             /\ u[i].op = "tool" => \A r \in ToSet(u[i].reads) :
                    r \in have \/ \E j \in 1 .. i - 1 : Makes(u[j], r)
             /\ u[i].op = "tool" /\ u[i].kind = "archive" =>
                    i > 1 /\ u[i - 1] = Delete(u[i].path)
             /\ u[i].op = "remove" => i < M + N /\ Makes(u[i + 1], u[i].path)
  <2> DEFINE i == M + k
  <2>1. /\ u[i] = t[k] /\ \A j \in 1 .. k - 1 : M + j \in 1 .. i - 1 /\ u[M + j] = t[j]
        /\ k > 1 => i - 1 = M + (k - 1) /\ k - 1 \in 1 .. N /\ i > 1
        /\ k < N => i + 1 = M + (k + 1) /\ k + 1 \in 1 .. N /\ i < M + N
        /\ \A j \in 1 .. M : j \in 1 .. i - 1
    BY <1>1, <1>2
  <2>2. /\ t[k].op \in {"write", "tool"} => Fresh(D, t[k]) = D[t[k].path]
        /\ t[k].op = "tool" => \A r \in ToSet(t[k].reads) :
               r \in have \cup Outs(s) \/ \E j \in 1 .. k - 1 : Makes(t[j], r)
        /\ t[k].op = "tool" /\ t[k].kind = "archive" =>
               k > 1 /\ t[k - 1] = Delete(t[k].path)
        /\ t[k].op = "remove" => k < N /\ Makes(t[k + 1], t[k].path)
    BY DEF Runs, N
  <2>3. k > 1 => u[i - 1] = t[k - 1]
    BY <1>2, <2>1
  <2>4. k < N => u[i + 1] = t[k + 1]
    BY <1>2, <2>1
  <2> HIDE DEF i
  <2>5. u[i].op = "tool" => \A r \in ToSet(u[i].reads) :
                    r \in have \/ \E j \in 1 .. i - 1 : Makes(u[j], r)
    <3> SUFFICES ASSUME u[i].op = "tool", NEW r \in ToSet(u[i].reads), r \notin have
                 PROVE  \E j \in 1 .. i - 1 : Makes(u[j], r)
      OBVIOUS
    <3>1. CASE r \in Outs(s)
      <4>1. PICK j \in 1 .. M : Makes(s[j], r)
        BY <1>3, <3>1
      <4> QED BY <1>2, <2>1, <4>1
    <3>2. CASE r \notin Outs(s)
      <4>1. PICK j \in 1 .. k - 1 : Makes(t[j], r)
        BY <2>1, <2>2, <3>2
      <4> QED BY <2>1, <4>1
    <3> QED BY <3>1, <3>2
  <2>6. /\ u[i].op \in {"write", "tool"} => Fresh(D, u[i]) = D[u[i].path]
        /\ u[i].op = "tool" /\ u[i].kind = "archive" => i > 1 /\ u[i - 1] = Delete(u[i].path)
        /\ u[i].op = "remove" => i < M + N /\ Makes(u[i + 1], u[i].path)
    BY <2>1, <2>2, <2>3, <2>4
  <2> QED BY <2>5, <2>6 DEF i
<1>6. \A i \in 1 .. M + N : i \in 1 .. M \/ \E k \in 1 .. N : i = M + k
  <2> TAKE i \in 1 .. M + N
  <2>1. CASE i > M
    <3>1. i - M \in 1 .. N /\ i = M + (i - M)
      BY <1>1, <2>1
    <3> QED BY <3>1
  <2>2. CASE ~(i > M)
    BY <1>1, <2>2
  <2> QED BY <2>1, <2>2
<1>7. \A i \in 1 .. M + N :
             /\ u[i].op \in {"write", "tool"} => Fresh(D, u[i]) = D[u[i].path]
             /\ u[i].op = "tool" => \A r \in ToSet(u[i].reads) :
                    r \in have \/ \E j \in 1 .. i - 1 : Makes(u[j], r)
             /\ u[i].op = "tool" /\ u[i].kind = "archive" =>
                    i > 1 /\ u[i - 1] = Delete(u[i].path)
             /\ u[i].op = "remove" => i < M + N /\ Makes(u[i + 1], u[i].path)
  BY <1>4, <1>5, <1>6
<1>8. Runs(D, have, u)
  BY <1>1, <1>7 DEF Runs
<1>9. Outs(u) = Outs(s) \cup Outs(t)
  BY <1>1 DEF Outs
<1> QED BY <1>8, <1>9 DEF u

\* A step by itself.
RunsAlone(D, have, x) ==
    /\ x.op \in {"write", "tool"} => Fresh(D, x) = D[x.path]
    /\ x.op = "tool" => x.kind # "archive" /\ ToSet(x.reads) \subseteq have
    /\ x.op \notin {"remove", "listing"}

LEMMA RunsOne ==
    ASSUME NEW D, NEW have, NEW x, RunsAlone(D, have, x)
    PROVE  /\ Runs(D, have, <<x>>)
           /\ x.op \in {"write", "tool"} => Outs(<<x>>) = {x.path}
           /\ x.op \notin {"write", "tool"} => Outs(<<x>>) = {}
<1>1. IsSeq(<<x>>) /\ Len(<<x>>) = 1 /\ ToSet(<<x>>) = {x} /\ <<x>>[1] = x
  BY IsSeqShort
<1> QED BY <1>1 DEF Runs, RunsAlone, Outs

LEMMA RunsNone ==
    ASSUME NEW D, NEW have
    PROVE  Runs(D, have, <<>>) /\ Outs(<<>>) = {}
<1>1. IsSeq(<<>>) /\ Len(<<>>) = 0 /\ ToSet(<<>>) = {}
  BY IsSeqShort
<1> QED BY <1>1 DEF Runs, Outs

LEMMA RunsTwo ==
    ASSUME NEW D, NEW have, NEW x, NEW y, RunsAlone(D, have, x), x.op \in {"write", "tool"},
           RunsAlone(D, have \cup {x.path}, y), y.op \in {"write", "tool"}
    PROVE  Runs(D, have, <<x, y>>) /\ Outs(<<x, y>>) = {x.path, y.path}
<1> DEFINE s == <<x, y>>
<1>1. IsSeq(s) /\ Len(s) = 2 /\ ToSet(s) = {x, y} /\ s[1] = x /\ s[2] = y
  BY IsSeqShort
<1> HIDE DEF s
<1>2. \A i \in 1 .. Len(s) : i = 1 \/ i = 2
  BY <1>1
<1>3. Makes(x, x.path) /\ 1 \in 1 .. 2 - 1
  BY DEF Makes
<1>4. /\ Fresh(D, s[1]) = D[s[1].path] /\ s[1].op # "remove"
      /\ s[1].op = "tool" => s[1].kind # "archive" /\ \A r \in ToSet(s[1].reads) : r \in have
  BY <1>1 DEF RunsAlone
<1>5. /\ Fresh(D, s[2]) = D[s[2].path] /\ s[2].op # "remove"
      /\ s[2].op = "tool" => /\ s[2].kind # "archive"
                             /\ \A r \in ToSet(s[2].reads) :
                                   r \in have \/ \E j \in 1 .. 2 - 1 : Makes(s[j], r)
  BY <1>1, <1>3 DEF RunsAlone
<1>6. Runs(D, have, s)
  <2>1. \A z \in ToSet(s) : z.op # "listing"
    BY <1>1
  <2> QED BY ONLY <1>1, <1>2, <1>4, <1>5, <2>1 DEF Runs
<1>7. Outs(s) = {x.path, y.path}
  BY <1>1 DEF Outs
<1> QED BY <1>6, <1>7 DEF s

\* rm of an archive, and the archive.
LEMMA RunsArchive ==
    ASSUME NEW D, NEW have, NEW p, NEW reads, NEW c, ToSet(reads) \subseteq have,
           Fresh(D, Tool(p, "archive", reads, c)) = D[p]
    PROVE  LET s == <<Delete(p), Tool(p, "archive", reads, c)>> IN
           Runs(D, have, s) /\ Outs(s) = {p}
<1> DEFINE a == Delete(p)
           b == Tool(p, "archive", reads, c)
<1>1. /\ a.op = "remove" /\ a.path = p /\ b.op = "tool" /\ b.kind = "archive" /\ b.path = p
      /\ b.reads = reads /\ Fresh(D, b) = D[p] /\ a = Delete(p)
  BY DEF Delete, Tool
<1> HIDE DEF a, b
<1>2. IsSeq(<<a, b>>) /\ Len(<<a, b>>) = 2 /\ ToSet(<<a, b>>) = {a, b}
      /\ <<a, b>>[1] = a /\ <<a, b>>[2] = b
  BY IsSeqShort
<1>3. Makes(b, p)
  BY <1>1 DEF Makes
<1> DEFINE s == <<a, b>>
<1>4. /\ IsSeq(s) /\ Len(s) = 2 /\ ToSet(s) = {a, b} /\ s[1] = a /\ s[2] = b
  BY <1>2
<1> HIDE DEF s
<1>5. Runs(D, have, s)
  <2>1. \A i \in 1 .. Len(s) : i = 1 \/ i = 2
    BY <1>4
  <2>2. s[1].op = "remove" /\ 1 < Len(s) /\ Makes(s[1 + 1], s[1].path)
    BY <1>1, <1>3, <1>4
  <2>3. /\ s[2].op = "tool" /\ Fresh(D, s[2]) = D[s[2].path] /\ s[2 - 1] = Delete(s[2].path)
        /\ \A r \in ToSet(s[2].reads) : r \in have
    BY <1>1, <1>4
  <2> QED BY ONLY <1>4, <2>1, <2>2, <2>3 DEF Runs
<1>6. Outs(s) = {p}
  BY ONLY <1>1, <1>4 DEF Outs
<1> QED BY <1>5, <1>6 DEF s, a, b

\* Steps that read nothing.
LEMMA RunsEach ==
    ASSUME NEW D, NEW have, NEW s, IsSeq(s), NEW f, f = [i \in DOMAIN s |-> f[i]],
           \A i \in DOMAIN s : RunsAlone(D, {}, f[i]) /\ f[i].op = "tool"
    PROVE  /\ Runs(D, have, f)
           /\ \A p : p \in Outs(f) <=> \E i \in DOMAIN s : p = f[i].path
<1>1. Len(s) \in Nat /\ DOMAIN s = 1 .. Len(s)
  BY SeqIsSeq DEF IsSeq
<1>2. f \in [1 .. Len(s) -> ToSet(f)]
  <2>1. \A i \in DOMAIN s : f[i] \in ToSet(f)
    BY DEF ToSet
  <2> QED BY ONLY <1>1, <2>1, f = [i \in DOMAIN s |-> f[i]]
<1>3. IsSeq(f) /\ Len(f) = Len(s)
  <2> DEFINE X == ToSet(f)
  <2>1. f \in Seq(X) /\ Len(f) = Len(s)
    <3> HIDE DEF X
    <3>1. f \in [1 .. Len(s) -> X]
      BY <1>2 DEF X
    <3> QED BY ONLY <1>1, <3>1
  <2> QED BY <2>1 DEF IsSeq
<1>4. \A y \in ToSet(f) : \E i \in DOMAIN s : y = f[i]
  <2>1. DOMAIN f = DOMAIN s
    OBVIOUS
  <2> QED BY <2>1 DEF ToSet
<1>5. \A i \in DOMAIN s : f[i] \in ToSet(f)
  BY ONLY <1>1, <1>2
<1> QED
  BY ONLY <1>1, <1>3, <1>4, <1>5,
     \A i \in DOMAIN s : RunsAlone(D, {}, f[i]) /\ f[i].op = "tool", SMTT(30)
        DEF Runs, RunsAlone, Outs

\* Steps that run from the files f.
LEMMA RunsFlow ==
    ASSUME NEW D, NEW have, NEW s, Runs(D, have, s), NEW f, NEW goal,
           \A r \in have \cap DOMAIN f : f[r] = D[r], goal \subseteq have \cup Outs(s)
    PROVE  /\ Flow(D, s, f, goal)
           /\ goal \subseteq Outs(s) => Whole(s, f, goal)
<1>1. IsSeq(s) /\ Len(s) \in Nat
  BY SeqIsSeq DEF Runs, IsSeq
<1>2. \A p \in Outs(s) : \E j \in 1 .. Len(s) : Makes(s[j], p)
  BY <1>1, OutsIs
<1>3. \A r \in have : \A i : Sure(D, s, f, r, i)
  BY DEF Sure
<1>4. ASSUME NEW i \in 1 .. Len(s), s[i].op = "tool", NEW r \in ToSet(s[i].reads)
      PROVE  Sure(D, s, f, r, i)
  BY <1>3, <1>4 DEF Runs, Sure
<1>5. \A r \in goal : Sure(D, s, f, r, Len(s) + 1)
  <2>1. (Len(s) + 1) - 1 = Len(s)
    BY <1>1
  <2> QED BY <1>2, <1>3, <2>1 DEF Sure
<1>6. \A i \in 1 .. Len(s) : s[i].op = "tool" /\ s[i].kind = "archive" =>
               i > 1 /\ s[i - 1] = Delete(s[i].path)
  BY DEF Runs
<1>7. \A i \in 1 .. Len(s) : s[i].op \in {"write", "tool"} => Fresh(D, s[i]) = D[s[i].path]
  BY DEF Runs
<1>8. Flow(D, s, f, goal)
  BY ONLY <1>1, <1>4, <1>5, <1>6, <1>7 DEF Flow
<1>9. goal \subseteq Outs(s) => Whole(s, f, goal)
  BY <1>2 DEF Whole, Runs
<1> QED BY <1>8, <1>9

-----------------------------------------------------------------------------
(* What a step of a command leaves alone: the paths and the contents that  *)
(* its options and its unit say.                                           *)

SameCommand == o' = o /\ unit' = unit /\ before' = before

LEMMA SamePaths ==
    ASSUME SameCommand
    PROVE  /\ ObjectPath' = ObjectPath /\ PackagePath' = PackagePath
           /\ PackageObject' = PackageObject /\ JoinedObject' = JoinedObject
           /\ LibraryPath' = LibraryPath /\ StubPath' = StubPath
           /\ ObjectSuffix' = ObjectSuffix
           /\ \A n : Extracted(n)' = Extracted(n)
<1>1. o' = o /\ unit' = unit /\ before' = before
  BY DEF SameCommand
<1>2. ObjectSuffix' = ObjectSuffix
  BY <1>1 DEF ObjectSuffix
<1>3. ObjectPath' = ObjectPath /\ PackagePath' = PackagePath /\ PackageObject' = PackageObject
  BY <1>1, <1>2 DEF ObjectPath, PackagePath, PackageObject
<1>4. JoinedObject' = JoinedObject
  BY <1>1, <1>2 DEF JoinedObject
<1>5. LibraryPath' = LibraryPath
  BY <1>1, <1>2 DEF LibraryPath
<1>6. StubPath' = StubPath
  BY <1>1, <1>2 DEF StubPath
<1>7. \A n : Extracted(n)' = Extracted(n)
  BY <1>1, <1>2 DEF Extracted
<1> QED BY <1>2, <1>3, <1>4, <1>5, <1>6, <1>7

LEMMA SameFacts ==
    ASSUME SameCommand
    PROVE  /\ link_facts' = link_facts
           /\ \A m : Archive(m)' = Archive(m)
<1>1. o' = o /\ unit' = unit /\ before' = before
  BY DEF SameCommand
<1>2. link_facts' = link_facts
  BY <1>1 DEF link_facts
<1>3. \A m : Archive(m)' = Archive(m)
  BY <1>1, SamePaths DEF Archive
<1> QED BY <1>2, <1>3

LEMMA SameWanted ==
    ASSUME SameCommand
    PROVE  Wanted' = Wanted
<1>1. o' = o /\ unit' = unit /\ before' = before
  BY DEF SameCommand
<1>2. ArchiveWanted' = ArchiveWanted
  BY <1>1, SamePaths DEF ArchiveWanted, On
<1>3. Extra' = Extra
  BY <1>1 DEF Extra
<1>4. \A k : Linked(k)' = Linked(k)
  BY <1>1, <1>3 DEF Linked
<1>5. LibraryWanted' = LibraryWanted
  BY <1>1, <1>2, <1>4 DEF LibraryWanted, On
<1>6. Header' = Header
  BY <1>1 DEF Header
<1>7. Wanted' = Wanted
  BY <1>1, <1>4, <1>5, <1>6, SamePaths DEF Wanted, On
<1> QED BY <1>7

LEMMA SameApart ==
    ASSUME SameCommand
    PROVE  Apart' = Apart
<1>1. o' = o /\ unit' = unit /\ before' = before
  BY DEF SameCommand
<1>2. Between' = Between
  BY <1>1, SamePaths DEF Between
<1>3. Outputs' = Outputs
  BY <1>1, SamePaths, SameWanted DEF Outputs
<1> QED BY <1>1, <1>2, <1>3, SamePaths DEF Apart

\* The steps of a bundle.
Members(listing) == [i \in DOMAIN Kept(listing) |-> Extracted(Kept(listing)[i])]

Extracts(listing) ==
    [i \in DOMAIN Kept(listing) |->
        Tool(Members(listing)[i], "member", <<>>,
             Command(<<"llvm-ar", "x", "--output", "library", Kept(listing)[i]>>, 0, 0))]

Parts(object, listing) == <<object, StubPath>> \o Members(listing)

Join(object, listing) ==
    Tool(JoinedObject, "joined", Parts(object, listing),
         relocatable_command(o.target, Inputs(object, JoinedObject, <<>>),
                             JoinedObject, Parts(object, listing)))

LEMMA BundleIs ==
    ASSUME NEW object, NEW listing
    PROVE  bundle(object, listing) =
              IF target_info[o.target].format = "COFF"
              THEN Extracts(listing) \o Archive(Parts(object, listing))
              ELSE Extracts(listing) \o link_facts \o <<Join(object, listing)>>
                   \o Archive(<<JoinedObject>>)
<1> DEFINE kept    == Kept(listing)
           paths   == [i \in DOMAIN kept |-> Extracted(kept[i])]
           argv(i) == <<"llvm-ar", "x", "--output", "library", kept[i]>>
           extract == [i \in DOMAIN kept |->
                        Tool(paths[i], "member", <<>>, Command(argv(i), 0, 0))]
           objects == <<object, StubPath>> \o paths
           joined  == Plus(unit.base, <<".bundled">> \o ObjectSuffix)
           x == Tool(joined, "joined", objects,
                     relocatable_command(o.target,
                            Inputs(object, joined, <<>>), joined, objects))
<1>1. bundle(object, listing) = IF target_info[o.target].format = "COFF"
        THEN extract \o Archive(objects)
        ELSE extract \o link_facts \o <<x>> \o Archive(<<joined>>)
  BY DEF bundle
<1>2. paths = Members(listing)
  BY DEF Members
<1>3. extract = Extracts(listing)
  BY DEF Extracts, Members
<1>4. joined = JoinedObject
  BY DEF JoinedObject
<1>5. objects = Parts(object, listing)
  <2> HIDE DEF paths
  <2> QED BY <1>2 DEF Parts
<1>6. x = Join(object, listing)
  <2> HIDE DEF objects, joined
  <2> QED BY <1>4, <1>5 DEF Join
<1> HIDE DEF extract, objects, joined, x
<1> QED BY <1>1, <1>3, <1>4, <1>5, <1>6

\* The steps of the bundle that a library asks for.
Bundle(l) ==
    IF target_info[o.target].format = "COFF"
    THEN Extracts(l) \o Archive(Parts(ObjectPath, l))
    ELSE Extracts(l) \o link_facts \o <<Join(ObjectPath, l)>> \o Archive(<<JoinedObject>>)

LEMMA BundleHere == bundle(ObjectPath, RuntimeMembers) = Bundle(RuntimeMembers)
<1> DEFINE l == RuntimeMembers
<1> HIDE DEF l
<1>1. bundle(ObjectPath, l) = Bundle(l)
  BY BundleIs DEF Bundle
<1> QED BY <1>1 DEF l

LEMMA SameBundle ==
    ASSUME SameCommand
    PROVE  bundle(ObjectPath, RuntimeMembers)' = bundle(ObjectPath, RuntimeMembers)
<1> DEFINE l == RuntimeMembers
<1>1. o' = o /\ unit' = unit /\ before' = before
  BY DEF SameCommand
<1>2. bundle(ObjectPath, l) = Bundle(l)
  BY BundleHere
<1>3. (bundle(ObjectPath, l) = Bundle(l))'
  BY BundleHere, PTL
<1>4. Members(l)' = Members(l)
  BY SamePaths DEF Members
<1>5. Extracts(l)' = Extracts(l)
  BY <1>4 DEF Extracts
<1>6. Parts(ObjectPath, l)' = Parts(ObjectPath, l)
  BY <1>4, SamePaths DEF Parts
<1>7. Join(ObjectPath, l)' = Join(ObjectPath, l)
  BY <1>1, <1>6, SamePaths DEF Join, Inputs
<1>8. /\ Archive(Parts(ObjectPath, l))' = Archive(Parts(ObjectPath, l))
      /\ Archive(<<JoinedObject>>)' = Archive(<<JoinedObject>>)
  BY <1>6, SamePaths, SameFacts
<1>9. Bundle(l)' = Bundle(l)
  BY <1>1, <1>5, <1>7, <1>8, SamePaths, SameFacts DEF Bundle
<1> QED BY <1>2, <1>3, <1>9

-----------------------------------------------------------------------------
(* The files of a build lie beside each other under different names.       *)

\* p is b with the suffixes s after its own.
Longer(p, b, s) ==
    /\ IsPath(p) /\ p.dir = b.dir /\ p.name = b.name
    /\ Len(b.suffix) \in Nat /\ Len(s) \in Nat
    /\ Len(p.suffix) = Len(b.suffix) + Len(s)
    /\ \A i \in 1 .. Len(s) : p.suffix[Len(b.suffix) + i] = s[i]
    /\ \A i \in 1 .. Len(b.suffix) : p.suffix[i] = b.suffix[i]

LEMMA PlusIs ==
    ASSUME NEW b, IsPath(b), NEW s, IsSeq(s)
    PROVE  Longer(Plus(b, s), b, s)
<1> DEFINE n == Len(b.suffix)
<1>1. PICK p : p = Plus(b, s)
  OBVIOUS
<1>2. p.dir = b.dir /\ p.name = b.name /\ p.suffix = b.suffix \o s
      /\ p = Path(p.dir, p.name, p.suffix)
  BY <1>1 DEF Plus, IsPath, Path
<1>3. IsSeq(p.suffix) /\ n \in Nat /\ Len(s) \in Nat /\ Len(p.suffix) = n + Len(s)
  BY <1>2, IsSeqConcat DEF IsPath
<1>4. /\ \A i \in 1 .. Len(s) : p.suffix[n + i] = s[i]
      /\ \A i \in 1 .. n : p.suffix[i] = b.suffix[i]
  <2> DEFINE t == b.suffix
             X == ToSet(t) \cup ToSet(s)
  <2>1. ToSet(t) \subseteq X /\ ToSet(s) \subseteq X /\ t \in Seq(ToSet(t)) /\ s \in Seq(ToSet(s))
    BY DEF IsSeq, IsPath
  <2>2. p.suffix = t \o s
    BY <1>2
  <2> HIDE DEF X, t
  <2>3. t \in Seq(X) /\ s \in Seq(X)
    BY ONLY <2>1
  <2>4. DOMAIN t = 1 .. Len(t) /\ DOMAIN s = 1 .. Len(s)
    BY ONLY <2>3, LenProperties
  <2>5. /\ \A i \in 1 .. Len(s) : p.suffix[Len(t) + i] = s[i]
        /\ \A i \in 1 .. Len(t) : p.suffix[i] = t[i]
    BY ONLY <2>2, <2>3, <2>4, ConcatFacts
  <2> QED BY <2>5 DEF t
<1> QED BY <1>1, <1>2, <1>3, <1>4 DEF IsPath, Longer

\* The suffixes of a target.
LEMMA SuffixIs ==
    ASSUME NEW t \in DOMAIN target_info
    PROVE  /\ \E x \in {".o", ".obj"} : target_info[t].object_suffix = <<x>>
           /\ target_info[t].executable_suffix \in {<<>>, <<".exe">>}
BY DEF target_info, Info

\* A path with k more suffixes than p, the first of which is a.
After1(p, b, a) == p.dir = b.dir /\ Len(p.suffix) = Len(b.suffix) + 1
                   /\ p.suffix[Len(b.suffix) + 1] = a

After2(p, b, a, c) == p.dir = b.dir /\ Len(p.suffix) = Len(b.suffix) + 2
                      /\ p.suffix[Len(b.suffix) + 1] = a /\ p.suffix[Len(b.suffix) + 2] = c

LEMMA AfterOne ==
    ASSUME NEW b, IsPath(b), NEW a
    PROVE  After1(Plus(b, <<a>>), b, a) /\ IsPath(Plus(b, <<a>>))
<1>1. IsSeq(<<a>>) /\ Len(<<a>>) = 1 /\ <<a>>[1] = a /\ 1 \in 1 .. 1
  BY IsSeqShort
<1> DEFINE s == <<a>>
<1>2. IsSeq(s) /\ Len(s) = 1 /\ s[1] = a /\ 1 \in 1 .. Len(s)
  BY <1>1
<1> HIDE DEF s
<1>3. Longer(Plus(b, s), b, s)
  BY ONLY <1>2, IsPath(b), PlusIs
<1>4. After1(Plus(b, s), b, a) /\ IsPath(Plus(b, s))
  BY ONLY <1>2, <1>3 DEF After1, Longer
<1> QED BY <1>4 DEF s

LEMMA AfterTwo ==
    ASSUME NEW b, IsPath(b), NEW a, NEW c
    PROVE  After2(Plus(Plus(b, <<a>>), <<c>>), b, a, c)
           /\ After2(Plus(b, <<a>> \o <<c>>), b, a, c)
<1>1. PICK p : p = Plus(b, <<a>>)
  OBVIOUS
<1>2. IsPath(p) /\ After1(p, b, a)
  BY <1>1, AfterOne
<1>3. After1(Plus(p, <<c>>), p, c)
  BY <1>2, AfterOne
<1>4. PICK q : q = Plus(p, <<c>>)
  OBVIOUS
<1>5. Len(b.suffix) \in Nat /\ Len(p.suffix) \in Nat
  <2>1. IsSeq(<<c>>)
    BY IsSeqShort
  <2> QED BY ONLY <1>2, <1>4, <2>1, IsPath(b), PlusIs DEF Longer
<1>6. q.suffix[Len(p.suffix)] = p.suffix[Len(p.suffix)]
  <2>1. IsSeq(<<c>>)
    BY IsSeqShort
  <2>2. \A i \in 1 .. Len(p.suffix) : q.suffix[i] = p.suffix[i]
    BY ONLY <1>2, <1>4, <2>1, PlusIs DEF Longer
  <2>3. Len(p.suffix) \in 1 .. Len(p.suffix)
    BY <1>2, <1>5 DEF After1
  <2> QED BY <2>2, <2>3
<1>7. After2(q, b, a, c)
  BY <1>2, <1>3, <1>4, <1>5, <1>6 DEF After1, After2
<1>8. After2(Plus(b, <<a>> \o <<c>>), b, a, c)
  <2> DEFINE s == <<a>> \o <<c>>
  <2>1. IsSeq(s) /\ Len(s) = 2 /\ s[1] = a /\ s[2] = c
    <3> DEFINE d == <<a>>
               e == <<c>>
               X == {a, c}
    <3>1. d \in Seq(X) /\ e \in Seq(X) /\ Len(d) = 1 /\ Len(e) = 1 /\ d[1] = a /\ e[1] = c
          /\ 1 \in DOMAIN d /\ 1 \in DOMAIN e
      OBVIOUS
    <3> HIDE DEF d, e, X
    <3>2. /\ d \o e \in Seq(X) /\ Len(d \o e) = 1 + 1
          /\ (d \o e)[1] = d[1] /\ (d \o e)[1 + 1] = e[1]
      BY ONLY <3>1, ConcatFacts
    <3>3. IsSeq(d \o e)
      BY ONLY <3>2, SeqIsSeq
    <3> QED BY <3>1, <3>2, <3>3 DEF d, e
  <2> HIDE DEF s
  <2>2. PICK r : r = Plus(b, s)
    OBVIOUS
  <2>3. 1 \in 1 .. Len(s) /\ 2 \in 1 .. Len(s)
    BY <2>1
  <2>5. Longer(r, b, s)
    BY ONLY <2>1, <2>2, IsPath(b), PlusIs
  <2>4. After2(r, b, a, c)
    BY ONLY <2>1, <2>3, <2>5 DEF After2, Longer
  <2> QED BY <2>2, <2>4 DEF s
<1> QED BY <1>1, <1>4, <1>7, <1>8

\* The paths of a build, by the suffixes that follow the base.
Sides(b, os) ==
    /\ After1(Plus(b, <<".s">>), b, ".s") /\ After1(ObjectPath, b, os)
    /\ After1(Plus(b, <<".h">>), b, ".h") /\ After1(Plus(b, <<".def">>), b, ".def")
    /\ After2(Plus(PackagePath, <<".s">>), b, ".package", ".s")
    /\ After2(PackageObject, b, ".package", os)
    /\ After2(JoinedObject, b, ".bundled", os)
    /\ \A n : /\ Extracted(n).dir # b.dir /\ Extracted(n).name = n
              /\ Extracted(n).suffix = <<os>>

LEMMA SidesAre ==
    ASSUME IsPath(unit.base), o \in Options
    PROVE  \E os \in {".o", ".obj"} : ObjectSuffix = <<os>> /\ Sides(unit.base, os)
<1>1. PICK os \in {".o", ".obj"} : ObjectSuffix = <<os>>
  BY SuffixIs DEF ObjectSuffix, Options
<1>2. PICK b : b = unit.base
  OBVIOUS
<1>3. IsPath(b)
  BY <1>2
<1>4. /\ After1(Plus(b, <<".s">>), b, ".s") /\ After1(Plus(b, <<os>>), b, os)
      /\ After1(Plus(b, <<".h">>), b, ".h") /\ After1(Plus(b, <<".def">>), b, ".def")
  BY ONLY <1>3, AfterOne
<1>5. ObjectPath = Plus(b, <<os>>)
  BY <1>1, <1>2 DEF ObjectPath
<1>6. /\ Plus(PackagePath, <<".s">>) = Plus(Plus(b, <<".package">>), <<".s">>)
      /\ PackageObject = Plus(Plus(b, <<".package">>), <<os>>)
      /\ JoinedObject = Plus(b, <<".bundled">> \o <<os>>)
  BY <1>1, <1>2 DEF PackagePath, PackageObject, JoinedObject
<1>7. /\ After2(Plus(Plus(b, <<".package">>), <<".s">>), b, ".package", ".s")
      /\ After2(Plus(Plus(b, <<".package">>), <<os>>), b, ".package", os)
      /\ After2(Plus(b, <<".bundled">> \o <<os>>), b, ".bundled", os)
  BY ONLY <1>3, AfterTwo
<1>8. \A n : /\ Extracted(n).dir # b.dir /\ Extracted(n).name = n
             /\ Extracted(n).suffix = <<os>>
  <2> TAKE n
  <2> DEFINE d == b.dir
             X == ToSet(d) \cup {b.name \o ".rt"}
  <2>1. Extracted(n) = Path(Append(d, b.name \o ".rt"), n, <<os>>)
    BY <1>1, <1>2 DEF Extracted
  <2>2. Extracted(n).dir = Append(d, b.name \o ".rt") /\ Extracted(n).name = n
        /\ Extracted(n).suffix = <<os>>
    BY <2>1 DEF Path
  <2>3. d \in Seq(ToSet(d))
    BY <1>3 DEF IsPath, IsSeq
  <2> DEFINE e == b.name \o ".rt"
  <2> HIDE DEF d, e
  <2>4. Append(d, e) # d
    <3> DEFINE Y == ToSet(d) \cup {e}
    <3>1. d \in Seq(Y) /\ e \in Y
      BY <2>3, SeqWider
    <3> HIDE DEF Y
    <3>2. Len(Append(d, e)) = Len(d) + 1 /\ Len(d) \in Nat
      BY ONLY <3>1, AppendProperties, LenProperties
    <3> QED BY <3>2
  <2> QED BY <2>2, <2>4 DEF d, e
<1> QED BY <1>1, <1>2, <1>4, <1>5, <1>6, <1>7, <1>8 DEF Sides

\* What every file of a build is to hold while it is built.
PackageText == [kind |-> "package", of |-> unit.package]
DefText     == [kind |-> "def", version |-> unit.asm.version]
JoinedText  == [kind |-> "joined",
                from |-> <<ObjectOf(unit.asm), before[StubPath]>> \o Bundled]
Side(suffix) == Plus(unit.base, <<suffix>>)
PackageSide  == Plus(PackagePath, <<".s">>)
Unpacked == {Extracted(Kept(RuntimeMembers)[i]) : i \in DOMAIN Kept(RuntimeMembers)}

HeldIn(p) ==
    IF p = Side(".s") THEN unit.asm
    ELSE IF p = ObjectPath THEN ObjectOf(unit.asm)
    ELSE IF p = Side(".h") THEN Header
    ELSE IF p = Side(".def") THEN DefText
    ELSE IF p = PackageSide THEN PackageText
    ELSE IF p = PackageObject THEN ObjectOf(PackageText)
    ELSE IF p = JoinedObject THEN JoinedText
    ELSE IF p \in Unpacked THEN [kind |-> "rt", name |-> p.name]
    ELSE IF p \in DOMAIN Wanted THEN Wanted[p]
    ELSE IF p \in Outputs THEN Linked("shared")
    ELSE before[p]

Taken == ToSet(o.objects) \cup {StubPath}

Held == [p \in Between \cup Outputs \cup Taken |-> HeldIn(p)]

LEMMA BetweenIs ==
    Between = {Side(".s"), ObjectPath, Side(".h"), Side(".def"), PackageSide,
               PackageObject, JoinedObject} \cup Unpacked
BY DEF Between, Side, PackageSide, Unpacked

LEMMA HeldIs ==
    ASSUME IsPath(unit.base), o \in Options, Apart
    PROVE  /\ Held[Side(".s")] = unit.asm /\ Held[ObjectPath] = ObjectOf(unit.asm)
           /\ Held[Side(".h")] = Header /\ Held[Side(".def")] = DefText
           /\ Held[PackageSide] = PackageText
           /\ Held[PackageObject] = ObjectOf(PackageText)
           /\ Held[JoinedObject] = JoinedText
           /\ \A p \in Unpacked : Held[p] = [kind |-> "rt", name |-> p.name]
           /\ \A p \in Taken : Held[p] = before[p]
           /\ \A p \in DOMAIN Wanted \ Between : Held[p] = Wanted[p]
           /\ \A p \in Outputs \ (DOMAIN Wanted \cup Between) : Held[p] = Linked("shared")
<1>1. PICK os \in {".o", ".obj"} : Sides(unit.base, os)
  BY SidesAre
<1>2. PICK b : b = unit.base
  OBVIOUS
<1>3. /\ After1(Side(".s"), b, ".s") /\ After1(ObjectPath, b, os)
      /\ After1(Side(".h"), b, ".h") /\ After1(Side(".def"), b, ".def")
      /\ After2(PackageSide, b, ".package", ".s")
      /\ After2(PackageObject, b, ".package", os)
      /\ After2(JoinedObject, b, ".bundled", os)
      /\ \A p \in Unpacked : p.dir # b.dir
  BY <1>1, <1>2 DEF Sides, Side, PackageSide, Unpacked
<1>4. Len(b.suffix) \in Nat
  <2>1. IsSeq(b.suffix)
    BY <1>2 DEF IsPath
  <2> QED BY <2>1, SeqIsSeq DEF IsSeq
<1>5. /\ Side(".s") \notin {ObjectPath, Side(".h"), Side(".def"), PackageSide, PackageObject, JoinedObject}
      /\ ObjectPath \notin {Side(".h"), Side(".def"), PackageSide, PackageObject, JoinedObject}
      /\ Side(".h") \notin {Side(".def"), PackageSide, PackageObject, JoinedObject}
      /\ Side(".def") \notin {PackageSide, PackageObject, JoinedObject}
      /\ PackageSide \notin {PackageObject, JoinedObject}
      /\ PackageObject # JoinedObject
  BY ONLY <1>3, <1>4, os \in {".o", ".obj"} DEF After1, After2
<1>6. \A p \in Unpacked : p \notin {Side(".s"), ObjectPath, Side(".h"), Side(".def"), PackageSide,
                                    PackageObject, JoinedObject}
  BY ONLY <1>3 DEF After1, After2
<1>7. \A p \in Between \cup Outputs \cup Taken : Held[p] = HeldIn(p)
  BY DEF Held
<1>8. \A p \in Taken : p \notin Between \cup Outputs
  BY DEF Apart, Taken
<1>9. DOMAIN Wanted \subseteq Outputs
  BY DEF Outputs
<1>10. \A p \in Between : p \in {Side(".s"), ObjectPath, Side(".h"), Side(".def"), PackageSide,
                                 PackageObject, JoinedObject} \/ p \in Unpacked
  BY BetweenIs
<1>11. {Side(".s"), ObjectPath, Side(".h"), Side(".def"), PackageSide,
        PackageObject, JoinedObject} \subseteq Between /\ Unpacked \subseteq Between
  BY BetweenIs
<1>12. /\ HeldIn(Side(".s")) = unit.asm /\ HeldIn(ObjectPath) = ObjectOf(unit.asm)
       /\ HeldIn(Side(".h")) = Header /\ HeldIn(Side(".def")) = DefText
       /\ HeldIn(PackageSide) = PackageText
       /\ HeldIn(PackageObject) = ObjectOf(PackageText)
       /\ HeldIn(JoinedObject) = JoinedText
  BY ONLY <1>5 DEF HeldIn
<1>13. \A p \in Unpacked : HeldIn(p) = [kind |-> "rt", name |-> p.name]
  BY ONLY <1>6 DEF HeldIn
<1>14. \A p \in Taken : HeldIn(p) = before[p]
  BY ONLY <1>8, <1>9, <1>11 DEF HeldIn
<1>15. \A p \in DOMAIN Wanted \ Between : HeldIn(p) = Wanted[p]
  BY ONLY <1>11 DEF HeldIn
<1>16. \A p \in Outputs \ (DOMAIN Wanted \cup Between) : HeldIn(p) = Linked("shared")
  BY ONLY <1>11 DEF HeldIn
<1>17. /\ Held[Side(".s")] = unit.asm /\ Held[ObjectPath] = ObjectOf(unit.asm)
       /\ Held[Side(".h")] = Header /\ Held[Side(".def")] = DefText
       /\ Held[PackageSide] = PackageText
       /\ Held[PackageObject] = ObjectOf(PackageText)
       /\ Held[JoinedObject] = JoinedText
  BY ONLY <1>7, <1>11, <1>12
<1>18. /\ \A p \in Unpacked : Held[p] = [kind |-> "rt", name |-> p.name]
       /\ \A p \in Taken : Held[p] = before[p]
       /\ \A p \in DOMAIN Wanted \ Between : Held[p] = Wanted[p]
       /\ \A p \in Outputs \ (DOMAIN Wanted \cup Between) : Held[p] = Linked("shared")
  BY ONLY <1>7, <1>9, <1>11, <1>13, <1>14, <1>15, <1>16
<1> QED BY ONLY <1>17, <1>18

\* The contents of one file after the other.
Contents(D, s) == [i \in DOMAIN s |-> D[s[i]]]

LEMMA ContentsSeq ==
    ASSUME NEW D, NEW s, IsSeq(s)
    PROVE  IsSeq(Contents(D, s)) /\ Len(Contents(D, s)) = Len(s) /\ DOMAIN Contents(D, s) = 1 .. Len(s)
           /\ Len(s) \in Nat
<1> DEFINE f == Contents(D, s)
<1>1. Len(s) \in Nat /\ DOMAIN s = 1 .. Len(s)
  BY SeqIsSeq DEF IsSeq
<1>2. DOMAIN f = 1 .. Len(s)
  BY <1>1 DEF Contents
<1>3. f \in [1 .. Len(s) -> ToSet(f)]
  <2>1. f = [i \in DOMAIN f |-> f[i]]
    BY DEF Contents
  <2>2. \A i \in DOMAIN f : f[i] \in ToSet(f)
    BY DEF ToSet
  <2> HIDE DEF f
  <2> QED BY ONLY <1>2, <2>1, <2>2
<1>4. f \in Seq(ToSet(f)) /\ Len(f) = Len(s)
  <2> HIDE DEF f
  <2> DEFINE X == ToSet(f)
  <2>1. f \in [1 .. Len(s) -> X]
    BY <1>3
  <2> HIDE DEF X
  <2>2. f \in Seq(X) /\ Len(f) = Len(s)
    BY ONLY <1>1, <2>1
  <2> QED BY <2>2 DEF X
<1> QED BY <1>1, <1>2, <1>4 DEF IsSeq

LEMMA ContentsConcat ==
    ASSUME NEW D, NEW s, NEW t, IsSeq(s), IsSeq(t)
    PROVE  Contents(D, s \o t) = Contents(D, s) \o Contents(D, t)
<1> DEFINE u == s \o t
           a == Contents(D, s)
           b == Contents(D, t)
           M == Len(s)
           N == Len(t)
<1>1. /\ IsSeq(u) /\ Len(u) = M + N /\ M \in Nat /\ N \in Nat
  BY IsSeqConcat
<1>2. /\ IsSeq(a) /\ Len(a) = M /\ DOMAIN a = 1 .. M /\ IsSeq(b) /\ Len(b) = N
      /\ DOMAIN b = 1 .. N /\ DOMAIN s = 1 .. M /\ DOMAIN t = 1 .. N
  BY ContentsSeq, SeqIsSeq DEF IsSeq
<1>3. IsSeq(Contents(D, u)) /\ Len(Contents(D, u)) = M + N
  <2> HIDE DEF u
  <2> QED BY <1>1, ContentsSeq
<1>4. IsSeq(a \o b) /\ Len(a \o b) = M + N
  <2> HIDE DEF a, b
  <2> QED BY <1>2, IsSeqConcat
<1>5. /\ \A i \in 1 .. M : u[i] = s[i]
      /\ \A i \in 1 .. N : u[M + i] = t[i]
  <2> DEFINE X == ToSet(s) \cup ToSet(t)
  <2>1. ToSet(s) \subseteq X /\ ToSet(t) \subseteq X /\ s \in Seq(ToSet(s)) /\ t \in Seq(ToSet(t))
    BY DEF IsSeq
  <2> HIDE DEF X
  <2>2. s \in Seq(X) /\ t \in Seq(X)
    BY ONLY <2>1
  <2> QED BY ONLY <1>2, <2>2, ConcatFacts
<1>6. /\ \A i \in 1 .. M : (a \o b)[i] = a[i]
      /\ \A i \in 1 .. N : (a \o b)[M + i] = b[i]
  <2> HIDE DEF a, b
  <2> DEFINE X == ToSet(a) \cup ToSet(b)
  <2>1. ToSet(a) \subseteq X /\ ToSet(b) \subseteq X /\ a \in Seq(ToSet(a)) /\ b \in Seq(ToSet(b))
    BY <1>2 DEF IsSeq
  <2> HIDE DEF X
  <2>2. a \in Seq(X) /\ b \in Seq(X)
    BY ONLY <2>1
  <2> QED BY ONLY <1>2, <2>2, ConcatFacts
<1>7. DOMAIN u = 1 .. M + N
  <2> HIDE DEF u
  <2> QED BY <1>1, SeqIsSeq DEF IsSeq
<1>8. \A i \in 1 .. M : Contents(D, u)[i] = (a \o b)[i]
  <2> TAKE i \in 1 .. M
  <2>1. i \in DOMAIN u /\ i \in DOMAIN s
    BY <1>1, <1>2, <1>7
  <2>2. Contents(D, u)[i] = D[u[i]] /\ a[i] = D[s[i]]
    <3> HIDE DEF u
    <3> QED BY <2>1 DEF Contents
  <2> HIDE DEF u, a, b
  <2> QED BY <1>5, <1>6, <2>2
<1>9. \A i \in 1 .. N : Contents(D, u)[M + i] = (a \o b)[M + i]
  <2> TAKE i \in 1 .. N
  <2>1. M + i \in DOMAIN u /\ i \in DOMAIN t
    BY <1>1, <1>2, <1>7
  <2>2. Contents(D, u)[M + i] = D[u[M + i]] /\ b[i] = D[t[i]]
    <3> HIDE DEF u, M
    <3> QED BY <2>1 DEF Contents
  <2> HIDE DEF u, a, b
  <2> QED BY <1>5, <1>6, <2>2
<1> DEFINE f == Contents(D, u)
           g == a \o b
<1>10. \A i \in 1 .. M + N : f[i] = g[i]
  <2> TAKE i \in 1 .. M + N
  <2> HIDE DEF f, g
  <2>1. CASE i <= M
    <3>1. i \in 1 .. M
      BY <1>1, <2>1
    <3> QED BY <1>8, <3>1 DEF f, g
  <2>2. CASE ~(i <= M)
    <3>1. i - M \in 1 .. N /\ M + (i - M) = i
      BY <1>1, <2>2
    <3> QED BY <1>9, <3>1 DEF f, g
  <2> QED BY <2>1, <2>2
<1>11. f = g
  <2>1. IsSeq(f) /\ Len(f) = M + N /\ IsSeq(g) /\ Len(g) = M + N
    BY <1>3, <1>4
  <2> HIDE DEF f, g, M, N
  <2> DEFINE X == ToSet(f) \cup ToSet(g)
  <2>2. f \in Seq(X) /\ g \in Seq(X)
    <3>1. f \in Seq(ToSet(f)) /\ g \in Seq(ToSet(g)) /\ ToSet(f) \subseteq X /\ ToSet(g) \subseteq X
      BY <2>1 DEF IsSeq
    <3> HIDE DEF X
    <3> QED BY ONLY <3>1
  <2> HIDE DEF X
  <2> QED BY ONLY <1>10, <2>1, <2>2, SeqEqual
<1> QED BY <1>11

LEMMA ContentsShort ==
    ASSUME NEW D
    PROVE  /\ \A x : Contents(D, <<x>>) = <<D[x]>>
           /\ \A x, y : Contents(D, <<x, y>>) = <<D[x], D[y]>>
BY DEF Contents

\* What D says of the files of a build.
Known(D) ==
    /\ D[Side(".s")] = unit.asm /\ D[ObjectPath] = ObjectOf(unit.asm)
    /\ D[Side(".h")] = Header /\ D[Side(".def")] = DefText
    /\ D[PackageSide] = PackageText /\ D[PackageObject] = ObjectOf(PackageText)
    /\ D[JoinedObject] = JoinedText
    /\ \A p \in Unpacked : D[p] = [kind |-> "rt", name |-> p.name]
    /\ \A p \in Taken : D[p] = before[p]

\* What a tool makes is made of what it reads, one after the other.
LEMMA ToolIs ==
    ASSUME NEW D, NEW p, NEW k, k \notin {"archive", "member"}, NEW reads, NEW c
    PROVE  LET x == Tool(p, k, reads, c) IN
           /\ x.op = "tool" /\ x.path = p /\ x.kind = k /\ x.reads = reads
           /\ Fresh(D, x) = [kind |-> k, from |-> Contents(D, reads)]
<1>1. PICK x : x = Tool(p, k, reads, c)
  OBVIOUS
<1>2. x.op = "tool" /\ x.path = p /\ x.kind = k /\ x.reads = reads
  BY <1>1 DEF Tool
<1>3. Fresh(D, x) = [kind |-> k, from |-> Contents(D, reads)]
  BY <1>2 DEF Fresh, Contents
<1> QED BY <1>1, <1>2, <1>3

LEMMA ToolAlone ==
    ASSUME NEW D, NEW have, NEW p, NEW k, k \notin {"archive", "member"}, NEW reads, NEW c,
           ToSet(reads) \subseteq have, D[p] = [kind |-> k, from |-> Contents(D, reads)]
    PROVE  RunsAlone(D, have, Tool(p, k, reads, c))
<1>1. PICK x : x = Tool(p, k, reads, c)
  OBVIOUS
<1>2. /\ x.op = "tool" /\ x.path = p /\ x.kind = k /\ x.reads = reads
      /\ Fresh(D, x) = [kind |-> k, from |-> Contents(D, reads)]
  BY <1>1, ToolIs
<1> QED BY <1>1, <1>2 DEF RunsAlone

LEMMA WriteAlone ==
    ASSUME NEW D, NEW have, NEW p, NEW c, D[p] = c
    PROVE  RunsAlone(D, have, Write(p, c)) /\ Write(p, c).op = "write" /\ Write(p, c).path = p
BY DEF RunsAlone, Write, Fresh

\* A file and the object that llvm-mc makes of it.
LEMMA RunsAssembled ==
    ASSUME NEW D, NEW have, NEW p, NEW q, NEW c, D[p] = c, D[q] = ObjectOf(c)
    PROVE  LET s == <<Write(p, c), assemble(p, q)>> IN
           Runs(D, have, s) /\ Outs(s) = {p, q}
<1> DEFINE x == Write(p, c)
           y == assemble(p, q)
<1>1. RunsAlone(D, have, x) /\ x.op = "write" /\ x.path = p
  BY WriteAlone
<1>2. ToSet(<<p>>) = {p}
  BY IsSeqShort
<1>3. Contents(D, <<p>>) = <<D[p]>>
  BY ContentsShort
<1>4. D[q] = [kind |-> "object", from |-> Contents(D, <<p>>)]
  BY <1>3 DEF ObjectOf
<1>5. PICK a : y = Tool(q, "object", <<p>>, a)
  BY DEF assemble
<1>6. RunsAlone(D, have \cup {p}, y) /\ y.op = "tool" /\ y.path = q
  <2> DEFINE r == <<p>>
  <2>1. ToSet(r) \subseteq have \cup {p} /\ D[q] = [kind |-> "object", from |-> Contents(D, r)]
        /\ y = Tool(q, "object", r, a)
    BY <1>2, <1>4, <1>5
  <2> HIDE DEF y, r
  <2>2. RunsAlone(D, have \cup {p}, y)
    BY ONLY <2>1, ToolAlone
  <2>3. y.op = "tool" /\ y.path = q
    BY <2>1 DEF Tool
  <2> QED BY <2>2, <2>3
<1> HIDE DEF x, y
<1>7. Runs(D, have, <<x, y>>) /\ Outs(<<x, y>>) = {x.path, y.path}
  BY <1>1, <1>6, RunsTwo
<1> QED BY <1>1, <1>6, <1>7 DEF x, y

LEMMA RunsObject ==
    ASSUME NEW D, Known(D), NEW have
    PROVE  LET s == <<Write(Side(".s"), unit.asm), assemble(Side(".s"), ObjectPath)>> IN
           Runs(D, have, s) /\ Outs(s) = {Side(".s"), ObjectPath}
<1>1. PICK p, q, c : p = Side(".s") /\ q = ObjectPath /\ c = unit.asm
  OBVIOUS
<1>2. D[p] = c /\ D[q] = ObjectOf(c)
  BY <1>1 DEF Known
<1>3. Runs(D, have, <<Write(p, c), assemble(p, q)>>) /\ Outs(<<Write(p, c), assemble(p, q)>>) = {p, q}
  BY <1>2, RunsAssembled
<1> QED BY <1>1, <1>3

LEMMA RunsPackage ==
    ASSUME NEW D, Known(D), NEW have
    PROVE  Runs(D, have, assemble_package)
           /\ Outs(assemble_package) = {PackageSide, PackageObject}
<1>1. PICK p, q, c : p = PackageSide /\ q = PackageObject /\ c = PackageText
  OBVIOUS
<1>2. D[p] = c /\ D[q] = ObjectOf(c)
  BY <1>1 DEF Known
<1>3. Runs(D, have, <<Write(p, c), assemble(p, q)>>) /\ Outs(<<Write(p, c), assemble(p, q)>>) = {p, q}
  BY <1>2, RunsAssembled
<1>4. assemble_package = <<Write(p, c), assemble(p, q)>>
  BY <1>1 DEF assemble_package, PackageSide, PackageObject, PackageText
<1> QED BY <1>1, <1>3, <1>4

\* What a link asks the host, if it has what it needs.
LEMMA RunsFacts ==
    ASSUME NEW D, NEW have
    PROVE  link_facts = <<Fail>> \/ (Runs(D, have, link_facts) /\ Outs(link_facts) = {})
<1>1. link_facts \in {<<Fail>>, <<>>, <<Query, Query>>}
  BY DEF link_facts
<1>2. Runs(D, have, <<>>) /\ Outs(<<>>) = {}
  BY RunsNone
<1>3. Runs(D, have, <<Query, Query>>) /\ Outs(<<Query, Query>>) = {}
  <2>1. Query.op = "query"
    BY DEF Query
  <2>2. IsSeq(<<Query, Query>>) /\ Len(<<Query, Query>>) = 2 /\ ToSet(<<Query, Query>>) = {Query}
    BY IsSeqShort
  <2>3. \A i \in 1 .. 2 : <<Query, Query>>[i] = Query
    OBVIOUS
  <2> DEFINE s == <<Query, Query>>
  <2>4. IsSeq(s) /\ Len(s) = 2 /\ ToSet(s) = {Query} /\ \A i \in 1 .. Len(s) : s[i] = Query
    BY <2>2, <2>3
  <2> HIDE DEF s
  <2>5. Runs(D, have, s) /\ Outs(s) = {}
    BY ONLY <2>1, <2>4 DEF Runs, Outs
  <2> QED BY <2>5 DEF s
<1> QED BY <1>1, <1>2, <1>3

\* A link of the program's object with the inputs of the command line.
LEMMA LinkAlone ==
    ASSUME NEW D, Known(D), o \in Options, NEW p, NEW k \in {"executable", "shared"}, NEW c,
           D[p] = Linked(k), NEW have, Taken \cup {ObjectPath} \subseteq have
    PROVE  RunsAlone(D, have, Tool(p, k, <<ObjectPath>> \o o.objects, c))
<1>1. IsSeq(o.objects) /\ IsSeq(<<ObjectPath>>) /\ ToSet(<<ObjectPath>>) = {ObjectPath}
  BY OptionsObjects, IsSeqShort
<1>2. PICK r : r = <<ObjectPath>> \o o.objects
  OBVIOUS
<1>3. ToSet(r) = {ObjectPath} \cup ToSet(o.objects)
  <2> DEFINE s == <<ObjectPath>>
  <2>1. IsSeq(s) /\ ToSet(s) = {ObjectPath} /\ r = s \o o.objects
    BY <1>1, <1>2
  <2> HIDE DEF s
  <2> QED BY ONLY <1>1, <2>1, IsSeqConcat
<1>4. Contents(D, r) = <<ObjectOf(unit.asm)>> \o Extra
  <2> DEFINE s == <<ObjectPath>>
  <2>1. IsSeq(s) /\ r = s \o o.objects
    BY <1>1, <1>2
  <2>2. Contents(D, s) = <<D[ObjectPath]>>
    BY ContentsShort
  <2> HIDE DEF s
  <2>3. Contents(D, r) = Contents(D, s) \o Contents(D, o.objects)
    BY ONLY <1>1, <2>1, ContentsConcat
  <2>4. Contents(D, o.objects) = Extra
    <3>1. \A i \in DOMAIN o.objects : o.objects[i] \in ToSet(o.objects)
      BY DEF ToSet
    <3>2. \A q \in ToSet(o.objects) : D[q] = before[q]
      BY DEF Known, Taken
    <3>3. \A i \in DOMAIN o.objects : D[o.objects[i]] = before[o.objects[i]]
      BY ONLY <3>1, <3>2
    <3> QED BY ONLY <3>3 DEF Contents, Extra
  <2>5. D[ObjectPath] = ObjectOf(unit.asm)
    BY DEF Known
  <2> QED BY ONLY <2>2, <2>3, <2>4, <2>5
<1>5. D[p] = [kind |-> k, from |-> Contents(D, r)]
  BY <1>4 DEF Linked
<1>6. ToSet(r) \subseteq have
  BY <1>3 DEF Taken
<1>7. RunsAlone(D, have, Tool(p, k, r, c))
  BY ONLY <1>5, <1>6, k \in {"executable", "shared"}, ToolAlone
<1> QED BY <1>2, <1>7

\* The members that llvm-ar takes out of the runtime library.
LEMMA KeptSeq ==
    IsSeq(Kept(RuntimeMembers))
<1>1. IsSeq(RuntimeMembers)
  BY BuildAssumption, SeqIsSeq DEF BuildAssumption
<1> QED BY <1>1, KeptIs

LEMMA RunsExtracts ==
    ASSUME NEW D, Known(D), NEW have
    PROVE  /\ Runs(D, have, Extracts(RuntimeMembers))
           /\ Outs(Extracts(RuntimeMembers)) = Unpacked
<1>1. PICK s : s = Kept(RuntimeMembers)
  OBVIOUS
<1>2. IsSeq(s)
  BY <1>1, KeptSeq
<1>3. PICK f : f = Extracts(RuntimeMembers)
  OBVIOUS
<1>4. f = [i \in DOMAIN s |-> f[i]]
  BY <1>1, <1>3 DEF Extracts
<1>5. ASSUME NEW i \in DOMAIN s
      PROVE  RunsAlone(D, {}, f[i]) /\ f[i].op = "tool" /\ f[i].path = Extracted(s[i])
  <2>1. PICK c : f[i] = Tool(Members(RuntimeMembers)[i], "member", <<>>, c)
    BY <1>1, <1>3 DEF Extracts
  <2>2. Members(RuntimeMembers)[i] = Extracted(s[i])
    BY <1>1 DEF Members
  <2>3. f[i].op = "tool" /\ f[i].path = Extracted(s[i]) /\ f[i].kind = "member" /\ f[i].reads = <<>>
    BY <2>1, <2>2 DEF Tool
  <2>4. D[Extracted(s[i])] = [kind |-> "rt", name |-> Extracted(s[i]).name]
    BY <1>1 DEF Known, Unpacked
  <2>5. ToSet(<<>>) = {}
    BY IsSeqShort
  <2> QED BY <2>3, <2>4, <2>5 DEF RunsAlone, Fresh
<1>6. Runs(D, have, f) /\ \A p : p \in Outs(f) <=> \E i \in DOMAIN s : p = f[i].path
  BY ONLY <1>2, <1>4, <1>5, RunsEach
<1>7. \A p : p \in Unpacked <=> \E i \in DOMAIN s : p = f[i].path
  BY <1>1, <1>5 DEF Unpacked
<1>8. Outs(f) = Unpacked
  BY ONLY <1>6, <1>7
<1> QED BY <1>3, <1>6, <1>8

\* The parts of a bundle: the object, the licence stub and the members.
LEMMA PartsAre ==
    LET r == Parts(ObjectPath, RuntimeMembers) IN
    /\ IsSeq(r) /\ ToSet(r) = {ObjectPath, StubPath} \cup Unpacked
    /\ \A D : Known(D) => Contents(D, r) = <<ObjectOf(unit.asm), before[StubPath]>> \o Bundled
<1>1. PICK m : m = Members(RuntimeMembers)
  OBVIOUS
<1>2. PICK s : s = <<ObjectPath, StubPath>>
  OBVIOUS
<1>3. PICK r : r = s \o m
  OBVIOUS
<1>4. r = Parts(ObjectPath, RuntimeMembers)
  BY <1>1, <1>2, <1>3 DEF Parts
<1>5. PICK k : k = Kept(RuntimeMembers)
  OBVIOUS
<1>6. IsSeq(k) /\ DOMAIN k = 1 .. Len(k) /\ Len(k) \in Nat
  BY <1>5, KeptSeq, SeqIsSeq DEF IsSeq
<1>7. m = [i \in DOMAIN k |-> Extracted(k[i])]
  BY <1>1, <1>5 DEF Members
<1>8. IsSeq(m)
  <2> DEFINE E == [q \in ToSet(k) |-> Extracted(q)]
  <2>1. IsSeq(Contents(E, k))
    BY <1>6, ContentsSeq
  <2>2. \A i \in DOMAIN k : k[i] \in ToSet(k)
    BY DEF ToSet
  <2>3. Contents(E, k) = m
    BY <1>7, <2>2 DEF Contents
  <2> QED BY <2>1, <2>3
<1>9. IsSeq(s) /\ ToSet(s) = {ObjectPath, StubPath}
  BY <1>2, IsSeqShort
<1>10. ToSet(m) = Unpacked
  BY <1>5, <1>7 DEF ToSet, Unpacked
<1>11. IsSeq(r) /\ ToSet(r) = {ObjectPath, StubPath} \cup Unpacked
  BY ONLY <1>3, <1>8, <1>9, <1>10, IsSeqConcat
<1>12. ASSUME NEW D, Known(D)
       PROVE  Contents(D, r) = <<ObjectOf(unit.asm), before[StubPath]>> \o Bundled
  <2>1. Contents(D, r) = Contents(D, s) \o Contents(D, m)
    BY ONLY <1>3, <1>8, <1>9, ContentsConcat
  <2>2. Contents(D, s) = <<D[ObjectPath], D[StubPath]>>
    BY <1>2, ContentsShort
  <2>3. D[ObjectPath] = ObjectOf(unit.asm) /\ D[StubPath] = before[StubPath]
    BY <1>12 DEF Known, Taken
  <2>4. Contents(D, m) = Bundled
    <3>1. \A i \in DOMAIN k : D[Extracted(k[i])] = [kind |-> "rt", name |-> k[i]]
      <4> TAKE i \in DOMAIN k
      <4>1. D[Extracted(k[i])] = [kind |-> "rt", name |-> Extracted(k[i]).name]
        BY <1>5, <1>12 DEF Known, Unpacked
      <4>2. Extracted(k[i]).name = k[i]
        BY DEF Extracted, Path
      <4> QED BY <4>1, <4>2
    <3>2. Contents(D, m) = [i \in DOMAIN k |-> [kind |-> "rt", name |-> k[i]]]
      BY <1>7, <3>1 DEF Contents
    <3> QED BY <1>5, <3>2 DEF Bundled
  <2> QED BY <2>1, <2>2, <2>3, <2>4
<1> QED BY <1>4, <1>11, <1>12

LEMMA JoinAlone ==
    ASSUME NEW D, Known(D), NEW have, Taken \cup {ObjectPath} \cup Unpacked \subseteq have
    PROVE  RunsAlone(D, have, Join(ObjectPath, RuntimeMembers))
           /\ Join(ObjectPath, RuntimeMembers).op = "tool"
           /\ Join(ObjectPath, RuntimeMembers).path = JoinedObject
<1>1. PICK r : r = Parts(ObjectPath, RuntimeMembers)
  OBVIOUS
<1>2. ToSet(r) = {ObjectPath, StubPath} \cup Unpacked
      /\ Contents(D, r) = <<ObjectOf(unit.asm), before[StubPath]>> \o Bundled
  BY <1>1, PartsAre
<1>3. PICK c : Join(ObjectPath, RuntimeMembers) = Tool(JoinedObject, "joined", r, c)
  BY <1>1 DEF Join
<1>4. D[JoinedObject] = [kind |-> "joined", from |-> Contents(D, r)]
  BY <1>2 DEF Known, JoinedText
<1>5. ToSet(r) \subseteq have
  BY <1>2 DEF Taken
<1>6. RunsAlone(D, have, Tool(JoinedObject, "joined", r, c))
  BY ONLY <1>4, <1>5, ToolAlone
<1> QED BY <1>3, <1>6 DEF Tool

\* The archive of a static library: removed, and made of its members.
MembersOf(D, S) == {Member(D, p) : p \in S}

LEMMA RunsArchived ==
    ASSUME NEW D, NEW have, NEW members, IsSeq(members),
           ToSet(members) \cup {PackageObject} \subseteq have,
           D[LibraryPath] = [kind |-> "archive",
                             members |-> MembersOf(D, ToSet(members) \cup {PackageObject})]
    PROVE  Runs(D, have, Archive(members)) /\ Outs(Archive(members)) = {LibraryPath}
<1>1. PICK reads : reads = Append(members, PackageObject)
  OBVIOUS
<1>2. ToSet(reads) = ToSet(members) \cup {PackageObject}
  <2> DEFINE s == <<PackageObject>>
  <2>1. IsSeq(s) /\ ToSet(s) = {PackageObject}
    BY IsSeqShort
  <2>2. reads = members \o s
    <3>1. members \in Seq(ToSet(members))
      BY DEF IsSeq
    <3> DEFINE X == ToSet(members) \cup {PackageObject}
    <3>2. members \in Seq(X) /\ PackageObject \in X
      BY <3>1, SeqWider
    <3> HIDE DEF X
    <3> QED BY ONLY <1>1, <3>2 DEF s
  <2> HIDE DEF s
  <2> QED BY ONLY <2>1, <2>2, IsSeq(members), IsSeqConcat
<1>3. PICK c : Archive(members) = <<Delete(LibraryPath), Tool(LibraryPath, "archive", reads, c)>>
  BY <1>1 DEF Archive, PackageObject
<1>4. Fresh(D, Tool(LibraryPath, "archive", reads, c)) = D[LibraryPath]
  <2>1. PICK x : x = Tool(LibraryPath, "archive", reads, c)
    OBVIOUS
  <2>2. x.op = "tool" /\ x.kind = "archive" /\ x.reads = reads
    BY <2>1 DEF Tool
  <2>3. Fresh(D, x) = [kind |-> "archive", members |-> MembersOf(D, ToSet(reads))]
    BY <2>2 DEF Fresh, MembersOf
  <2> QED BY <1>2, <2>1, <2>3
<1>5. LET s == <<Delete(LibraryPath), Tool(LibraryPath, "archive", reads, c)>> IN
      Runs(D, have, s) /\ Outs(s) = {LibraryPath}
  BY ONLY <1>2, <1>4, ToSet(members) \cup {PackageObject} \subseteq have, RunsArchive
<1> QED BY <1>3, <1>5

\* The members an archive is to have are those of the parts it is made of.
PartsOfArchive ==
    IF ~On("--bundle-runtime") THEN {ObjectPath}
    ELSE IF target_info[o.target].format = "COFF" THEN {ObjectPath, StubPath} \cup Unpacked
    ELSE {JoinedObject}

LEMMA ArchiveWantedIs ==
    ASSUME NEW D, Known(D)
    PROVE  MembersOf(D, PartsOfArchive \cup {PackageObject}) = ArchiveWanted
<1>1. MembersOf(D, PartsOfArchive \cup {PackageObject})
         = MembersOf(D, PartsOfArchive) \cup {Member(D, PackageObject)}
  BY DEF MembersOf
<1>2. Member(D, PackageObject) = <<MemberName(PackageObject), ObjectOf(PackageText)>>
  BY DEF Member, Known
<1>3. Member(D, ObjectPath) = <<MemberName(ObjectPath), ObjectOf(unit.asm)>>
  BY DEF Member, Known
<1>4. Member(D, StubPath) = Member(before, StubPath)
  BY DEF Member, Known, Taken
<1>5. Member(D, JoinedObject) = <<MemberName(JoinedObject), JoinedText>>
  BY DEF Member, Known
<1> DEFINE B == {<<MemberName(Extracted(Bundled[i].name)), Bundled[i]>> : i \in DOMAIN Bundled}
<1>6. MembersOf(D, Unpacked) = B
  <2>1. PICK k : k = Kept(RuntimeMembers)
    OBVIOUS
  <2>2. DOMAIN Bundled = DOMAIN k /\ \A i \in DOMAIN k : Bundled[i] = [kind |-> "rt", name |-> k[i]]
    BY <2>1 DEF Bundled
  <2>3. \A i \in DOMAIN k : Member(D, Extracted(k[i]))
                               = <<MemberName(Extracted(Bundled[i].name)), Bundled[i]>>
    <3> TAKE i \in DOMAIN k
    <3>1. D[Extracted(k[i])] = [kind |-> "rt", name |-> Extracted(k[i]).name]
      BY <2>1 DEF Known, Unpacked
    <3>2. Extracted(k[i]).name = k[i]
      BY DEF Extracted, Path
    <3>3. Bundled[i] = [kind |-> "rt", name |-> k[i]] /\ Bundled[i].name = k[i]
      BY <2>2
    <3> QED BY <3>1, <3>2, <3>3 DEF Member
  <2>4. MembersOf(D, Unpacked) = {Member(D, Extracted(k[i])) : i \in DOMAIN k}
    BY <2>1 DEF MembersOf, Unpacked
  <2> QED BY <2>2, <2>3, <2>4
<1> HIDE DEF B
<1> DEFINE W == IF ~On("--bundle-runtime") THEN {<<MemberName(ObjectPath), ObjectOf(unit.asm)>>}
                ELSE IF target_info[o.target].format = "COFF"
                THEN {<<MemberName(ObjectPath), ObjectOf(unit.asm)>>, Member(before, StubPath)} \cup B
                ELSE {<<MemberName(JoinedObject), JoinedText>>}
<1>7. MembersOf(D, PartsOfArchive) = W
  <2>1. MembersOf(D, {ObjectPath}) = {Member(D, ObjectPath)}
    BY DEF MembersOf
  <2>2. MembersOf(D, {JoinedObject}) = {Member(D, JoinedObject)}
    BY DEF MembersOf
  <2>3. MembersOf(D, {ObjectPath, StubPath} \cup Unpacked)
           = {Member(D, ObjectPath), Member(D, StubPath)} \cup MembersOf(D, Unpacked)
    BY DEF MembersOf
  <2> QED BY <1>3, <1>4, <1>5, <1>6, <2>1, <2>2, <2>3 DEF PartsOfArchive
<1>8. ArchiveWanted = {<<MemberName(PackageObject), ObjectOf(PackageText)>>} \cup W
  BY DEF ArchiveWanted, W, B, PackageText, JoinedText
<1> QED BY ONLY <1>1, <1>2, <1>7, <1>8

\* Steps that a missing file of the host ends, or that make what D says.
Doomed(s) == IsSeq(s) /\ \E x \in ToSet(s) : x.op = "fail"

Goes(D, have, s, outs) ==
    /\ IsSeq(s) /\ \A x \in ToSet(s) : x.op # "listing"
    /\ Doomed(s) \/ (Runs(D, have, s) /\ Outs(s) = outs)

LEMMA GoesRuns ==
    ASSUME NEW D, NEW have, NEW s, Runs(D, have, s)
    PROVE  Goes(D, have, s, Outs(s))
BY DEF Goes, Runs

LEMMA GoesConcat ==
    ASSUME NEW D, NEW have, NEW s, NEW t, NEW S, NEW T, Goes(D, have, s, S),
           Goes(D, have \cup S, t, T)
    PROVE  Goes(D, have, s \o t, S \cup T)
<1>1. IsSeq(s \o t) /\ ToSet(s \o t) = ToSet(s) \cup ToSet(t)
  BY IsSeqConcat DEF Goes
<1>2. CASE Doomed(s) \/ Doomed(t)
  <2>1. Doomed(s \o t)
    BY <1>1, <1>2 DEF Doomed
  <2> QED BY <1>1, <2>1 DEF Goes
<1>3. CASE ~Doomed(s) /\ ~Doomed(t)
  <2>1. Runs(D, have, s) /\ Outs(s) = S /\ Runs(D, have \cup S, t) /\ Outs(t) = T
    BY <1>3 DEF Goes
  <2>3. Runs(D, have \cup Outs(s), t)
    BY <2>1
  <2>4. Runs(D, have, s \o t)
    BY <2>1, <2>3, RunsConcat
  <2>5. Outs(s \o t) = Outs(s) \cup Outs(t)
    BY <2>1, <2>3, RunsConcat
  <2> QED BY <1>1, <2>1, <2>4, <2>5 DEF Goes
<1> QED BY <1>2, <1>3

LEMMA GoesOne ==
    ASSUME NEW D, NEW have, NEW x, RunsAlone(D, have, x), x.op \in {"write", "tool"}
    PROVE  Goes(D, have, <<x>>, {x.path})
<1>1. Runs(D, have, <<x>>) /\ Outs(<<x>>) = {x.path}
  BY RunsOne
<1> QED BY <1>1 DEF Goes, Runs

LEMMA GoesFacts ==
    ASSUME NEW D, NEW have
    PROVE  Goes(D, have, link_facts, {})
<1>1. CASE link_facts = <<Fail>>
  <2>1. IsSeq(<<Fail>>) /\ ToSet(<<Fail>>) = {Fail} /\ Fail.op = "fail"
    BY IsSeqShort DEF Fail
  <2> QED BY <1>1, <2>1 DEF Goes, Doomed
<1>2. CASE link_facts # <<Fail>>
  BY <1>2, RunsFacts DEF Goes, Runs
<1> QED BY <1>1, <1>2

LEMMA GoesNone ==
    ASSUME NEW D, NEW have
    PROVE  Goes(D, have, <<>>, {})
BY RunsNone DEF Goes, Runs

\* The steps of the bundle.
LEMMA GoesBundle ==
    ASSUME NEW D, Known(D), On("--bundle-runtime"),
           D[LibraryPath] = [kind |-> "archive", members |-> ArchiveWanted],
           NEW have, Taken \cup {ObjectPath, PackageObject} \subseteq have
    PROVE  \E outs : LibraryPath \in outs /\ Goes(D, have, Bundle(RuntimeMembers), outs)
<1>1. PICK l : l = RuntimeMembers
  OBVIOUS
<1>2. Runs(D, have, Extracts(l)) /\ Outs(Extracts(l)) = Unpacked
  BY <1>1, RunsExtracts
<1>3. Goes(D, have, Extracts(l), Unpacked)
  BY <1>2, GoesRuns
<1>4. D[LibraryPath] = [kind |-> "archive",
                        members |-> MembersOf(D, PartsOfArchive \cup {PackageObject})]
  BY ArchiveWantedIs
<1>5. CASE target_info[o.target].format = "COFF"
  <2>1. PICK r : r = Parts(ObjectPath, l)
    OBVIOUS
  <2>2. IsSeq(r) /\ ToSet(r) = {ObjectPath, StubPath} \cup Unpacked
    BY <1>1, <2>1, PartsAre
  <2>3. PartsOfArchive = ToSet(r)
    BY <1>5, <2>2 DEF PartsOfArchive
  <2>4. ToSet(r) \cup {PackageObject} \subseteq have \cup Unpacked
    BY <2>2 DEF Taken
  <2>5. Runs(D, have \cup Unpacked, Archive(r)) /\ Outs(Archive(r)) = {LibraryPath}
    BY ONLY <1>4, <2>2, <2>3, <2>4, RunsArchived
  <2>6. Goes(D, have \cup Unpacked, Archive(r), {LibraryPath})
    BY <2>5, GoesRuns
  <2>7. Goes(D, have, Extracts(l) \o Archive(r), Unpacked \cup {LibraryPath})
    BY ONLY <1>3, <2>6, GoesConcat
  <2>8. Bundle(RuntimeMembers) = Extracts(l) \o Archive(r)
    BY <1>1, <1>5, <2>1 DEF Bundle
  <2> QED BY <2>7, <2>8
<1>6. CASE target_info[o.target].format # "COFF"
  <2>1. PICK j : j = Join(ObjectPath, l)
    OBVIOUS
  <2>2. Goes(D, have \cup Unpacked, link_facts, {})
    BY GoesFacts
  <2>3. Goes(D, have, Extracts(l) \o link_facts, Unpacked \cup {})
    BY ONLY <1>3, <2>2, GoesConcat
  <2>4. Goes(D, have \cup (Unpacked \cup {}), <<j>>, {JoinedObject})
    <3>1. RunsAlone(D, have \cup (Unpacked \cup {}), j) /\ j.op = "tool" /\ j.path = JoinedObject
      <4> DEFINE more == have \cup (Unpacked \cup {})
      <4>1. Taken \cup {ObjectPath} \cup Unpacked \subseteq more
        OBVIOUS
      <4> HIDE DEF more
      <4>2. RunsAlone(D, more, j) /\ j.op = "tool" /\ j.path = JoinedObject
        BY <1>1, <2>1, <4>1, JoinAlone
      <4> QED BY <4>2 DEF more
    <3>2. j.op \in {"write", "tool"}
      BY <3>1
    <3> QED BY ONLY <3>1, <3>2, GoesOne
  <2>5. Goes(D, have, (Extracts(l) \o link_facts) \o <<j>>, (Unpacked \cup {}) \cup {JoinedObject})
    BY ONLY <2>3, <2>4, GoesConcat
  <2>6. PICK m : m = <<JoinedObject>>
    OBVIOUS
  <2>7. IsSeq(m) /\ ToSet(m) = {JoinedObject}
    BY <2>6, IsSeqShort
  <2>8. PartsOfArchive = ToSet(m)
    BY <1>6, <2>7 DEF PartsOfArchive
  <2> DEFINE outs == (Unpacked \cup {}) \cup {JoinedObject}
  <2>9. ToSet(m) \cup {PackageObject} \subseteq have \cup outs
    BY <2>7
  <2> HIDE DEF outs
  <2>10. Runs(D, have \cup outs, Archive(m)) /\ Outs(Archive(m)) = {LibraryPath}
    BY ONLY <1>4, <2>7, <2>8, <2>9, RunsArchived
  <2>11. Goes(D, have \cup outs, Archive(m), {LibraryPath})
    BY <2>10, GoesRuns
  <2>12. Goes(D, have, (Extracts(l) \o link_facts) \o <<j>>, outs)
    BY <2>5 DEF outs
  <2>13. Goes(D, have, ((Extracts(l) \o link_facts) \o <<j>>) \o Archive(m), outs \cup {LibraryPath})
    BY ONLY <2>11, <2>12, GoesConcat
  <2>14. Bundle(RuntimeMembers) = ((Extracts(l) \o link_facts) \o <<j>>) \o Archive(m)
    BY <1>1, <1>6, <2>1, <2>6 DEF Bundle
  <2> QED BY <2>13, <2>14
<1> QED BY <1>5, <1>6

\* The last suffix of every file between, and what is left of the others.
LastOf(p) == p.suffix[Len(p.suffix)]

LEMMA BetweenLast ==
    ASSUME IsPath(unit.base), o \in Options
    PROVE  \A p \in Between : /\ LastOf(p) \in {".s", ".h", ".def", ".o", ".obj"}
                              /\ \/ p.dir # unit.base.dir
                                 \/ Len(p.suffix) > Len(unit.base.suffix)
<1>1. PICK os \in {".o", ".obj"} : Sides(unit.base, os)
  BY SidesAre
<1>2. PICK b : b = unit.base
  OBVIOUS
<1>3. Len(b.suffix) \in Nat
  <2>1. IsSeq(b.suffix)
    BY <1>2 DEF IsPath
  <2> QED BY <2>1, SeqIsSeq DEF IsSeq
<1>4. \A p, a : After1(p, b, a) => LastOf(p) = a /\ Len(p.suffix) > Len(b.suffix)
  BY ONLY <1>3 DEF After1, LastOf
<1>5. \A p, a, c : After2(p, b, a, c) => LastOf(p) = c /\ Len(p.suffix) > Len(b.suffix)
  BY ONLY <1>3 DEF After2, LastOf
<1>6. \A p \in Unpacked : p.dir # b.dir /\ LastOf(p) = os
  <2> SUFFICES ASSUME NEW p \in Unpacked PROVE p.dir # b.dir /\ LastOf(p) = os
    OBVIOUS
  <2>1. PICK i \in DOMAIN Kept(RuntimeMembers) : p = Extracted(Kept(RuntimeMembers)[i])
    BY DEF Unpacked
  <2>2. p.dir # b.dir /\ p.suffix = <<os>>
    BY <1>1, <1>2, <2>1 DEF Sides
  <2>3. Len(<<os>>) = 1 /\ <<os>>[1] = os
    OBVIOUS
  <2> QED BY <2>2, <2>3 DEF LastOf
<1>7. /\ After1(Side(".s"), b, ".s") /\ After1(ObjectPath, b, os)
      /\ After1(Side(".h"), b, ".h") /\ After1(Side(".def"), b, ".def")
      /\ After2(PackageSide, b, ".package", ".s")
      /\ After2(PackageObject, b, ".package", os)
      /\ After2(JoinedObject, b, ".bundled", os)
  BY <1>1, <1>2 DEF Sides, Side, PackageSide
<1>8. \A p \in {Side(".s"), ObjectPath, Side(".h"), Side(".def"), PackageSide,
                PackageObject, JoinedObject} :
          LastOf(p) \in {".s", ".h", ".def", ".o", ".obj"} /\ Len(p.suffix) > Len(b.suffix)
  BY ONLY <1>4, <1>5, <1>7, os \in {".o", ".obj"}
<1> QED BY <1>2, <1>6, <1>8, BetweenIs

\* The program is none of the files between.
Program == IF Has(o, "-o") THEN unit.base
           ELSE Plus(unit.base, target_info[o.target].executable_suffix)

LEMMA ProgramApart ==
    ASSUME IsPath(unit.base), o \in Options
    PROVE  Program \notin Between
<1>1. target_info[o.target].executable_suffix \in {<<>>, <<".exe">>}
  BY SuffixIs DEF Options
<1>2. PICK b : b = unit.base
  OBVIOUS
<1>3. Len(b.suffix) \in Nat
  <2>1. IsSeq(b.suffix)
    BY <1>2 DEF IsPath
  <2> QED BY <2>1, SeqIsSeq DEF IsSeq
<1>4. Program.dir = b.dir /\ (Len(Program.suffix) = Len(b.suffix) \/ LastOf(Program) = ".exe")
  <2>1. CASE Program = b
    BY <2>1
  <2>2. CASE Program = Plus(b, <<>>)
    <3>1. IsSeq(<<>>) /\ Len(<<>>) = 0
      BY IsSeqShort
    <3> DEFINE s == <<>>
    <3>2. IsSeq(s) /\ Len(s) = 0 /\ Program = Plus(b, s)
      BY <2>2, <3>1
    <3> HIDE DEF s
    <3>3. Longer(Plus(b, s), b, s)
      BY <1>2, <3>2, PlusIs
    <3> QED BY <1>3, <3>2, <3>3 DEF Longer
  <2>3. CASE Program = Plus(b, <<".exe">>)
    <3>1. After1(Plus(b, <<".exe">>), b, ".exe")
      BY <1>2, AfterOne
    <3> QED BY <1>3, <2>3, <3>1 DEF After1, LastOf
  <2> QED BY <1>1, <1>2, <2>1, <2>2, <2>3 DEF Program
<1>5. \A p \in Between : /\ LastOf(p) \in {".s", ".h", ".def", ".o", ".obj"}
                         /\ p.dir # b.dir \/ Len(p.suffix) > Len(b.suffix)
  BY <1>2, BetweenLast
<1>6. ".exe" \notin {".s", ".h", ".def", ".o", ".obj"}
  OBVIOUS
<1>7. Len(Program.suffix) = Len(b.suffix) => ~(Len(Program.suffix) > Len(b.suffix))
  BY <1>3
<1> QED BY ONLY <1>4, <1>5, <1>6, <1>7

\* The file that carries the version of a shared library.
Versioned == Plus(LibraryPath, <<".1">>)

LEMMA VersionedApart ==
    ASSUME IsPath(unit.base), o \in Options
    PROVE  Versioned \notin Between /\ Versioned # LibraryPath
<1>1. IsPath(LibraryPath)
  <2>1. CASE Has(o, "-o")
    BY <2>1, SlotPath DEF LibraryPath
  <2>2. CASE ~Has(o, "-o")
    <3>1. \E n, x : LibraryPath = Path(unit.base.dir, n, <<x>>)
      BY <2>2 DEF LibraryPath
    <3>2. PICK n, x : LibraryPath = Path(unit.base.dir, n, <<x>>)
      BY <3>1
    <3>3. IsSeq(<<x>>)
      BY IsSeqShort
    <3> QED BY <3>2, <3>3 DEF IsPath, Path
  <2> QED BY <2>1, <2>2
<1>2. PICK l : l = LibraryPath
  OBVIOUS
<1>3. Len(l.suffix) \in Nat
  <2>1. IsSeq(l.suffix)
    BY <1>1, <1>2 DEF IsPath
  <2> QED BY <2>1, SeqIsSeq DEF IsSeq
<1>4. After1(Versioned, l, ".1")
  BY <1>1, <1>2, AfterOne DEF Versioned
<1>5. LastOf(Versioned) = ".1" /\ Len(Versioned.suffix) # Len(l.suffix)
  BY <1>3, <1>4 DEF After1, LastOf
<1>6. Versioned \notin Between
  <2>1. ".1" \notin {".s", ".h", ".def", ".o", ".obj"}
    OBVIOUS
  <2> QED BY <1>5, <2>1, BetweenLast
<1> QED BY <1>2, <1>5, <1>6

-----------------------------------------------------------------------------
(* The steps of a command keep its promise.                                *)

Unlisted(s) == \A x \in ToSet(s) : x.op # "listing"

\* L is what s comes to once the members of the runtime are known.
Stands(L, s) ==
    /\ IsSeq(L) /\ Unlisted(L)
    /\ \/ L = s
       \/ \E a : /\ IsSeq(a) /\ Unlisted(a)
                 /\ s = a \o <<Listing>> /\ L = a \o bundle(ObjectPath, RuntimeMembers)

Fulfils(D, L, f) ==
    /\ Flow(D, L, f, DOMAIN Wanted) /\ Whole(L, f, DOMAIN Wanted)
    /\ \A p \in DOMAIN Wanted : D[p] = Wanted[p]

Promise(f, s) == \E L : Stands(L, s) /\ (Doomed(L) \/ \E D : Fulfils(D, L, f))

\* Steps that go from the files of have.
LEMMA GoesPromise ==
    ASSUME NEW f, NEW D, NEW have, NEW L, NEW s, NEW outs, Stands(L, s),
           Goes(D, have, L, outs), DOMAIN Wanted \subseteq outs,
           \A p \in DOMAIN Wanted : D[p] = Wanted[p],
           \A r \in have \cap DOMAIN f : f[r] = D[r]
    PROVE  Promise(f, s)
<1>1. CASE Doomed(L)
  BY <1>1 DEF Promise
<1>2. CASE ~Doomed(L)
  <2> DEFINE goal == DOMAIN Wanted
  <2>1. Runs(D, have, L) /\ Outs(L) = outs
    BY <1>2 DEF Goes
  <2>2. goal \subseteq have \cup Outs(L) /\ goal \subseteq Outs(L)
    BY <2>1
  <2> HIDE DEF goal
  <2>3. Flow(D, L, f, goal) /\ Whole(L, f, goal)
    BY <2>1, <2>2, RunsFlow
  <2>4. Fulfils(D, L, f)
    BY <2>3 DEF Fulfils, goal
  <2> QED BY <2>4 DEF Promise
<1> QED BY <1>1, <1>2

\* A command that writes one file of its own.
LEMMA OnePromise ==
    ASSUME NEW f, NEW p, NEW c, Wanted = One(p, c)
    PROVE  Promise(f, <<Write(p, c)>>)
<1>1. DOMAIN Wanted = {p} /\ Wanted[p] = c
  BY DEF One
<1>2. PICK x : x = Write(p, c)
  OBVIOUS
<1>3. PICK D : D = Wanted
  OBVIOUS
<1>4. RunsAlone(D, {}, x) /\ x.op = "write" /\ x.path = p
  <2>1. D[p] = c
    BY <1>1, <1>3
  <2>2. RunsAlone(D, {}, Write(p, c))
    BY <2>1, WriteAlone
  <2>3. x.op = "write" /\ x.path = p
    BY <1>2 DEF Write
  <2> QED BY <1>2, <2>2, <2>3
<1>5. Goes(D, {}, <<x>>, {p})
  BY <1>4, GoesOne
<1>6. Stands(<<x>>, <<x>>)
  <2>1. ToSet(<<x>>) = {x} /\ IsSeq(<<x>>)
    BY IsSeqShort
  <2> QED BY <1>4, <2>1 DEF Stands, Unlisted
<1>7. Promise(f, <<x>>)
  <2> DEFINE s == <<x>>
             none == {}
  <2>1. /\ Goes(D, none, s, {p}) /\ Stands(s, s) /\ DOMAIN Wanted \subseteq {p}
        /\ \A q \in DOMAIN Wanted : D[q] = Wanted[q]
        /\ \A r \in none \cap DOMAIN f : f[r] = D[r]
    BY <1>1, <1>3, <1>5, <1>6
  <2> HIDE DEF s, none
  <2>2. Promise(f, s)
    BY ONLY <2>1, GoesPromise
  <2> QED BY <2>2 DEF s
<1> QED BY <1>2, <1>7

LEMMA FailPromise ==
    ASSUME NEW f
    PROVE  Promise(f, <<Fail>>)
<1>1. IsSeq(<<Fail>>) /\ ToSet(<<Fail>>) = {Fail} /\ Fail.op = "fail"
  BY IsSeqShort DEF Fail
<1>2. Doomed(<<Fail>>) /\ Stands(<<Fail>>, <<Fail>>)
  BY <1>1 DEF Doomed, Stands, Unlisted
<1> QED BY <1>2 DEF Promise

\* The files of a build, as Held says.
LEMMA HeldKnown ==
    ASSUME IsPath(unit.base), o \in Options, Apart
    PROVE  Known(Held) /\ \A r \in Taken : Held[r] = before[r]
BY HeldIs DEF Known

ObjectSteps == <<Write(Side(".s"), unit.asm), assemble(Side(".s"), ObjectPath)>>

LEMMA GoesObject ==
    ASSUME NEW D, Known(D), NEW have
    PROVE  Goes(D, have, ObjectSteps, {Side(".s"), ObjectPath})
<1>1. PICK s : s = ObjectSteps
  OBVIOUS
<1>2. Runs(D, have, s) /\ Outs(s) = {Side(".s"), ObjectPath}
  BY <1>1, RunsObject DEF ObjectSteps
<1> QED BY <1>1, <1>2, GoesRuns

LEMMA ObjectPromise ==
    ASSUME IsPath(unit.base), o \in Options, Apart,
           Wanted = One(ObjectPath, ObjectOf(unit.asm))
    PROVE  Promise(before, ObjectSteps \o <<>>)
<1>1. PICK D : D = Held
  OBVIOUS
<1>2. Known(D) /\ \A r \in Taken : D[r] = before[r]
  BY <1>1, HeldKnown
<1>3. Goes(D, Taken, ObjectSteps, {Side(".s"), ObjectPath})
  BY <1>2, GoesObject
<1>4. ObjectSteps \o <<>> = ObjectSteps
  <2>1. ObjectSteps \in Seq(ToSet(ObjectSteps))
    BY <1>3 DEF Goes, IsSeq
  <2> HIDE DEF ObjectSteps
  <2> QED BY <2>1
<1>5. Stands(ObjectSteps, ObjectSteps)
  BY <1>3 DEF Goes, Stands, Unlisted
<1>6. DOMAIN Wanted = {ObjectPath} /\ Wanted[ObjectPath] = ObjectOf(unit.asm)
  BY DEF One
<1>7. /\ DOMAIN Wanted \subseteq {Side(".s"), ObjectPath}
      /\ \A p \in DOMAIN Wanted : D[p] = Wanted[p]
  BY <1>2, <1>6 DEF Known
<1>8. Promise(before, ObjectSteps)
  <2>1. \A r \in Taken \cap DOMAIN before : before[r] = D[r]
    BY <1>2
  <2> QED BY ONLY <1>3, <1>5, <1>7, <2>1, GoesPromise
<1> QED BY <1>4, <1>8

LEMMA ProgramPromise ==
    ASSUME IsPath(unit.base), o \in Options, Apart,
           Wanted = One(Program, Linked("executable"))
    PROVE  Promise(before, ObjectSteps \o link_program(ObjectPath, Program))
<1>1. PICK D : D = Held
  OBVIOUS
<1>2. Known(D) /\ \A r \in Taken : D[r] = before[r]
  BY <1>1, HeldKnown
<1>3. DOMAIN Wanted = {Program} /\ Wanted[Program] = Linked("executable")
  BY DEF One
<1>4. D[Program] = Linked("executable")
  BY <1>1, <1>3, ProgramApart, HeldIs
<1>5. Goes(D, Taken, ObjectSteps, {Side(".s"), ObjectPath})
  BY <1>2, GoesObject
<1>6. PICK c : link_program(ObjectPath, Program)
         = link_facts \o <<Tool(Program, "executable", <<ObjectPath>> \o o.objects, c)>>
  BY DEF link_program
<1>7. PICK x : x = Tool(Program, "executable", <<ObjectPath>> \o o.objects, c)
  OBVIOUS
<1> DEFINE more == Taken \cup {Side(".s"), ObjectPath}
<1>8. RunsAlone(D, more \cup {}, x) /\ x.op = "tool" /\ x.path = Program
  <2>1. Taken \cup {ObjectPath} \subseteq more \cup {}
    OBVIOUS
  <2> HIDE DEF more
  <2>2. RunsAlone(D, more \cup {}, Tool(Program, "executable", <<ObjectPath>> \o o.objects, c))
    BY <1>2, <1>4, <2>1, LinkAlone
  <2> QED BY <1>7, <2>2 DEF Tool
<1> HIDE DEF more
<1>9. Goes(D, more, link_facts, {}) /\ Goes(D, more \cup {}, <<x>>, {Program})
  BY <1>8, GoesFacts, GoesOne
<1>10. Goes(D, more, link_facts \o <<x>>, {} \cup {Program})
  BY ONLY <1>9, GoesConcat
<1> DEFINE outs == {Side(".s"), ObjectPath} \cup ({} \cup {Program})
           L == ObjectSteps \o (link_facts \o <<x>>)
<1>11. Goes(D, Taken, L, outs)
  <2>1. Goes(D, Taken \cup {Side(".s"), ObjectPath}, link_facts \o <<x>>, {} \cup {Program})
    BY <1>10 DEF more
  <2> QED BY ONLY <1>5, <2>1, GoesConcat
<1>12. DOMAIN Wanted \subseteq outs /\ \A p \in DOMAIN Wanted : D[p] = Wanted[p]
  BY <1>3, <1>4
<1>13. \A r \in Taken \cap DOMAIN before : before[r] = D[r]
  BY <1>2
<1>14. L = ObjectSteps \o link_program(ObjectPath, Program)
  BY <1>6, <1>7
<1> HIDE DEF L, outs
<1>15. Stands(L, L)
  BY <1>11 DEF Goes, Stands, Unlisted
<1>16. Promise(before, L)
  BY ONLY <1>11, <1>12, <1>13, <1>15, GoesPromise
<1> QED BY <1>14, <1>16

LEMMA ConcatAgain ==
    ASSUME NEW s, NEW t, NEW u, IsSeq(s), IsSeq(t), IsSeq(u)
    PROVE  (s \o t) \o u = s \o (t \o u)
<1> DEFINE X == ToSet(s) \cup ToSet(t) \cup ToSet(u)
<1>1. /\ ToSet(s) \subseteq X /\ ToSet(t) \subseteq X /\ ToSet(u) \subseteq X
      /\ s \in Seq(ToSet(s)) /\ t \in Seq(ToSet(t)) /\ u \in Seq(ToSet(u))
  BY DEF IsSeq
<1> HIDE DEF X
<1>2. s \in Seq(X) /\ t \in Seq(X) /\ u \in Seq(X)
  BY ONLY <1>1
<1> QED BY ONLY <1>2, ConcatAssociative

Regrouped(s, t, u, v) == (s \o (t \o u)) \o v = s \o (t \o (u \o v))

LEMMA ConcatLast ==
    ASSUME NEW s, NEW t, NEW u, NEW v, IsSeq(s), IsSeq(t), IsSeq(u), IsSeq(v)
    PROVE  Regrouped(s, t, u, v)
<1>1. PICK w : w = t \o u
  OBVIOUS
<1>2. IsSeq(w)
  BY <1>1, IsSeqConcat
<1>3. (s \o w) \o v = s \o (w \o v)
  BY ONLY <1>2, IsSeq(s), IsSeq(v), ConcatAgain, SMTT(30)
<1>4. (t \o u) \o v = t \o (u \o v)
  BY ONLY IsSeq(t), IsSeq(u), IsSeq(v), ConcatAgain
<1> QED BY <1>1, <1>3, <1>4 DEF Regrouped

\* A library is its header and what X makes.
LEMMA LibraryKnown ==
    ASSUME IsPath(unit.base), o \in Options, Apart, o.lib # "none",
           Wanted = Put(One(Side(".h"), Header), LibraryPath, LibraryWanted)
    PROVE  /\ DOMAIN Wanted = {Side(".h"), LibraryPath} /\ LibraryPath # Side(".h")
           /\ Held[LibraryPath] = LibraryWanted /\ Held[Versioned] = Linked("shared")
           /\ \A p \in DOMAIN Wanted : Held[p] = Wanted[p]
<1>1. Side(".h") \in Between /\ LibraryPath \notin Between
  BY BetweenIs DEF Apart
<1>2. DOMAIN Wanted = {Side(".h"), LibraryPath} /\ Wanted[LibraryPath] = LibraryWanted
      /\ Wanted[Side(".h")] = Header
  BY <1>1 DEF One, Put
<1>3. Held[LibraryPath] = LibraryWanted /\ Held[Side(".h")] = Header
  BY <1>1, <1>2, HeldIs
<1>4. Held[Versioned] = Linked("shared")
  <2>1. Versioned \in Outputs
    BY DEF Outputs, Versioned
  <2>2. Versioned \notin Between /\ Versioned \notin DOMAIN Wanted
    BY <1>1, <1>2, VersionedApart
  <2> QED BY <2>1, <2>2, HeldIs
<1> QED BY <1>1, <1>2, <1>3, <1>4

Headed(X) == ObjectSteps \o (<<Write(Side(".h"), Header)>> \o X)

LEMMA GoesHeaded ==
    ASSUME NEW D, Known(D), NEW have, NEW X, NEW outs,
           Goes(D, have \cup {Side(".s"), ObjectPath} \cup {Side(".h")}, X, outs)
    PROVE  Goes(D, have, Headed(X), {Side(".s"), ObjectPath} \cup ({Side(".h")} \cup outs))
<1>1. Goes(D, have, ObjectSteps, {Side(".s"), ObjectPath})
  BY GoesObject
<1>2. PICK x : x = Write(Side(".h"), Header)
  OBVIOUS
<1> DEFINE more == have \cup {Side(".s"), ObjectPath}
<1>3. RunsAlone(D, more, x) /\ x.op = "write" /\ x.path = Side(".h")
  <2>1. D[Side(".h")] = Header
    BY DEF Known
  <2> HIDE DEF more
  <2>2. RunsAlone(D, more, Write(Side(".h"), Header))
    BY <2>1, WriteAlone
  <2> QED BY <1>2, <2>2 DEF Write
<1>4. Goes(D, more, <<x>>, {Side(".h")})
  <2> HIDE DEF more
  <2> QED BY <1>3, GoesOne
<1>5. Goes(D, more, <<x>> \o X, {Side(".h")} \cup outs)
  <2> HIDE DEF more
  <2>1. Goes(D, more \cup {Side(".h")}, X, outs)
    BY DEF more
  <2> QED BY ONLY <1>4, <2>1, GoesConcat
<1>6. Goes(D, have, ObjectSteps \o (<<x>> \o X), {Side(".s"), ObjectPath} \cup ({Side(".h")} \cup outs))
  BY ONLY <1>1, <1>5, GoesConcat
<1> QED BY <1>2, <1>6 DEF Headed

\* A library whose steps after the header are X, or come to Y.
LEMMA HeadedPromise ==
    ASSUME IsPath(unit.base), o \in Options, Apart, o.lib # "none",
           Wanted = Put(One(Side(".h"), Header), LibraryPath, LibraryWanted),
           NEW X, NEW s, NEW outs, LibraryPath \in outs, Stands(Headed(X), s),
           Goes(Held, Taken \cup {Side(".s"), ObjectPath} \cup {Side(".h")}, X, outs)
    PROVE  Promise(before, s)
<1>1. PICK D : D = Held
  OBVIOUS
<1>2. Known(D) /\ \A r \in Taken : D[r] = before[r]
  BY <1>1, HeldKnown
<1> DEFINE all == {Side(".s"), ObjectPath} \cup ({Side(".h")} \cup outs)
<1>3. Goes(D, Taken, Headed(X), all)
  BY <1>1, <1>2, GoesHeaded
<1>4. DOMAIN Wanted \subseteq all /\ \A p \in DOMAIN Wanted : D[p] = Wanted[p]
  BY <1>1, LibraryKnown
<1>5. \A r \in Taken \cap DOMAIN before : before[r] = D[r]
  BY <1>2
<1> HIDE DEF all
<1> QED BY ONLY <1>3, <1>4, <1>5, Stands(Headed(X), s), GoesPromise

LEMMA StandsAlone ==
    ASSUME NEW D, NEW have, NEW L, NEW outs, Goes(D, have, L, outs)
    PROVE  Stands(L, L)
BY DEF Goes, Stands, Unlisted

\* A static library: the package's object, and the archive or the bundle.
LEMMA StaticPromise ==
    ASSUME IsPath(unit.base), o \in Options, Apart, o.lib = "static",
           Wanted = Put(One(Side(".h"), Header), LibraryPath, LibraryWanted)
    PROVE  Promise(before, Headed(assemble_package
                \o (IF On("--bundle-runtime") THEN <<Listing>> ELSE Archive(<<ObjectPath>>))))
<1>1. PICK D : D = Held
  OBVIOUS
<1>2. Known(D) /\ \A r \in Taken : D[r] = before[r]
  BY <1>1, HeldKnown
<1>3. D[LibraryPath] = [kind |-> "archive", members |-> ArchiveWanted]
  BY <1>1, LibraryKnown DEF LibraryWanted
<1> DEFINE have == Taken \cup {Side(".s"), ObjectPath} \cup {Side(".h")}
           pack == {PackageSide, PackageObject}
<1>4. Taken \cup {ObjectPath, PackageObject} \subseteq have \cup pack
  OBVIOUS
<1> HIDE DEF have
<1>5. Goes(D, have, assemble_package, pack)
  BY <1>2, RunsPackage, GoesRuns
<1>6. CASE ~On("--bundle-runtime")
  <2>1. PICK m : m = <<ObjectPath>>
    OBVIOUS
  <2>2. IsSeq(m) /\ ToSet(m) = {ObjectPath}
    BY <2>1, IsSeqShort
  <2>3. D[LibraryPath] = [kind |-> "archive",
                          members |-> MembersOf(D, ToSet(m) \cup {PackageObject})]
    <3>1. PartsOfArchive = ToSet(m)
      BY <1>6, <2>2 DEF PartsOfArchive
    <3> QED BY <1>2, <1>3, <3>1, ArchiveWantedIs
  <2>4. ToSet(m) \cup {PackageObject} \subseteq have \cup pack
    BY <1>4, <2>2
  <2> HIDE DEF pack
  <2>5. Runs(D, have \cup pack, Archive(m)) /\ Outs(Archive(m)) = {LibraryPath}
    BY ONLY <2>2, <2>3, <2>4, RunsArchived
  <2>6. Goes(D, have \cup pack, Archive(m), {LibraryPath})
    BY <2>5, GoesRuns
  <2> DEFINE X == assemble_package \o Archive(m)
  <2>7. Goes(D, have, X, pack \cup {LibraryPath})
    BY ONLY <1>5, <2>6, GoesConcat
  <2> HIDE DEF X
  <2> DEFINE outs == pack \cup {LibraryPath}
  <2>8. LibraryPath \in outs
    OBVIOUS
  <2> HIDE DEF outs
  <2>9. Goes(Held, Taken \cup {Side(".s"), ObjectPath} \cup {Side(".h")}, X, outs)
    BY <1>1, <2>7 DEF have, outs
  <2>10. Stands(Headed(X), Headed(X))
    <3>1. Goes(Held, Taken, Headed(X), {Side(".s"), ObjectPath} \cup ({Side(".h")} \cup outs))
      BY <1>1, <1>2, <2>9, GoesHeaded
    <3> QED BY <3>1, StandsAlone
  <2>11. Promise(before, Headed(X))
    <3>1. o.lib # "none"
      OBVIOUS
    <3> QED BY <2>8, <2>9, <2>10, <3>1, HeadedPromise
  <2> QED BY <1>6, <2>1, <2>11 DEF X
<1>7. CASE On("--bundle-runtime")
  <2>1. PICK b : b = Bundle(RuntimeMembers)
    OBVIOUS
  <2>2. PICK outs : LibraryPath \in outs /\ Goes(D, have \cup pack, b, outs)
    <3> DEFINE more == have \cup pack
    <3>1. Taken \cup {ObjectPath, PackageObject} \subseteq more
      BY <1>4
    <3> HIDE DEF more
    <3>2. \E outs : LibraryPath \in outs /\ Goes(D, more, b, outs)
      BY <1>2, <1>3, <1>7, <2>1, <3>1, GoesBundle
    <3> QED BY <3>2 DEF more
  <2> HIDE DEF pack
  <2> DEFINE X == assemble_package \o b
             Y == assemble_package \o <<Listing>>
             all == pack \cup outs
  <2>3. Goes(D, have, X, all)
    BY ONLY <1>5, <2>2, GoesConcat
  <2>4. Stands(Headed(X), Headed(Y))
    <3> DEFINE w == <<Write(Side(".h"), Header)>>
               a == ObjectSteps \o (w \o assemble_package)
               l == <<Listing>>
    <3>1. IsSeq(ObjectSteps) /\ IsSeq(w) /\ IsSeq(assemble_package) /\ IsSeq(l) /\ IsSeq(b)
      <4>1. IsSeq(w) /\ IsSeq(l)
        BY IsSeqShort
      <4>2. Goes(D, have, ObjectSteps, {Side(".s"), ObjectPath})
        BY <1>2, GoesObject
      <4> HIDE DEF w, l
      <4> QED BY <1>5, <2>2, <4>1, <4>2 DEF Goes
    <3>2. Unlisted(ObjectSteps) /\ Unlisted(w) /\ Unlisted(assemble_package)
      <4>1. Goes(D, have, ObjectSteps, {Side(".s"), ObjectPath})
        BY <1>2, GoesObject
      <4>2. ToSet(w) = {Write(Side(".h"), Header)} /\ Write(Side(".h"), Header).op = "write"
        BY IsSeqShort DEF Write
      <4> HIDE DEF w
      <4> QED BY <1>5, <4>1, <4>2 DEF Goes, Unlisted
    <3> HIDE DEF w, l
    <3>3. /\ IsSeq(w \o assemble_package) /\ IsSeq(a)
          /\ ToSet(w \o assemble_package) = ToSet(w) \cup ToSet(assemble_package)
          /\ ToSet(a) = ToSet(ObjectSteps) \cup ToSet(w \o assemble_package)
      BY ONLY <3>1, IsSeqConcat
    <3>4. Unlisted(a)
      BY ONLY <3>2, <3>3 DEF Unlisted
    <3>5. Regrouped(ObjectSteps, w, assemble_package, l)
      BY ONLY <3>1, ConcatLast
    <3>6. Regrouped(ObjectSteps, w, assemble_package, b)
      BY ONLY <3>1, ConcatLast
    <3>7. bundle(ObjectPath, RuntimeMembers) = b
      BY <2>1, BundleHere
    <3>8. Headed(Y) = a \o <<Listing>> /\ Headed(X) = a \o b
      BY <3>5, <3>6 DEF Headed, w, l, Regrouped
    <3>9. IsSeq(Headed(X)) /\ Unlisted(Headed(X))
      <4>1. Goes(D, have, X, all)
        BY <2>3
      <4> HIDE DEF X, all
      <4>2. Goes(D, Taken, Headed(X), {Side(".s"), ObjectPath} \cup ({Side(".h")} \cup all))
        BY <1>2, <4>1, GoesHeaded DEF have
      <4> QED BY <4>2 DEF Goes, Unlisted
    <3> HIDE DEF a, X, Y
    <3> QED BY <3>3, <3>4, <3>7, <3>8, <3>9 DEF Stands
  <2>5. LibraryPath \in all
    BY <2>2
  <2>6. Y = assemble_package
              \o (IF On("--bundle-runtime") THEN <<Listing>> ELSE Archive(<<ObjectPath>>))
    BY <1>7
  <2> HIDE DEF X, Y, all
  <2>7. Goes(Held, Taken \cup {Side(".s"), ObjectPath} \cup {Side(".h")}, X, all)
    BY <1>1, <2>3 DEF have
  <2>8. Promise(before, Headed(Y))
    <3>1. o.lib # "none"
      OBVIOUS
    <3> QED BY <2>4, <2>5, <2>7, <3>1, HeadedPromise
  <2> QED BY <2>6, <2>8
<1> QED BY <1>6, <1>7

LEMMA GoesFail ==
    ASSUME NEW D, NEW have, NEW outs
    PROVE  Goes(D, have, <<Fail>>, outs)
<1>1. IsSeq(<<Fail>>) /\ ToSet(<<Fail>>) = {Fail} /\ Fail.op = "fail"
  BY IsSeqShort DEF Fail
<1> QED BY <1>1 DEF Goes, Doomed

\* A shared library: the exports of Windows, the link, and on Linux the
\* name without a version.
LEMMA GoesShared ==
    ASSUME NEW D, Known(D), o \in Options, o.lib = "shared", D[LibraryPath] = LibraryWanted,
           D[Versioned] = Linked("shared"), NEW have, Taken \cup {ObjectPath} \subseteq have
    PROVE  \E outs : LibraryPath \in outs /\ Goes(D, have, SharedLibrary(ObjectPath), outs)
<1> DEFINE linux == target_info[o.target].os = "linux" /\ On("--soname")
           v == IF linux THEN Versioned ELSE LibraryPath
           def == IF target_info[o.target].os = "windows"
                  THEN <<Write(Side(".def"), DefText)>> ELSE <<>>
           x(c) == Tool(v, "shared", <<ObjectPath>> \o o.objects, c)
           tail(c) == IF linux THEN <<Tool(LibraryPath, "symlink", <<v>>, c)>> ELSE <<>>
<1>1. CASE On("--soname") /\ ~Has(o, "--package-version")
  <2>1. SharedLibrary(ObjectPath) = <<Fail>>
    BY <1>1 DEF SharedLibrary
  <2> QED BY <2>1, GoesFail
<1>2. CASE ~(On("--soname") /\ ~Has(o, "--package-version"))
  <2>1. \E c, d : SharedLibrary(ObjectPath) = def \o link_facts \o <<x(c)>> \o tail(d)
    <3> DEFINE c == link_shared_command(o.target, Inputs(ObjectPath, v, o.objects), On("--soname"))
               d == Command(<<"ln", "-sf", v, LibraryPath>>, 0, 0)
    <3>1. SharedLibrary(ObjectPath) = def \o link_facts \o <<x(c)>> \o tail(d)
      BY <1>2 DEF SharedLibrary, Side, DefText, Versioned
    <3> QED BY <3>1
  <2>2. PICK c, d : SharedLibrary(ObjectPath) = def \o link_facts \o <<x(c)>> \o tail(d)
    BY <2>1
  <2>3. D[v] = Linked("shared")
    BY DEF LibraryWanted
  <2>4. \E S : Goes(D, have, def, S)
    <3>1. CASE target_info[o.target].os = "windows"
      <4>1. PICK w : w = Write(Side(".def"), DefText)
        OBVIOUS
      <4>2. RunsAlone(D, have, w) /\ w.op = "write" /\ w.path = Side(".def")
        <5>1. D[Side(".def")] = DefText
          BY DEF Known
        <5>2. RunsAlone(D, have, Write(Side(".def"), DefText))
          BY <5>1, WriteAlone
        <5> QED BY <4>1, <5>2 DEF Write
      <4>3. Goes(D, have, <<w>>, {Side(".def")})
        BY <4>2, GoesOne
      <4> QED BY <3>1, <4>1, <4>3
    <3>2. CASE target_info[o.target].os # "windows"
      BY <3>2, GoesNone
    <3> QED BY <3>1, <3>2
  <2>5. PICK S : Goes(D, have, def, S)
    BY <2>4
  <2> DEFINE y == x(c)
  <2>6. Goes(D, have \cup S, link_facts, {})
    BY GoesFacts
  <2>7. Goes(D, have, def \o link_facts, S \cup {})
    <3> HIDE DEF def
    <3> QED BY ONLY <2>5, <2>6, GoesConcat
  <2>8. RunsAlone(D, have \cup (S \cup {}), y) /\ y.op = "tool" /\ y.path = v
    <3> DEFINE more == have \cup (S \cup {})
    <3>1. Taken \cup {ObjectPath} \subseteq more
      OBVIOUS
    <3> HIDE DEF more, v
    <3>2. RunsAlone(D, more, y)
      BY <2>3, <3>1, LinkAlone
    <3>3. y.op = "tool" /\ y.path = v
      BY DEF Tool
    <3> QED BY <3>2, <3>3 DEF more
  <2>9. Goes(D, have \cup (S \cup {}), <<y>>, {v})
    <3> HIDE DEF y, v
    <3> QED BY <2>8, GoesOne
  <2>10. Goes(D, have, (def \o link_facts) \o <<y>>, (S \cup {}) \cup {v})
    <3> HIDE DEF y, v, def
    <3> QED BY ONLY <2>7, <2>9, GoesConcat
  <2>11. CASE ~linux
    <3>1. v = LibraryPath
      BY <2>11
    <3>2. Goes(D, have \cup ((S \cup {}) \cup {v}), <<>>, {})
      BY GoesNone
    <3>3. Goes(D, have, ((def \o link_facts) \o <<y>>) \o <<>>, ((S \cup {}) \cup {v}) \cup {})
      <4> DEFINE e == <<>>
      <4>1. Goes(D, have \cup ((S \cup {}) \cup {v}), e, {})
        BY <3>2
      <4> HIDE DEF y, v, def, e
      <4>2. Goes(D, have, ((def \o link_facts) \o <<y>>) \o e, ((S \cup {}) \cup {v}) \cup {})
        BY ONLY <2>10, <4>1, GoesConcat
      <4> QED BY <4>2 DEF e
    <3>4. tail(d) = <<>>
      BY <2>11
    <3> HIDE DEF tail, def, v
    <3> QED BY <2>2, <3>1, <3>3, <3>4
  <2>12. CASE linux
    <3> DEFINE z == Tool(LibraryPath, "symlink", <<v>>, d)
               more == have \cup ((S \cup {}) \cup {v})
    <3>1. RunsAlone(D, more, z) /\ z.op = "tool" /\ z.path = LibraryPath
      <4> DEFINE r == <<v>>
      <4>1. v \in more
        OBVIOUS
      <4> HIDE DEF v, more
      <4>2. ToSet(r) \subseteq more /\ Contents(D, r) = <<D[v]>>
        BY <4>1, IsSeqShort, ContentsShort
      <4>3. D[LibraryPath] = [kind |-> "symlink", from |-> Contents(D, r)]
        BY <2>3, <2>12, <4>2 DEF LibraryWanted
      <4> HIDE DEF r
      <4>4. RunsAlone(D, more, Tool(LibraryPath, "symlink", r, d))
        BY ONLY <4>2, <4>3, ToolAlone
      <4>5. z.op = "tool" /\ z.path = LibraryPath
        BY DEF Tool
      <4> QED BY <4>4, <4>5 DEF r
    <3>2. Goes(D, more, <<z>>, {LibraryPath})
      <4> HIDE DEF z, more
      <4> QED BY <3>1, GoesOne
    <3>3. Goes(D, have, ((def \o link_facts) \o <<y>>) \o <<z>>, ((S \cup {}) \cup {v}) \cup {LibraryPath})
      <4> HIDE DEF y, v, def, z
      <4> QED BY ONLY <2>10, <3>2, GoesConcat DEF more
    <3>4. tail(d) = <<z>>
      BY <2>12
    <3> HIDE DEF tail, def, v, z
    <3> QED BY <2>2, <3>3, <3>4
  <2> QED BY <2>11, <2>12
<1> QED BY <1>1, <1>2

LEMMA LibraryPromise ==
    ASSUME IsPath(unit.base), o \in Options, Apart, o.lib # "none",
           Wanted = Put(One(Side(".h"), Header), LibraryPath, LibraryWanted)
    PROVE  Promise(before, ObjectSteps \o build_c_library(ObjectPath))
<1>1. CASE o.lib = "static"
  <2>1. ObjectSteps \o build_c_library(ObjectPath) = Headed(assemble_package
            \o (IF On("--bundle-runtime") THEN <<Listing>> ELSE Archive(<<ObjectPath>>)))
    BY <1>1 DEF build_c_library, Headed, Side
  <2> QED BY <1>1, <2>1, StaticPromise
<1>2. CASE o.lib # "static"
  <2>1. PICK X : X = SharedLibrary(ObjectPath)
    OBVIOUS
  <2>2. ObjectSteps \o build_c_library(ObjectPath) = Headed(X)
    BY <1>2, <2>1 DEF build_c_library, Headed, Side
  <2>3. o.lib = "shared"
    BY <1>2 DEF Options
  <2>4. PICK D : D = Held
    OBVIOUS
  <2>5. Known(D)
    BY <2>4, HeldKnown
  <2>6. D[LibraryPath] = LibraryWanted /\ D[Versioned] = Linked("shared")
    BY <2>4, LibraryKnown
  <2> DEFINE have == Taken \cup {Side(".s"), ObjectPath} \cup {Side(".h")}
  <2>7. Taken \cup {ObjectPath} \subseteq have
    OBVIOUS
  <2>8. PICK outs : LibraryPath \in outs /\ Goes(D, have, X, outs)
    <3> HIDE DEF have
    <3> QED BY <2>1, <2>3, <2>5, <2>6, <2>7, GoesShared
  <2>9. Goes(Held, have, X, outs)
    BY <2>4, <2>8
  <2>10. Stands(Headed(X), Headed(X))
    <3>1. Goes(D, Taken, Headed(X), {Side(".s"), ObjectPath} \cup ({Side(".h")} \cup outs))
      BY <2>5, <2>8, GoesHeaded
    <3> QED BY <3>1, StandsAlone
  <2>11. Promise(before, Headed(X))
    BY <2>8, <2>9, <2>10, HeadedPromise
  <2> QED BY <2>2, <2>11
<1> QED BY <1>1, <1>2

\* A command that writes nothing.
LEMMA NothingPromise ==
    ASSUME NEW f, Wanted = <<>>
    PROVE  Promise(f, <<>>)
<1>1. IsSeq(<<>>) /\ Len(<<>>) = 0 /\ ToSet(<<>>) = {}
  BY IsSeqShort
<1>2. DOMAIN Wanted = {}
  OBVIOUS
<1> DEFINE s == <<>>
<1>3. IsSeq(s) /\ Len(s) = 0 /\ ToSet(s) = {}
  BY <1>1
<1> HIDE DEF s
<1>4. Fulfils(Wanted, s, f)
  BY <1>2, <1>3 DEF Fulfils, Flow, Whole
<1>5. Stands(s, s)
  BY <1>3 DEF Stands, Unlisted
<1>6. Promise(f, s)
  BY <1>4, <1>5 DEF Promise
<1> QED BY <1>6 DEF s

\* What driver_run does after compile keeps its promise.
LEMMA StepsPromise ==
    o \in Options /\ Apart /\ (unit.status \in {1, 2} \/ IsPath(unit.base))
        => Promise(before, Steps)
<1> SUFFICES ASSUME o \in Options, Apart, unit.status \in {1, 2} \/ IsPath(unit.base)
             PROVE  Promise(before, Steps)
  OBVIOUS
<1> DEFINE antl == IF Has(o, "-o") THEN o.slot["-o"].path
                   ELSE Plus(Stem(o.input), <<".antl">>)
           text == IF Has(o, "-o") THEN unit.base ELSE Side(".s")
           late == On("--dev") /\ ~(unit.status = 3) /\ ~On("-S")
                   /\ (o.runtime = <<>> \/ ~can_link(o))
<1>1. CASE unit.status = 1
  <2>1. Steps = <<Fail>>
    BY <1>1 DEF Steps
  <2> QED BY <2>1, FailPromise
<1>2. CASE unit.status = 2 /\ unit.antl # Partial
  <2>1. Steps = <<Write(antl, unit.antl)>> /\ Wanted = One(antl, unit.antl)
    BY <1>2 DEF Steps, Wanted
  <2> HIDE DEF antl
  <2> QED BY <2>1, OnePromise
<1>3. CASE unit.status = 2 /\ unit.antl = Partial
  <2>1. Steps = <<>> /\ Wanted = <<>>
    BY <1>3 DEF Steps, Wanted
  <2> QED BY <2>1, NothingPromise
<1>4. CASE unit.status \notin {1, 2}
  <2>1. IsPath(unit.base)
    BY <1>4
  <2>2. CASE late
    <3>1. Steps = <<Fail>>
      BY <1>4, <2>2 DEF Steps
    <3> QED BY <3>1, FailPromise
  <2>3. CASE ~late /\ On("-S")
    <3>1. Steps = <<Write(text, unit.asm)>> /\ Wanted = One(text, unit.asm)
      BY <1>4, <2>3 DEF Steps, Wanted, Side
    <3> HIDE DEF text
    <3> QED BY <3>1, OnePromise
  <2>4. CASE ~late /\ ~On("-S")
    <3>1. Steps = ObjectSteps \o (IF unit.status = 3 THEN <<>>
                    ELSE IF o.lib # "none" THEN build_c_library(ObjectPath)
                    ELSE link_program(ObjectPath, Program))
      BY <1>4, <2>4 DEF Steps, ObjectSteps, Side, Program
    <3>2. CASE unit.status = 3
      <4>1. Wanted = One(ObjectPath, ObjectOf(unit.asm))
        BY <1>4, <2>4, <3>2 DEF Wanted
      <4> QED BY <2>1, <3>1, <3>2, <4>1, ObjectPromise
    <3>3. CASE unit.status # 3 /\ o.lib # "none"
      <4>1. Wanted = Put(One(Side(".h"), Header), LibraryPath, LibraryWanted)
        BY <1>4, <2>4, <3>3 DEF Wanted, Side
      <4> QED BY <2>1, <3>1, <3>3, <4>1, LibraryPromise
    <3>4. CASE unit.status # 3 /\ o.lib = "none"
      <4>1. Wanted = One(Program, Linked("executable"))
        BY <1>4, <2>4, <3>4 DEF Wanted, Program
      <4> QED BY <2>1, <3>1, <3>4, <4>1, ProgramPromise
    <3> QED BY <3>2, <3>3, <3>4
  <2> QED BY <2>2, <2>3, <2>4
<1> QED BY <1>1, <1>2, <1>3, <1>4

\* The promise of a command is the same at each of its steps.
LEMMA SamePromise ==
    ASSUME SameCommand, NEW f, NEW s
    PROVE  Promise(f, s)' <=> Promise(f, s)
<1>1. \A L : Stands(L, s)' <=> Stands(L, s)
  BY SameBundle DEF Stands, Unlisted, IsSeq, ToSet
<1>2. \A D, L : Fulfils(D, L, f)' <=> Fulfils(D, L, f)
  BY SameWanted DEF Fulfils
<1> QED BY <1>1, <1>2 DEF Promise

\* The first step of two parts, and the steps after it.
Peeled(a, t) == /\ a \o t # <<>> /\ Head(a \o t) = Head(a)
                /\ Tail(a \o t) = Tail(a) \o t

LEMMA PeeledIs ==
    ASSUME NEW a, NEW t, IsSeq(a), IsSeq(t), a # <<>>
    PROVE  Peeled(a, t)
<1> DEFINE X == ToSet(a) \cup ToSet(t)
<1>1. a \in Seq(X) /\ t \in Seq(X)
  BY DEF IsSeq
<1> HIDE DEF X
<1>2. PICK s : s = a \o t
  OBVIOUS
<1>3. /\ Len(a) \in Nat /\ Len(a) > 0 /\ Len(t) \in Nat
  BY ONLY <1>1, a # <<>>, EmptySeq, LenProperties
<1>4. /\ s \in Seq(X) /\ Len(s) = Len(a) + Len(t)
      /\ \A i \in 1 .. Len(a) + Len(t) :
            s[i] = IF i <= Len(a) THEN a[i] ELSE t[i - Len(a)]
  BY ONLY <1>1, <1>2, ConcatProperties
<1>5. s # <<>> /\ 1 \in 1 .. Len(a) + Len(t)
  BY ONLY <1>3, <1>4
<1>6. Head(s) = s[1] /\ Head(a) = a[1] /\ s[1] = a[1]
  BY ONLY <1>1, <1>3, <1>4, <1>5, a # <<>>, HeadTailProperties
<1>7. /\ Tail(s) \in Seq(X) /\ Len(Tail(s)) = Len(s) - 1
      /\ \A i \in 1 .. Len(s) - 1 : Tail(s)[i] = s[i + 1]
      /\ Tail(a) \in Seq(X) /\ Len(Tail(a)) = Len(a) - 1
      /\ \A i \in 1 .. Len(a) - 1 : Tail(a)[i] = a[i + 1]
  BY ONLY <1>1, <1>4, <1>5, a # <<>>, HeadTailProperties
<1>8. PICK u : u = Tail(a) \o t
  OBVIOUS
<1>9. /\ u \in Seq(X) /\ Len(u) = Len(Tail(a)) + Len(t)
      /\ \A i \in 1 .. Len(Tail(a)) + Len(t) :
            u[i] = IF i <= Len(Tail(a)) THEN Tail(a)[i] ELSE t[i - Len(Tail(a))]
  BY ONLY <1>1, <1>7, <1>8, ConcatProperties
<1>10. Len(Tail(s)) = Len(u)
  BY ONLY <1>3, <1>4, <1>7, <1>9
<1>11. ASSUME NEW i \in 1 .. Len(u) PROVE Tail(s)[i] = u[i]
  <2>1. /\ i \in 1 .. Len(s) - 1 /\ i + 1 \in 1 .. Len(a) + Len(t)
        /\ i \in 1 .. Len(Tail(a)) + Len(t)
    BY ONLY <1>3, <1>4, <1>7, <1>9, <1>11
  <2>2. Tail(s)[i] = IF i + 1 <= Len(a) THEN a[i + 1] ELSE t[(i + 1) - Len(a)]
    BY ONLY <2>1, <1>4, <1>7
  <2>3. CASE i + 1 <= Len(a)
    <3>1. i <= Len(Tail(a)) /\ i \in 1 .. Len(a) - 1
      BY ONLY <1>3, <1>7, <2>1, <2>3
    <3> QED BY ONLY <1>7, <1>9, <2>1, <2>2, <2>3, <3>1
  <2>4. CASE ~(i + 1 <= Len(a))
    <3>1. ~(i <= Len(Tail(a))) /\ (i + 1) - Len(a) = i - Len(Tail(a))
      BY ONLY <1>3, <1>7, <2>1, <2>4
    <3> QED BY ONLY <1>9, <2>1, <2>2, <2>4, <3>1
  <2> QED BY <2>3, <2>4
<1>12. Tail(s) = u
  BY ONLY <1>7, <1>9, <1>10, <1>11, SeqEqual
<1> QED BY ONLY <1>2, <1>5, <1>6, <1>8, <1>12 DEF Peeled

\* A step is the first or one of those after it.
LEMMA HeadOrTail ==
    ASSUME NEW s, IsSeq(s), s # <<>>
    PROVE  ToSet(s) = {Head(s)} \cup ToSet(Tail(s))
<1>1. IsSeq(Tail(s)) /\ s = <<Head(s)>> \o Tail(s)
  BY IsSeqTail
<1>2. PICK h : h = <<Head(s)>>
  OBVIOUS
<1>3. PICK t : t = Tail(s)
  OBVIOUS
<1>4. IsSeq(h) /\ ToSet(h) = {Head(s)} /\ IsSeq(t)
  BY ONLY <1>1, <1>2, <1>3, IsSeqShort
<1>5. ToSet(h \o t) = ToSet(h) \cup ToSet(t)
  BY ONLY <1>4, IsSeqConcat
<1> QED BY ONLY <1>1, <1>2, <1>3, <1>4, <1>5

LEMMA EmptyConcat ==
    ASSUME NEW a, a = <<>>, NEW t, IsSeq(t)
    PROVE  a \o t = t
<1> DEFINE X == ToSet(t)
<1>1. t \in Seq(X)
  BY DEF IsSeq
<1> HIDE DEF X
<1> QED BY ONLY <1>1, a = <<>>, ConcatEmptySeq

LEMMA BundleIsSeq == IsSeq(bundle(ObjectPath, RuntimeMembers))
<1> DEFINE l == RuntimeMembers
<1>1. IsSeq(l)
  <2>1. l \in Seq(STRING)
    BY BuildAssumption DEF BuildAssumption
  <2> HIDE DEF l
  <2> QED BY ONLY <2>1, SeqIsSeq
<1> HIDE DEF l
<1>2. StepsFit(bundle(ObjectPath, l))
  BY ONLY <1>1, BundleFits
<1> QED BY <1>2 DEF StepsFit, l

\* Steps that stand for others: the first is the same, and so on.
LEMMA StandsTail ==
    ASSUME NEW L, NEW s, Stands(L, s), IsSeq(s), s # <<>>,
           Head(s).op # "listing"
    PROVE  L # <<>> /\ Head(L) = Head(s) /\ Stands(Tail(L), Tail(s))
<1>1. CASE L = s
  <2>1. IsSeq(Tail(s)) /\ ToSet(Tail(s)) \subseteq ToSet(s)
    BY IsSeqTail
  <2> QED BY <1>1, <2>1 DEF Stands, Unlisted
<1>2. CASE L # s
  <2>1. PICK a : /\ IsSeq(a) /\ Unlisted(a)
                 /\ s = a \o <<Listing>> /\ L = a \o bundle(ObjectPath, RuntimeMembers)
    BY <1>2 DEF Stands
  <2>2. PICK t : t = <<Listing>>
    OBVIOUS
  <2>3. PICK b : b = bundle(ObjectPath, RuntimeMembers)
    OBVIOUS
  <2>4. IsSeq(t) /\ IsSeq(b) /\ IsSeq(L) /\ Unlisted(L) /\ s = a \o t /\ L = a \o b
    BY <2>1, <2>2, <2>3, IsSeqShort, BundleIsSeq DEF Stands
  <2>5. a # <<>>
    <3>1. ASSUME a = <<>> PROVE FALSE
      <4>1. s = t
        BY <2>4, <3>1, EmptyConcat
      <4>2. Head(s).op = "listing"
        BY <2>2, <4>1 DEF Listing
      <4> QED BY <4>2
    <3> QED BY <3>1
  <2>6. Peeled(a, t) /\ Peeled(a, b)
    BY ONLY <2>1, <2>4, <2>5, PeeledIs
  <2>7. /\ L # <<>> /\ Head(L) = Head(a) /\ Tail(L) = Tail(a) \o b
        /\ Head(s) = Head(a) /\ Tail(s) = Tail(a) \o t
    BY ONLY <2>4, <2>6 DEF Peeled
  <2>8. /\ IsSeq(Tail(L)) /\ ToSet(Tail(L)) \subseteq ToSet(L)
        /\ IsSeq(Tail(a)) /\ ToSet(Tail(a)) \subseteq ToSet(a)
    BY ONLY <2>1, <2>4, <2>5, <2>7, IsSeqTail
  <2>9. Unlisted(Tail(L)) /\ Unlisted(Tail(a))
    BY ONLY <2>1, <2>4, <2>8 DEF Unlisted
  <2> QED BY ONLY <2>2, <2>3, <2>7, <2>8, <2>9 DEF Stands
<1> QED BY <1>1, <1>2

\* A step that succeeds leaves the promise to the steps after it.
LEMMA PromiseStep ==
    ASSUME NEW f, NEW s, Promise(f, s), IsSeq(s), s # <<>>,
           Head(s).op \notin {"listing", "fail"},
           Head(s).op = "tool" => ToSet(Head(s).reads) \subseteq DOMAIN f
    PROVE  Promise(After(f, Head(s)), Tail(s))
<1>1. PICK L : Stands(L, s) /\ (Doomed(L) \/ \E D : Fulfils(D, L, f))
  BY DEF Promise
<1>2. L # <<>> /\ Head(L) = Head(s) /\ Stands(Tail(L), Tail(s))
  BY <1>1, StandsTail
<1>3. CASE Doomed(L)
  <2>1. ToSet(L) = {Head(L)} \cup ToSet(Tail(L)) /\ IsSeq(Tail(L))
    BY <1>2, <1>3, HeadOrTail, IsSeqTail DEF Doomed
  <2>2. Doomed(Tail(L))
    BY <1>2, <1>3, <2>1 DEF Doomed
  <2> QED BY <1>2, <2>2 DEF Promise
<1>4. CASE ~Doomed(L)
  <2>1. PICK D : Fulfils(D, L, f)
    BY <1>1, <1>4
  <2>2. PICK goal : goal = DOMAIN Wanted
    OBVIOUS
  <2>3. Flow(D, L, f, goal) /\ Whole(L, f, goal)
    BY <2>1, <2>2 DEF Fulfils
  <2>4. Head(L).op = "tool" => ToSet(Head(L).reads) \subseteq DOMAIN f
    BY <1>2
  <2>5. Flow(D, Tail(L), After(f, Head(L)), goal)
    BY ONLY <1>2, <2>3, <2>4, FlowStep
  <2>6. Whole(Tail(L), After(f, Head(L)), goal)
    BY ONLY <1>2, <2>3, <2>4, WholeStep
  <2>7. Fulfils(D, Tail(L), After(f, Head(s)))
    BY <1>2, <2>1, <2>2, <2>5, <2>6 DEF Fulfils
  <2> QED BY <1>2, <2>7 DEF Promise
<1> QED BY <1>3, <1>4

\* The listing is the last step of its command; the bundle takes its place.
LEMMA ListingPromise ==
    ASSUME NEW f, NEW s, Promise(f, s), IsSeq(s), s # <<>>, Head(s).op = "listing"
    PROVE  Promise(f, bundle(ObjectPath, RuntimeMembers))
<1>1. PICK L : Stands(L, s) /\ (Doomed(L) \/ \E D : Fulfils(D, L, f))
  BY DEF Promise
<1>2. L # s
  <2>1. Head(s) \in ToSet(s)
    BY IsSeqTail
  <2> QED BY <1>1, <2>1 DEF Stands, Unlisted
<1>3. PICK a : /\ IsSeq(a) /\ Unlisted(a)
               /\ s = a \o <<Listing>> /\ L = a \o bundle(ObjectPath, RuntimeMembers)
  BY <1>1, <1>2 DEF Stands
<1>4. PICK t : t = <<Listing>>
  OBVIOUS
<1>5. PICK b : b = bundle(ObjectPath, RuntimeMembers)
  OBVIOUS
<1>6. a = <<>>
  <2>1. ASSUME a # <<>> PROVE FALSE
    <3>1. IsSeq(t) /\ s = a \o t
      BY <1>3, <1>4, IsSeqShort
    <3>2. Peeled(a, t)
      BY ONLY <1>3, <2>1, <3>1, PeeledIs
    <3>3. Head(s) = Head(a)
      BY ONLY <3>1, <3>2 DEF Peeled
    <3>4. Head(a) \in ToSet(a)
      BY ONLY <1>3, <2>1, IsSeqTail
    <3> QED BY <1>3, <3>3, <3>4 DEF Unlisted
  <2> QED BY <2>1
<1>7. L = b
  <2>1. IsSeq(b) /\ L = a \o b
    BY <1>3, <1>5, BundleIsSeq
  <2> QED BY <1>6, <2>1, EmptyConcat
<1>8. Stands(L, b)
  BY <1>1, <1>7 DEF Stands
<1>9. Promise(f, b)
  BY <1>1, <1>8 DEF Promise
<1> QED BY <1>5, <1>9

\* Nothing left to do: the files are there.
LEMMA PromiseKept ==
    ASSUME NEW f, Promise(f, <<>>)
    PROVE  \A p \in DOMAIN Wanted : p \in DOMAIN f /\ f[p] = Wanted[p]
<1>1. PICK s : s = <<>>
  OBVIOUS
<1>2. PICK L : Stands(L, s) /\ (Doomed(L) \/ \E D : Fulfils(D, L, f))
  BY <1>1 DEF Promise
<1>3. L = s
  <2>1. ASSUME L # s PROVE FALSE
    <3>1. PICK a : IsSeq(a) /\ s = a \o <<Listing>>
      BY <1>2, <2>1 DEF Stands
    <3>2. PICK t : t = <<Listing>>
      OBVIOUS
    <3>3. IsSeq(t) /\ Len(t) = 1 /\ s = a \o t
      BY <3>1, <3>2, IsSeqShort
    <3>4. Len(s) = Len(a) + Len(t) /\ Len(a) \in Nat
      BY ONLY <3>1, <3>3, IsSeqConcat
    <3>5. Len(s) = 0
      BY <1>1
    <3> QED BY ONLY <3>3, <3>4, <3>5
  <2> QED BY <2>1
<1>4. IsSeq(s) /\ Len(s) = 0 /\ ToSet(s) = {}
  BY <1>1, IsSeqShort
<1>5. PICK D : Fulfils(D, L, f)
  BY <1>2, <1>3, <1>4 DEF Doomed
<1>6. PICK W : W = Wanted
  OBVIOUS
<1>7. Flow(D, L, f, DOMAIN W) /\ Whole(L, f, DOMAIN W) /\ \A p \in DOMAIN W : D[p] = W[p]
  BY <1>5, <1>6 DEF Fulfils
<1>8. ASSUME NEW p \in DOMAIN W PROVE p \in DOMAIN f /\ f[p] = W[p]
  <2>1. Sure(D, L, f, p, 1)
    BY <1>3, <1>4, <1>7 DEF Flow
  <2>2. p \in DOMAIN f
    BY <1>3, <1>4, <1>7 DEF Whole
  <2> QED BY <1>7, <2>1, <2>2 DEF Sure
<1> QED BY <1>6, <1>8

-----------------------------------------------------------------------------
(* The promise at every step of a command.                                 *)

\* What is left to do once the child has done its part.
Left == IF child.st = "exited" /\ ~At("listing") THEN Tail(todo) ELSE todo

Promised == Promise(files, Left)

\* The lines of the listing that are read, in the pipe and still to come.
Listed == (child.got \o child.pipe) \o child.out

Keeps ==
    /\ child.st = "exited" => child.out = <<>>
    /\ child.code = 1 => child.st = "exited"
    /\ status = Running /\ child.code = 0 /\ Apart =>
        /\ Promised
        /\ At("listing") /\ child.st # "none" => Listed = RuntimeMembers

LEMMA PromisedHere == (\A f, s : f = files /\ s = Left /\ Promise(f, s) => Promised)'
<1>1. \A f, s : f = files /\ s = Left /\ Promise(f, s) => Promised
  BY DEF Promised
<1> QED BY <1>1, PTL

LEMMA PromisedIs ==
    ASSUME SameCommand, NEW f, NEW s, f = files', s = Left', Promise(f, s)
    PROVE  Promised'
<1>1. Promise(f, s)'
  BY SamePromise
<1> QED BY <1>1, PromisedHere

LEMMA PromisedFirst ==
    (o \in Options /\ Apart /\ Placed(unit) /\ files = before /\ Left = Steps => Promised)'
<1>1. o \in Options /\ Apart /\ Placed(unit) /\ files = before /\ Left = Steps => Promised
  BY StepsPromise DEF Placed, Promised
<1> QED BY <1>1, PTL

\* The files that a command leaves alone are what it promised.
LEMMA GoalStays ==
    ASSUME SameCommand, files' = files,
           \A p \in DOMAIN Wanted : p \in DOMAIN files /\ files[p] = Wanted[p]
    PROVE  (\A p \in DOMAIN Wanted : p \in DOMAIN files /\ files[p] = Wanted[p])'
BY SameWanted

\* A step after which the command is over, with a failure.
LEMMA KeepsEnd ==
    ASSUME Keeps, status' # Running, status' # 0, child' \in {child, NoChild}
    PROVE  Keeps' /\ ExitZeroMeansBuilt'
BY DEF Keeps, ExitZeroMeansBuilt, NoChild

\* A step that the command goes on after, with no child.
LEMMA KeepsGoes ==
    ASSUME Keeps, SameCommand, status = Running, status' = Running, child' = NoChild,
           NEW f, NEW s, f = files', s = todo',
           Apart => Promise(f, s)
    PROVE  Keeps' /\ ExitZeroMeansBuilt'
<1>1. child'.st = "none" /\ child'.code = 0
  BY DEF NoChild
<1>2. s = Left'
  BY <1>1 DEF Left
<1>3. Apart => Promised'
  BY <1>2, PromisedIs
<1>4. Apart' = Apart
  BY SameApart
<1> QED BY <1>1, <1>3, <1>4 DEF Keeps, ExitZeroMeansBuilt, Running

LEMMA KeepsFinish == Builds /\ Keeps /\ Finish => Keeps' /\ ExitZeroMeansBuilt'
<1> SUFFICES ASSUME Builds, Keeps, Finish PROVE Keeps' /\ ExitZeroMeansBuilt'
  OBVIOUS
<1>1. /\ SameCommand /\ files' = files /\ child' = child /\ status = Running /\ status' = 0
      /\ todo = <<>>
  BY DEF Finish, SameCommand
<1>2. child = NoChild
  BY <1>1 DEF Builds, BuildInv, AtProcess, At
<1>3. Left = <<>> /\ child.code = 0
  BY <1>1, <1>2 DEF Left, NoChild
<1>4. ASSUME Apart
      PROVE  \A p \in DOMAIN Wanted : p \in DOMAIN files /\ files[p] = Wanted[p]
  <2>1. Promise(files, <<>>)
    BY <1>1, <1>3, <1>4 DEF Keeps, Promised
  <2> QED BY <2>1, PromiseKept
<1>5. Apart' = Apart
  BY <1>1, SameApart
<1>6. Apart => (\A p \in DOMAIN Wanted : p \in DOMAIN files /\ files[p] = Wanted[p])'
  BY <1>1, <1>4, GoalStays
<1>7. ExitZeroMeansBuilt'
  BY <1>5, <1>6 DEF ExitZeroMeansBuilt
<1>8. Keeps'
  BY <1>1 DEF Keeps, Running
<1> QED BY <1>7, <1>8

\* write_file and remove_file.
LEMMA KeepsWrite == Builds /\ Keeps /\ (WriteFile \/ RemoveFile) => Keeps' /\ ExitZeroMeansBuilt'
<1> SUFFICES ASSUME Builds, Keeps, WriteFile \/ RemoveFile
             PROVE  Keeps' /\ ExitZeroMeansBuilt'
  OBVIOUS
<1>1. /\ SameCommand /\ child' = child /\ status = Running /\ todo # <<>>
      /\ Head(todo).op \in {"write", "remove"}
  BY DEF WriteFile, RemoveFile, SameCommand, At
<1>2. child = NoChild
  BY <1>1 DEF Builds, BuildInv, AtProcess, At
<1>3. Left = todo /\ child.code = 0 /\ IsSeq(todo)
  BY <1>2 DEF Left, NoChild, Builds, BuildInv, StepsFit
<1>4. CASE status' = 1
  BY <1>1, <1>4, KeepsEnd DEF Running
<1>5. CASE status' # 1
  <2>1. /\ status' = Running /\ todo' = Tail(todo)
        /\ files' = After(files, Head(todo))
    BY <1>1, <1>5 DEF WriteFile, RemoveFile, Fails, At, After
  <2>2. PICK s : s = todo
    OBVIOUS
  <2>3. PICK f : f = files
    OBVIOUS
  <2>4. Apart => Promise(f, s)
    BY <1>1, <1>3, <2>2, <2>3 DEF Keeps, Promised
  <2>5. Apart => Promise(After(f, Head(s)), Tail(s))
    BY <1>1, <1>3, <2>2, <2>4, PromiseStep
  <2>6. PICK g : g = After(f, Head(s))
    OBVIOUS
  <2>7. PICK t : t = Tail(s)
    OBVIOUS
  <2>8. g = files' /\ t = todo' /\ (Apart => Promise(g, t))
    BY <2>1, <2>2, <2>3, <2>5, <2>6, <2>7
  <2> QED BY <1>1, <1>2, <2>1, <2>8, KeepsGoes
<1> QED BY <1>4, <1>5

\* A step of the child, which leaves the command where it is.
LEMMA KeepsChild ==
    ASSUME Keeps, SameCommand, status = Running, status' = Running,
           child'.st = "exited" => child'.out = <<>>,
           child'.code = 0, NEW f, NEW s, f = files', s = Left',
           Apart => Promise(f, s),
           Apart /\ At("listing")' => Listed' = RuntimeMembers
    PROVE  Keeps' /\ ExitZeroMeansBuilt'
<1>1. Apart => Promised'
  BY PromisedIs
<1>2. Apart' = Apart
  BY SameApart
<1> QED BY <1>1, <1>2 DEF Keeps, ExitZeroMeansBuilt, Running

\* How the output of a child is split.
LEMMA Split ==
    ASSUME NEW got \in Seq(Lines), NEW pipe \in Seq(Lines), NEW out \in Seq(Lines)
    PROVE  /\ ((got \o pipe) \o <<>>) \o out = (got \o pipe) \o out
           /\ (<<>> \o <<>>) \o out = out
           /\ (got \o <<>>) \o <<>> = got
           /\ out # <<>> =>
                (got \o Append(pipe, Head(out))) \o Tail(out) = (got \o pipe) \o out
<1>1. <<>> \in Seq(Lines) /\ got \o pipe \in Seq(Lines)
  BY EmptySeq, ConcatProperties
<1>2. (got \o pipe) \o <<>> = got \o pipe
  BY ONLY <1>1, ConcatEmptySeq
<1>3. <<>> \o <<>> = <<>> /\ <<>> \o out = out /\ got \o <<>> = got
  BY ONLY <1>1, got \in Seq(Lines), out \in Seq(Lines), ConcatEmptySeq
<1>4. ASSUME out # <<>>
      PROVE  (got \o Append(pipe, Head(out))) \o Tail(out) = (got \o pipe) \o out
  <2>1. PICK h : h = <<Head(out)>>
    OBVIOUS
  <2>2. PICK t : t = Tail(out)
    OBVIOUS
  <2>3. Head(out) \in Lines /\ t \in Seq(Lines)
    BY ONLY <1>4, <2>2, out \in Seq(Lines), HeadTailProperties
  <2>4. h \in Seq(Lines) /\ out = h \o t
    <3>1. out = <<Head(out)>> \o Tail(out)
      BY ONLY <1>4, out \in Seq(Lines), HeadTailProperties
    <3> QED BY <2>1, <2>2, <2>3, <3>1
  <2>5. Append(pipe, Head(out)) = pipe \o h
    BY ONLY <2>1, <2>3, pipe \in Seq(Lines), AppendIsConcat
  <2>6. pipe \o h \in Seq(Lines) /\ h \o t \in Seq(Lines) /\ got \o pipe \in Seq(Lines)
    BY ONLY <2>3, <2>4, got \in Seq(Lines), pipe \in Seq(Lines), ConcatProperties
  <2>7. got \o (pipe \o h) = (got \o pipe) \o h
    BY ONLY <2>4, got \in Seq(Lines), pipe \in Seq(Lines), ConcatAssociative, SMTT(30)
  <2>8. ((got \o pipe) \o h) \o t = (got \o pipe) \o (h \o t)
    <3>1. PICK u : u = got \o pipe
      OBVIOUS
    <3>2. u \in Seq(Lines) /\ h \in Seq(Lines) /\ t \in Seq(Lines)
      BY ONLY <2>3, <2>4, <2>6, <3>1
    <3>3. (u \o h) \o t = u \o (h \o t)
      <4> DEFINE X == Lines
      <4> HIDE DEF X
      <4>1. u \in Seq(X) /\ h \in Seq(X) /\ t \in Seq(X)
        BY ONLY <3>2 DEF X
      <4> QED BY ONLY <4>1, ConcatAssociative, SMTT(30)
    <3> QED BY ONLY <3>1, <3>3
  <2> QED BY ONLY <2>2, <2>4, <2>5, <2>7, <2>8
<1> QED BY <1>1, <1>2, <1>3, <1>4

LEMMA KeepsSpawn == Builds /\ Keeps /\ Spawn => Keeps' /\ ExitZeroMeansBuilt'
<1> SUFFICES ASSUME Builds, Keeps, Spawn PROVE Keeps' /\ ExitZeroMeansBuilt'
  OBVIOUS
<1>1. /\ SameCommand /\ files' = files /\ todo' = todo /\ status' = status
      /\ status = Running /\ AtProcess /\ child.st = "none"
      /\ child' = [NoChild EXCEPT !.st = "running", !.out = Output, !.writer = FALSE]
  BY DEF Spawn, SameCommand, AtProcess, At
<1>2. child = NoChild
  BY <1>1 DEF Builds, BuildInv
<1>3. /\ child'.st = "running" /\ child'.out = Output /\ child'.code = 0
      /\ child'.pipe = <<>> /\ child'.got = <<>>
  BY <1>1 DEF NoChild
<1>4. child.st = "none" /\ child.code = 0
  BY <1>2 DEF NoChild
<1>5. Left = todo /\ Left' = todo'
  BY <1>3, <1>4 DEF Left
<1>6. PICK f : f = files
  OBVIOUS
<1>7. PICK s : s = todo
  OBVIOUS
<1>8. f = files' /\ s = Left' /\ (Apart => Promise(f, s))
  BY <1>1, <1>4, <1>5, <1>6, <1>7 DEF Keeps, Promised
<1>9. ASSUME At("listing")' PROVE Listed' = RuntimeMembers
  <2>1. At("listing")
    <3>1. status' = status /\ todo' = todo
      BY <1>1
    <3> QED BY ONLY <1>9, <3>1 DEF At
  <2>2. child'.out = RuntimeMembers
    <3>1. Output = RuntimeMembers
      BY ONLY <2>1 DEF Output, At
    <3> QED BY <1>3, <3>1
  <2>3. RuntimeMembers \in Seq(Lines)
    <3>1. RuntimeMembers \in Seq(STRING) /\ STRING \subseteq Lines
      BY BuildAssumption DEF BuildAssumption, Lines
    <3> QED BY ONLY <3>1, SeqWider
  <2>4. (<<>> \o <<>>) \o RuntimeMembers = RuntimeMembers
    <3>1. <<>> \in Seq(Lines)
      BY EmptySeq
    <3> QED BY ONLY <2>3, <3>1, Split
  <2> QED BY <1>3, <2>2, <2>4 DEF Listed
<1> QED BY <1>1, <1>3, <1>8, <1>9, KeepsChild

\* A line goes into the pipe, or out of it.
LEMMA KeepsLine == Builds /\ Keeps /\ (ChildWrites \/ ParentReads) => Keeps' /\ ExitZeroMeansBuilt'
<1> SUFFICES ASSUME Builds, Keeps, ChildWrites \/ ParentReads
             PROVE  Keeps' /\ ExitZeroMeansBuilt'
  OBVIOUS
<1>1. /\ SameCommand /\ files' = files /\ todo' = todo /\ status' = status
  BY DEF ChildWrites, ParentReads, SameCommand
<1>2. child \in Children /\ child.st # "none" /\ status = Running
  BY NoChildTyped DEF Builds, BuildInv, ChildWrites, ParentReads, NoChild
<1>3. /\ child.out \in Seq(Lines) /\ child.pipe \in Seq(Lines) /\ child.got \in Seq(Lines)
      /\ child.code \in {0, 1}
  BY <1>2 DEF Children
<1>4. /\ child'.st = child.st /\ child'.code = child.code
      /\ child.st = "exited" => child'.out = child.out
      /\ Listed' = Listed
  <2>1. CASE ChildWrites
    <3>1. /\ child.out # <<>> /\ child.st = "running"
          /\ child' = [child EXCEPT !.pipe = Append(@, Head(child.out)), !.out = Tail(@)]
      BY <2>1 DEF ChildWrites
    <3>2. /\ child'.st = child.st /\ child'.code = child.code /\ child'.got = child.got
          /\ child'.pipe = Append(child.pipe, Head(child.out)) /\ child'.out = Tail(child.out)
      BY <1>2, <3>1 DEF Children
    <3>3. (child.got \o Append(child.pipe, Head(child.out))) \o Tail(child.out)
            = (child.got \o child.pipe) \o child.out
      BY ONLY <1>3, <3>1, Split, ZenonT(60)
    <3> QED BY <3>1, <3>2, <3>3 DEF Listed
  <2>2. CASE ParentReads
    <3>1. child' = [child EXCEPT !.got = @ \o child.pipe, !.pipe = <<>>]
      BY <2>2 DEF ParentReads
    <3>2. /\ child'.st = child.st /\ child'.code = child.code /\ child'.out = child.out
          /\ child'.got = child.got \o child.pipe /\ child'.pipe = <<>>
      BY <1>2, <3>1 DEF Children
    <3>3. ((child.got \o child.pipe) \o <<>>) \o child.out = (child.got \o child.pipe) \o child.out
      BY ONLY <1>3, Split
    <3> QED BY <3>2, <3>3 DEF Listed
  <2> QED BY <2>1, <2>2
<1>5. Left' = Left
  BY <1>1, <1>4 DEF Left, At
<1>6. CASE child.code = 0
  <2>1. PICK f : f = files
    OBVIOUS
  <2>2. PICK s : s = Left
    OBVIOUS
  <2>3. f = files' /\ s = Left' /\ (Apart => Promise(f, s))
    BY <1>1, <1>2, <1>5, <1>6, <2>1, <2>2 DEF Keeps, Promised
  <2>4. Apart /\ At("listing")' => Listed' = RuntimeMembers
    BY <1>1, <1>2, <1>4, <1>6 DEF Keeps, At
  <2>5. child'.st = "exited" => child'.out = <<>>
    BY <1>4 DEF Keeps
  <2> QED BY <1>1, <1>2, <1>4, <1>6, <2>3, <2>4, <2>5, KeepsChild
<1>7. CASE child.code = 1
  BY <1>1, <1>2, <1>4, <1>7 DEF Keeps, ExitZeroMeansBuilt, Running
<1> QED BY <1>3, <1>6, <1>7

\* The child has done what it was started for.
LEMMA KeepsExits == Builds /\ Keeps /\ ChildExits => Keeps' /\ ExitZeroMeansBuilt'
<1> SUFFICES ASSUME Builds, Keeps, ChildExits PROVE Keeps' /\ ExitZeroMeansBuilt'
  OBVIOUS
<1>1. /\ SameCommand /\ todo' = todo /\ status' = status
      /\ child.st = "running" /\ child.out = <<>>
      /\ child' = [child EXCEPT !.st = "exited", !.code = 0]
      /\ ~At("tool") => files' = files
      /\ At("tool") => /\ ToSet(Head(todo).reads) \subseteq DOMAIN files
                       /\ files' = Put(files, Head(todo).path, Made(files, Head(todo)))
  BY DEF ChildExits, SameCommand
<1>2. child \in Children /\ status = Running /\ IsSeq(todo) /\ AtProcess
  BY <1>1, NoChildTyped DEF Builds, BuildInv, StepsFit
<1>3. /\ child'.st = "exited" /\ child'.code = 0 /\ child'.out = <<>>
      /\ child'.pipe = child.pipe /\ child'.got = child.got
  BY <1>1, <1>2 DEF Children
<1>4. child.code = 0
  BY <1>1, <1>2 DEF Keeps, Children
<1>5. Left = todo /\ todo # <<>> /\ Head(todo).op \in {"tool", "query", "listing"}
  BY <1>1, <1>2 DEF Left, AtProcess, At
<1>6. Listed' = Listed
  BY <1>1, <1>3 DEF Listed
<1>7. Apart /\ At("listing")' => Listed' = RuntimeMembers
  <2>1. At("listing")' => At("listing")
    <3>1. status' = status /\ todo' = todo
      BY <1>1
    <3> QED BY ONLY <3>1 DEF At
  <2> QED BY <1>1, <1>2, <1>4, <1>6, <2>1 DEF Keeps
<1>8. PICK s : s = todo
  OBVIOUS
<1>9. PICK f : f = files
  OBVIOUS
<1>10. Apart => Promise(f, s)
  BY <1>2, <1>4, <1>5, <1>8, <1>9 DEF Keeps, Promised
<1>11. CASE Head(todo).op = "listing"
  <2>1. files' = files
    BY <1>1, <1>11 DEF At
  <2>2. Left' = todo
    BY <1>1, <1>2, <1>5, <1>11 DEF Left, At
  <2>3. f = files' /\ s = Left'
    BY <1>8, <1>9, <2>1, <2>2
  <2> QED BY <1>1, <1>2, <1>3, <1>7, <1>10, <2>3, KeepsChild
<1>12. CASE Head(todo).op \in {"tool", "query"}
  <2>1. files' = After(files, Head(todo))
    BY <1>1, <1>2, <1>5, <1>12 DEF At, After
  <2>2. Left' = Tail(todo)
    BY <1>1, <1>2, <1>3, <1>5, <1>12 DEF Left, At
  <2>3. Head(s).op = "tool" => ToSet(Head(s).reads) \subseteq DOMAIN f
    BY <1>1, <1>2, <1>5, <1>8, <1>9 DEF At
  <2>4. Apart => Promise(After(f, Head(s)), Tail(s))
    BY <1>2, <1>5, <1>8, <1>10, <1>12, <2>3, PromiseStep
  <2>5. PICK g : g = After(f, Head(s))
    OBVIOUS
  <2>6. PICK t : t = Tail(s)
    OBVIOUS
  <2>7. g = files' /\ t = Left' /\ (Apart => Promise(g, t))
    BY <1>8, <1>9, <2>1, <2>2, <2>4, <2>5, <2>6
  <2> QED BY <1>1, <1>2, <1>3, <1>7, <2>7, KeepsChild
<1> QED BY <1>5, <1>11, <1>12

LEMMA KeepsFails == Builds /\ Keeps /\ ChildFails => Keeps' /\ ExitZeroMeansBuilt'
<1> SUFFICES ASSUME Builds, Keeps, ChildFails PROVE Keeps' /\ ExitZeroMeansBuilt'
  OBVIOUS
<1>1. /\ status' = status /\ child.st = "running"
      /\ child' = [child EXCEPT !.st = "exited", !.code = 1, !.out = <<>>]
  BY DEF ChildFails
<1>2. child \in Children /\ status = Running
  BY <1>1, NoChildTyped DEF Builds, BuildInv
<1>3. child'.st = "exited" /\ child'.code = 1 /\ child'.out = <<>>
  BY <1>1, <1>2 DEF Children
<1> QED BY <1>1, <1>2, <1>3 DEF Keeps, ExitZeroMeansBuilt, Running

\* The command goes on with what its child has done and has said.
LEMMA KeepsWaits == Builds /\ Keeps /\ wait_for => Keeps' /\ ExitZeroMeansBuilt'
<1> SUFFICES ASSUME Builds, Keeps, wait_for PROVE Keeps' /\ ExitZeroMeansBuilt'
  OBVIOUS
<1>1. /\ SameCommand /\ files' = files /\ child' = NoChild /\ child.st = "exited"
      /\ Captures => child.pipe = <<>>
      /\ child.code # 0 => status' = 1
      /\ child.code = 0 =>
            /\ status' = status
            /\ todo' = IF At("listing") THEN bundle(ObjectPath, child.got) ELSE Tail(todo)
  BY DEF wait_for, SameCommand, Fails
<1>2. child \in Children /\ status = Running /\ IsSeq(todo) /\ AtProcess
  BY <1>1, NoChildTyped DEF Builds, BuildInv, StepsFit
<1>3. CASE child.code # 0
  BY <1>1, <1>3, KeepsEnd DEF Running
<1>4. CASE child.code = 0 /\ ~At("listing")
  <2>1. PICK f : f = files
    OBVIOUS
  <2>2. PICK s : s = Tail(todo)
    OBVIOUS
  <2>3. Left = Tail(todo)
    BY <1>1, <1>4 DEF Left
  <2>4. f = files' /\ s = todo' /\ (Apart => Promise(f, s))
    BY <1>1, <1>2, <1>4, <2>1, <2>2, <2>3 DEF Keeps, Promised
  <2> QED BY <1>1, <1>2, <1>4, <2>4, KeepsGoes
<1>5. CASE child.code = 0 /\ At("listing")
  <2>1. Left = todo /\ todo # <<>> /\ Head(todo).op = "listing"
    BY <1>5 DEF Left, At
  <2>2. PICK f : f = files
    OBVIOUS
  <2>3. PICK s : s = todo
    OBVIOUS
  <2>4. Apart => Promise(f, s)
    BY <1>2, <1>5, <2>1, <2>2, <2>3 DEF Keeps, Promised
  <2>5. Apart => Promise(f, bundle(ObjectPath, RuntimeMembers))
    BY <1>2, <2>1, <2>3, <2>4, ListingPromise
  <2>6. Apart => child.got = RuntimeMembers
    <3>1. child.pipe = <<>> /\ child.out = <<>>
      BY <1>1, <1>5 DEF Captures, Keeps
    <3>2. Apart => (child.got \o <<>>) \o <<>> = RuntimeMembers
      BY <1>1, <1>2, <1>5, <3>1 DEF Keeps, Listed
    <3>3. child.got \in Seq(Lines) /\ <<>> \in Seq(Lines)
      BY <1>2, EmptySeq DEF Children
    <3>4. (child.got \o <<>>) \o <<>> = child.got
      BY ONLY <3>3, Split
    <3> QED BY <3>2, <3>4
  <2>7. PICK t : t = todo'
    OBVIOUS
  <2>8. Apart => Promise(f, t)
    BY <1>1, <1>5, <2>5, <2>6, <2>7
  <2>9. f = files'
    BY <1>1, <2>2
  <2> QED BY <1>1, <1>2, <1>5, <2>7, <2>8, <2>9, KeepsGoes
<1> QED BY <1>3, <1>4, <1>5

\* Another command, or another version of a source.
LEMMA KeepsEdit == Builds /\ Keeps /\ Edit => Keeps' /\ ExitZeroMeansBuilt'
<1> SUFFICES ASSUME Builds, Keeps, Edit PROVE Keeps' /\ ExitZeroMeansBuilt'
  OBVIOUS
<1>1. status' = status /\ status # Running /\ child' = child /\ unit' = NoUnit
  BY DEF Edit, Idle
<1> QED BY <1>1 DEF Keeps, ExitZeroMeansBuilt

LEMMA KeepsStart == Builds /\ Keeps /\ Start => Keeps' /\ ExitZeroMeansBuilt'
<1> SUFFICES ASSUME Builds, Keeps, Start PROVE Keeps' /\ ExitZeroMeansBuilt'
  OBVIOUS
<1>1. /\ files' = files /\ before' = files /\ child' = child /\ status # Running
      /\ status' # Running => unit' = NoUnit
      /\ status' = Running => todo' = Steps'
  BY DEF Start, Idle
<1>2. child = NoChild
  BY <1>1 DEF Builds, BuildInv
<1>3. child'.st = "none" /\ child'.code = 0
  BY <1>1, <1>2 DEF NoChild
<1>4. CASE status' # Running
  BY <1>1, <1>3, <1>4 DEF Keeps, ExitZeroMeansBuilt
<1>5. CASE status' = Running
  <2>1. o' \in Options /\ Placed(unit')
    BY StartUnit DEF Builds
  <2>2. Placed(unit)'
    BY <2>1 DEF Placed, IsPath, IsSeq, ToSet
  <2>3. Left' = Steps'
    BY <1>1, <1>3, <1>5 DEF Left
  <2>4. files' = before'
    BY <1>1
  <2>5. Apart' => Promised'
    BY <2>1, <2>2, <2>3, <2>4, PromisedFirst
  <2> QED BY <1>3, <1>5, <2>5 DEF Keeps, ExitZeroMeansBuilt, Running
<1> QED BY <1>4, <1>5

\* Every state keeps the promise of the command that runs.
LEMMA KeepsAlways == Spec => [](Keeps /\ ExitZeroMeansBuilt)
<1>1. Init => Keeps /\ ExitZeroMeansBuilt
  BY DEF Init, Keeps, ExitZeroMeansBuilt, NoChild, Running
<1>2. Builds /\ Keeps /\ ExitZeroMeansBuilt /\ [Next]_vars => Keeps' /\ ExitZeroMeansBuilt'
  <2> SUFFICES ASSUME Builds, Keeps, ExitZeroMeansBuilt, [Next]_vars
               PROVE  Keeps' /\ ExitZeroMeansBuilt'
    OBVIOUS
  <2>1. CASE UNCHANGED vars
    <3>1. SameCommand /\ files' = files /\ Left' = Left /\ child' = child
          /\ status' = status /\ todo' = todo
      BY <2>1 DEF vars, SameCommand, Left, At
    <3>2. PICK f : f = files
      OBVIOUS
    <3>3. PICK s : s = Left
      OBVIOUS
    <3>4. f = files' /\ s = Left' /\ (Promised => Promise(f, s))
      BY <3>1, <3>2, <3>3 DEF Promised
    <3>5. Promised => Promised'
      BY <3>1, <3>4, PromisedIs
    <3>6. Apart' = Apart /\ Wanted' = Wanted
      BY <3>1, SameApart, SameWanted
    <3>7. Keeps'
      BY <3>1, <3>5, <3>6 DEF Keeps, Listed, At
    <3>8. ExitZeroMeansBuilt'
      BY <2>1, <3>1, <3>6 DEF ExitZeroMeansBuilt, vars
    <3> QED BY <3>7, <3>8
  <2>2. CASE Next
    <3>1. CASE StepFails \/ SpawnFails \/ Crash
      <4>1. status' # Running /\ status' # 0 /\ child' \in {child, NoChild}
        BY <3>1 DEF StepFails, SpawnFails, Crash, Fails, Running, Killed
      <4> QED BY <4>1, KeepsEnd
    <3>2. CASE ~(StepFails \/ SpawnFails \/ Crash)
      BY <2>2, <3>2, KeepsEdit, KeepsStart, KeepsFinish, KeepsWrite, KeepsSpawn, KeepsLine,
         KeepsExits, KeepsFails, KeepsWaits DEF Next, Work
    <3> QED BY <3>1, <3>2
  <2> QED BY <2>1, <2>2
<1> QED BY <1>1, <1>2, BuildAlways, PTL DEF Spec

\* Exit status 0 means that every file the command is for holds what this
\* command made of the sources as they are (src/driver.c, driver_run, and
\* src/process.c): whatever the files are called, whatever lay there before,
\* and however often writes, tools and whole commands failed in between. The
\* hypothesis Apart of the property is that -o and the objects of the command
\* line do not name files the build itself writes on the way.
THEOREM Built == Spec => []ExitZeroMeansBuilt
<1>1. Keeps /\ ExitZeroMeansBuilt => ExitZeroMeansBuilt
  OBVIOUS
<1> QED BY <1>1, KeepsAlways, PTL

-----------------------------------------------------------------------------
(* The notice of what a command links.                                     *)

NoticeDue(asm) ==
    /\ RuntimePackage \in asm.packages
    /\ \A p \in asm.packages : Noticed(asm, p)

\* The packages of the libraries, in the order that they are loaded in.
LEMMA PackagesAre ==
    ASSUME NEW u, NEW P, u.found.out \in Seq(P),
           u.load.order \in Seq(1 .. Len(u.found.out)),
           \A i \in 1 .. Len(u.found.out) : \E k \in DOMAIN u.load.order : u.load.order[k] = i
    PROVE  /\ ToSet(Packages(u)) = {files[p].package : p \in ToSet(u.found.out)}
           /\ IsSeq(Packages(u))
<1> DEFINE found == u.found.out
           order == u.load.order
           packages == Packages(u)
           N == Len(order)
<1>1. /\ DOMAIN found = 1 .. Len(found) /\ N \in Nat /\ DOMAIN order = 1 .. N
      /\ \A k \in 1 .. N : order[k] \in 1 .. Len(found)
  BY LenProperties, ElementOfSeq
<1>2. /\ DOMAIN packages = 1 .. N
      /\ \A k \in 1 .. N : packages[k] = files[found[order[k]]].package
  BY <1>1 DEF Packages
<1>3. packages = [k \in 1 .. N |-> packages[k]]
  BY <1>1 DEF Packages
<1>4. \A i \in 1 .. Len(found) : \E k \in 1 .. N : order[k] = i
  BY <1>1
<1> HIDE DEF found, order, packages, N
<1>5. ToSet(packages) = {packages[k] : k \in 1 .. N} /\ ToSet(found) = {found[i] : i \in 1 .. Len(found)}
  BY ONLY <1>1, <1>2 DEF ToSet
<1>6. ToSet(packages) = {files[p].package : p \in ToSet(found)}
  <2> DEFINE Y == {files[p].package : p \in ToSet(found)}
  <2>1. ASSUME NEW k \in 1 .. N PROVE packages[k] \in Y
    <3>1. found[order[k]] \in ToSet(found)
      BY <1>1, <1>5
    <3> QED BY <1>2, <3>1
  <2>2. ASSUME NEW p \in ToSet(found)
        PROVE  \E k \in 1 .. N : packages[k] = files[p].package
    <3>1. PICK i \in 1 .. Len(found) : p = found[i]
      BY <1>5
    <3>2. PICK k \in 1 .. N : order[k] = i
      BY <1>4
    <3> QED BY <1>2, <3>1, <3>2
  <2>3. \A y \in Y : \E k \in 1 .. N : packages[k] = y
    BY <2>2
  <2> HIDE DEF Y
  <2>4. ToSet(packages) = Y
    BY ONLY <1>5, <2>1, <2>3
  <2> QED BY <2>4 DEF Y
<1>7. IsSeq(packages)
  <2> DEFINE Y == ToSet(packages)
  <2>1. \A k \in 1 .. N : packages[k] \in Y
    BY <1>5
  <2> HIDE DEF Y
  <2>2. packages \in Seq(Y)
    BY ONLY <1>1, <1>3, <2>1
  <2> QED BY <2>2 DEF Y, IsSeq
<1> QED BY <1>6, <1>7 DEF found, packages

\* What the assembly of a program or a shared library says of its packages.
LEMMA AssemblyDue ==
    ASSUME NEW opts, NEW version, NEW u, IsSeq(Packages(u)),
           ToSet(Packages(u)) = {files[p].package : p \in ToSet(u.found.out)},
           u.notice = notice_text(build_notice(RuntimePackage, u.package, Packages(u)))
    PROVE  NoticeDue(Assembly(opts, version, u, TRUE))
<1> DEFINE A == {RuntimePackage, u.package} \cup {files[p].package : p \in ToSet(u.found.out)}
<1>1. PICK asm : asm = Assembly(opts, version, u, TRUE)
  OBVIOUS
<1>2. asm.packages = A /\ asm.notice = u.notice
  BY <1>1 DEF Assembly
<1>3. PICK r, own, s : r = RuntimePackage /\ own = u.package /\ s = Packages(u)
  OBVIOUS
<1>4. A = {r, own} \cup ToSet(s) /\ s \in Seq(A) /\ r \in A /\ own \in A
  <2>1. A = {r, own} \cup ToSet(s)
    BY <1>3
  <2>2. s \in Seq(ToSet(s)) /\ ToSet(s) \subseteq A
    BY <1>3, <2>1 DEF IsSeq
  <2> HIDE DEF A
  <2> QED BY ONLY <2>1, <2>2
<1>5. PICK n : n = notice_text(build_notice(r, own, s))
  OBVIOUS
<1>6. asm.notice = n
  BY <1>2, <1>3, <1>5
<1> HIDE DEF A
<1>7. ASSUME NEW p \in A PROVE Noticed(asm, p)
  <2>1. /\ NamedOnce(n, p)
        /\ p.text # "" /\ (\A q \in A : q.name = p.name => q.text = p.text) => TextShown(n, p)
    BY ONLY <1>4, <1>5, p \in A, NoticeIs
  <2> QED BY ONLY <1>2, <1>6, <2>1 DEF Noticed, NamedOnce, TextShown
<1>8. RuntimePackage \in A
  BY <1>3, <1>4
<1>9. NoticeDue(asm)
  BY <1>2, <1>7, <1>8 DEF NoticeDue
<1> QED BY <1>1, <1>9

\* A program and a shared library carry a notice that is complete.
Due(opts, u) ==
    /\ u.status \notin {1, 2, 3} /\ "-S" \notin opts.flags /\ opts.lib # "static"
    => NoticeDue(u.asm)

PackagesFit(u) ==
    /\ IsSeq(Packages(u))
    /\ ToSet(Packages(u)) = {files[p].package : p \in ToSet(u.found.out)}

LEMMA LoadedPackages ==
    ASSUME NEW with \in Options, FilesFit(files), NEW imports \in Seq(Modules),
           NEW module, NEW u, u.found = find_libraries(with, files, imports),
           u.load = load_libraries(files, u.found.out, module), u.load.ok
    PROVE  PackagesFit(u)
<1> DEFINE found == u.found.out
           load == u.load
<1>1. FilesOK(files) /\ with.roots \in Seq(Seq(STRING)) /\ with.libraries \in Seq(Paths)
  BY FitIsOK DEF Options
<1>2. found \in Seq(Paths \cup DOMAIN files)
  <2>1. PICK r : r = find_libraries(with, files, imports)
    OBVIOUS
  <2>2. r.out \in Seq(Paths \cup DOMAIN files)
    BY ONLY <1>1, <2>1, imports \in Seq(Modules), FindIs
  <2>3. u.found = r
    BY <2>1
  <2> QED BY ONLY <2>2, <2>3
<1>3. /\ load.order \in Seq(1 .. Len(found))
      /\ \A i \in 1 .. Len(found) : \E k \in DOMAIN load.order : load.order[k] = i
  <2>1. load = load_libraries(files, found, module) /\ load.ok
    OBVIOUS
  <2> HIDE DEF found, load
  <2> QED BY ONLY <1>2, <2>1, LoadIs
<1>4. \A i \in 1 .. Len(u.found.out) : \E k \in DOMAIN u.load.order : u.load.order[k] = i
  BY ONLY <1>3
<1>5. u.found.out \in Seq(Paths \cup DOMAIN files) /\ u.load.order \in Seq(1 .. Len(u.found.out))
  BY ONLY <1>2, <1>3
<1>6. PICK Q : Q = Paths \cup DOMAIN files
  OBVIOUS
<1>7. u.found.out \in Seq(Q)
  BY ONLY <1>5, <1>6
<1> QED BY ONLY <1>4, <1>5, <1>7, PackagesAre DEF PackagesFit

LEMMA BackEndDue ==
    ASSUME NEW opts, NEW src, NEW u, DOMAIN u = Fields, PackagesFit(u),
           u.notice = notice_text(build_notice(RuntimePackage, u.package, Packages(u)))
    PROVE  Due(opts, back_end(opts, src, u))
<1> DEFINE dump == opts.flags \cap {"--dump-select", "--dump-alloc"} # {}
           dev  == "--dev" \in opts.flags
           s    == IF \/ src.error = "lower"
                      \/ ~dump /\ "-S" \notin opts.flags /\ ~dev
                         /\ opts.lib = "none" /\ ~src.main
                      \/ src.error = "select"
                   THEN 1
                   ELSE IF dump THEN 2
                   ELSE IF dev /\ ~src.main THEN 3 ELSE 0
           with == s # 3 /\ "-S" \notin opts.flags /\ opts.lib # "static"
           y    == Assembly(opts, src.version, u, with)
           a    == IF s \in {0, 3} THEN y ELSE u.asm
           b    == back_end(opts, src, u)
<1>1. b = [u EXCEPT !.status = s, !.asm = a]
  BY DEF back_end, Fields
<1>2. s \in {0, 1, 2, 3}
  OBVIOUS
<1> HIDE DEF s, a, b
<1>3. b.status = s /\ b.asm = a
  BY <1>1 DEF Fields
<1>4. SUFFICES ASSUME s = 0, "-S" \notin opts.flags, opts.lib # "static" PROVE NoticeDue(a)
  BY <1>2, <1>3 DEF Due, b
<1>5. a = Assembly(opts, src.version, u, TRUE)
  <2>1. with = TRUE
    BY <1>4
  <2>2. a = y
    BY <1>4 DEF a
  <2> HIDE DEF with
  <2> QED BY <2>1, <2>2
<1> QED BY ONLY <1>5, PackagesFit(u), AssemblyDue,
           u.notice = notice_text(build_notice(RuntimePackage, u.package, Packages(u)))
        DEF PackagesFit

LEMMA CheckedDue ==
    ASSUME NEW opts, NEW src, NEW u, DOMAIN u = Fields, u.status = 1, PackagesFit(u),
           opts.flags \cap {"--dump-tokens", "--dump-ast"} = {}
    PROVE  DOMAIN Checked(opts, src, u) = Fields => Due(opts, Checked(opts, src, u))
<1> DEFINE own  == own_interface(opts, u.module)
           n    == notice_text(build_notice(RuntimePackage, own, Packages(u)))
           full == [u EXCEPT !.notice = n]
           with == [full EXCEPT !.package = own]
           t    == [u EXCEPT !.status = 2]
           antl == [kind |-> "antl", header |-> TRUE, body |-> TRUE,
                    module |-> u.module, imports |-> src.imports,
                    package |-> own, version |-> src.version,
                    main |-> src.main, error |-> ""]
           c    == [u EXCEPT !.status = 2, !.antl = antl]
           e    == IF src.error = "lower" THEN 1 ELSE 2
           d    == [u EXCEPT !.status = e]
           x    == back_end(opts, src, u)
           r    == Checked(opts, src, u)
           quiet == opts.flags \cap {"--dump-types", "--dump-ir", "--dump-opt", "-c"} = {}
<1>1. \/ r \in {t, u, c, d, back_end(opts, src, with)}
      \/ r = x /\ ~(opts.lib # "none" \/ links(opts)) /\ quiet
  <2> HIDE DEF own
  <2> QED BY DEF Checked, own
<1>2. \A y : y.status \in {1, 2, 3} => Due(opts, y)
  BY DEF Due
<1>3. t.status = 2 /\ c.status = 2 /\ d.status \in {1, 2}
  <2>1. e \in {1, 2}
    OBVIOUS
  <2> HIDE DEF e, antl
  <2> QED BY <2>1 DEF Fields
<1>4. Due(opts, back_end(opts, src, with))
  <2>1. PICK m : m = with
    OBVIOUS
  <2>2. PICK p : p = Packages(u)
    OBVIOUS
  <2>3. /\ DOMAIN m = Fields /\ m.load = u.load /\ m.found = u.found /\ m.package = own
        /\ m.notice = n
    <3> HIDE DEF n, own
    <3> QED BY <2>1 DEF Fields
  <2>4. Packages(m) = Packages(u)
    BY <2>3 DEF Packages
  <2>5. PackagesFit(m)
    BY ONLY <2>3, <2>4, PackagesFit(u) DEF PackagesFit
  <2>6. m.notice = notice_text(build_notice(RuntimePackage, m.package, Packages(m)))
    BY ONLY <2>3, <2>4 DEF n
  <2>7. Due(opts, back_end(opts, src, m))
    BY ONLY <2>3, <2>5, <2>6, BackEndDue
  <2> QED BY <2>1, <2>7
<1>5. CASE r = x /\ ~(opts.lib # "none" \/ links(opts)) /\ quiet
  <2>1. opts.flags \cap {"--dump-select", "--dump-alloc"} # {} \/ "-S" \in opts.flags
    BY <1>5 DEF links, Dumps
  <2>2. CASE opts.flags \cap {"--dump-select", "--dump-alloc"} # {}
    <3>1. \E s \in {1, 2} : \E a : x = [u EXCEPT !.status = s, !.asm = a]
      BY <2>2 DEF back_end
    <3>2. PICK s \in {1, 2} : \E a : x = [u EXCEPT !.status = s, !.asm = a]
      BY <3>1
    <3>3. x.status = s
      <4> HIDE DEF x
      <4> QED BY <3>2 DEF Fields
    <3> HIDE DEF x
    <3> QED BY <1>2, <1>5, <3>3
  <2>3. CASE "-S" \in opts.flags
    BY <2>3 DEF Due
  <2> QED BY <2>1, <2>2, <2>3
<1> HIDE DEF t, c, d, x, r, with
<1> QED BY <1>1, <1>2, <1>3, <1>4, <1>5 DEF r

LEMMA CompileDue ==
    ASSUME NEW opts \in Options, opts.input \in Paths, FilesFit(files)
    PROVE  Due(opts, compile(opts))
<1> DEFINE src  == files[opts.input]
           name == module_name(opts)
           find == find_libraries(opts, files, src.imports)
           load == load_libraries(files, find.out, name.module)
           u    == [NoUnit EXCEPT !.module = name.module, !.found = find]
           v    == [u EXCEPT !.load = load]
           w    == Checked(opts, src, v)
           x    == [w EXCEPT !.base = base_name(opts, name.module)]
           two  == [NoUnit EXCEPT !.status = 2]
           here == /\ opts.input \in DOMAIN files /\ files[opts.input].kind = "source"
                   /\ opts.flags \cap {"--dump-tokens", "--dump-ast"} = {} /\ load.ok
           r    == compile(opts)
<1>1. r \in {NoUnit, two, u, v} \/ (here /\ r = x)
  <2> HIDE DEF find, load, name, w
  <2> QED BY DEF compile, find, load, name, w
<1>2. NoUnit.status = 1 /\ DOMAIN NoUnit = Fields /\ UnitFits(NoUnit)
  BY NoUnitFits DEF NoUnit
<1> HIDE DEF find, load, name
<1>3. /\ two.status = 2 /\ u.status = 1 /\ v.status = 1 /\ DOMAIN v = Fields
      /\ v.found = find /\ v.load = load /\ v.module = name.module /\ UnitFits(v)
  <2> HIDE DEF NoUnit
  <2>1. /\ two.status = 2 /\ u.status = 1 /\ v.status = 1 /\ DOMAIN v = Fields
        /\ v.found = find /\ v.load = load /\ v.module = name.module
        /\ v.asm = NoUnit.asm /\ v.antl = NoUnit.antl
    BY <1>2 DEF Fields
  <2> HIDE DEF v
  <2> QED BY <1>2, <2>1 DEF UnitFits
<1>4. \A y : y.status \in {1, 2, 3} => Due(opts, y)
  BY DEF Due
<1>5. CASE r \in {NoUnit, two, u, v}
  <2> HIDE DEF r, two, u, v, NoUnit
  <2> QED BY <1>2, <1>3, <1>4, <1>5 DEF r
<1>6. ASSUME here, r = x PROVE Due(opts, r)
  <2>1. src.imports \in Seq(Modules)
    BY <1>6 DEF FilesFit, Legible
  <2>2. name.module \in Modules
    <3>1. opts.roots \in Seq(Seq(STRING))
      BY DEF Options
    <3>2. module_path_of_source(opts.input, opts.roots).module \in Modules
      BY ONLY <3>1, opts.input \in Paths, ModuleTyped
    <3>3. name.module = module_path_of_source(opts.input, opts.roots).module
      BY DEF name, module_name, module_path_of_source
    <3> QED BY <3>2, <3>3
  <2>3. PICK y, i, m : y = v /\ i = src.imports /\ m = name.module
    OBVIOUS
  <2>4. /\ y.found = find_libraries(opts, files, i)
        /\ y.load = load_libraries(files, y.found.out, m) /\ y.load.ok
        /\ DOMAIN y = Fields /\ y.status = 1 /\ UnitFits(y) /\ y.module \in Modules
    <3> HIDE DEF v, src
    <3>1. find = find_libraries(opts, files, i) /\ load = load_libraries(files, find.out, m)
      BY <2>3 DEF find, load, src
    <3>2. y.found = find /\ y.load = load /\ load.ok
      BY <1>3, <1>6, <2>3
    <3> QED BY <1>3, <2>2, <2>3, <3>1, <3>2
  <2>5. PackagesFit(y)
    <3>1. i \in Seq(Modules)
      BY <2>1, <2>3
    <3> QED BY ONLY opts \in Options, FilesFit(files), <2>4, <3>1, LoadedPackages
  <2>6. DOMAIN w = Fields
    <3> HIDE DEF src, v, w
    <3>1. w = Checked(opts, src, y)
      BY <2>3 DEF w
    <3> QED BY ONLY <2>1, <2>4, <3>1, CheckedKeeps
  <2>7. Due(opts, w)
    <3> HIDE DEF src, v, w
    <3>1. w = Checked(opts, src, y) /\ opts.flags \cap {"--dump-tokens", "--dump-ast"} = {}
      BY <1>6, <2>3 DEF w
    <3> QED BY ONLY <2>4, <2>5, <2>6, <3>1, CheckedDue
  <2>8. r.status = w.status /\ r.asm = w.asm
    <3> HIDE DEF w, r, here
    <3> QED BY <1>6, <2>6 DEF Fields
  <2> HIDE DEF r, w
  <2> QED BY <2>7, <2>8 DEF Due
<1> HIDE DEF x, here, two, u, v
<1> QED BY <1>1, <1>5, <1>6 DEF r

LEMMA LibraryFileDue ==
    ASSUME NEW opts
    PROVE  Due(opts, compile_library_file(opts))
<1> DEFINE with == [opts EXCEPT !.libraries = <<opts.input>> \o @]
           find == find_libraries(with, files, <<>>)
           load == load_libraries(files, find.out, <<>>)
           u    == [NoUnit EXCEPT !.found = find]
           v    == [u EXCEPT !.load = load]
           m    == files[opts.input].module
           w    == [u EXCEPT !.load = load, !.module = m]
           b    == back_end(opts, files[opts.input], w)
           base == IF Has(opts, "-o") THEN opts.slot["-o"].path ELSE Stem(opts.input)
           c    == [b EXCEPT !.status = 3, !.base = base]
           r    == compile_library_file(opts)
<1>1. \/ r \in {u, v, c}
      \/ r = b /\ b.status \notin {0, 3}
  <2> HIDE DEF find, load, m
  <2> QED BY DEF compile_library_file, find, load, m
<1>2. NoUnit.status = 1 /\ DOMAIN NoUnit = Fields
  BY NoUnitFits DEF NoUnit
<1> HIDE DEF find, load, m, base
<1>3. u.status = 1 /\ v.status = 1 /\ DOMAIN w = Fields
  <2> HIDE DEF NoUnit
  <2> QED BY <1>2 DEF Fields
<1>4. DOMAIN b = Fields
  <2>1. PICK s, a : b = [w EXCEPT !.status = s, !.asm = a]
    <3> HIDE DEF w
    <3> QED BY DEF back_end
  <2> HIDE DEF b, w
  <2> QED BY <1>3, <2>1
<1>5. c.status = 3
  <2> HIDE DEF b
  <2> QED BY <1>4 DEF Fields
<1>6. b.status \in {0, 1, 2, 3}
  <2> HIDE DEF w
  <2> QED BY <1>3, BackEndStatus
<1> HIDE DEF u, v, c, b, r
<1> QED BY <1>1, <1>3, <1>5, <1>6 DEF r, Due

LEMMA StartDue ==
    ASSUME BuildInv, FilesFit(files), Start
    PROVE  Due(o', unit')
<1>1. o' \in Options
  BY StartUnit
<1>2. CASE status' # Running
  <2>1. unit'.status = 1
    BY <1>2 DEF Start, NoUnit
  <2> QED BY ONLY <2>1 DEF Due
<1>3. CASE status' = Running
  <2>1. /\ unit' = IF ends_with(o'.input.suffix, ".antl") THEN compile_library_file(o')
                   ELSE compile(o')
        /\ ~Refused(o')
    BY <1>3 DEF Start, Running
  <2>2. PICK x : x = o'
    OBVIOUS
  <2>3. /\ x \in Options /\ ~Refused(x)
        /\ unit' = IF ends_with(x.input.suffix, ".antl") THEN compile_library_file(x)
                   ELSE compile(x)
    BY <1>1, <2>1, <2>2
  <2>4. x.input \in Paths
    <3>1. ends_with(x.input.suffix, ".anti") \/ ends_with(x.input.suffix, ".antl")
      BY ONLY <2>3 DEF Refused
    <3>2. x.input # NoPath
      <4>1. NoPath.suffix = <<>>
        BY DEF NoPath, Path
      <4> QED BY ONLY <3>1, <4>1 DEF ends_with
    <3> QED BY <2>3, <3>2 DEF Options
  <2>5. PICK y, z : y = compile_library_file(x) /\ z = compile(x)
    OBVIOUS
  <2>6. Due(x, y) /\ Due(x, z)
    <3>1. Due(x, y)
      BY ONLY <2>5, LibraryFileDue
    <3>2. Due(x, z)
      BY ONLY <2>3, <2>4, <2>5, FilesFit(files), CompileDue
    <3> QED BY <3>1, <3>2
  <2>7. unit' \in {y, z}
    BY <2>3, <2>5
  <2> QED BY <2>2, <2>6, <2>7
<1> QED BY <1>2, <1>3

-----------------------------------------------------------------------------
(* The step of a command that links, and the steps that make its object.   *)

IsLink(x)   == x.op = "tool" /\ x.kind \in {"executable", "shared"}
Unlinked(s) == IsSeq(s) /\ \A x \in ToSet(s) : ~IsLink(x)

\* The steps a, run from the files f, leave the object of the unit.
Objected(f, a) ==
    \E D : Flow(D, a, f, {ObjectPath}) /\ D[ObjectPath] = ObjectOf(unit.asm)

\* The steps a before the link x, and the steps b after it.
LinkAt(f, s, a, x, b) ==
    /\ Unlinked(a) /\ Unlinked(b) /\ s = a \o (<<x>> \o b)
    /\ IsLink(x) /\ 1 \in DOMAIN x.reads /\ x.reads[1] = ObjectPath
    /\ Doomed(a) \/ Objected(f, a)

\* At most one step of s links, and what it links carries its notice.
Linking(f, s) ==
    Unlinked(s) \/ (NoticeDue(unit.asm) /\ \E a, x, b : LinkAt(f, s, a, x, b))

LEMMA UnlinkedConcat ==
    ASSUME NEW s, NEW t, Unlinked(s), Unlinked(t)
    PROVE  Unlinked(s \o t)
<1>1. IsSeq(s \o t) /\ ToSet(s \o t) = ToSet(s) \cup ToSet(t)
  BY IsSeqConcat DEF Unlinked
<1> QED BY <1>1 DEF Unlinked

LEMMA UnlinkedShort ==
    /\ Unlinked(<<>>)
    /\ \A x : ~IsLink(x) => Unlinked(<<x>>)
    /\ \A x, y : ~IsLink(x) /\ ~IsLink(y) => Unlinked(<<x, y>>)
<1>1. Unlinked(<<>>)
  BY IsSeqShort DEF Unlinked
<1>2. ASSUME NEW x, ~IsLink(x) PROVE Unlinked(<<x>>)
  <2>1. IsSeq(<<x>>) /\ ToSet(<<x>>) = {x}
    BY IsSeqShort
  <2> QED BY ONLY <1>2, <2>1 DEF Unlinked
<1>3. ASSUME NEW x, NEW y, ~IsLink(x), ~IsLink(y) PROVE Unlinked(<<x, y>>)
  <2>1. IsSeq(<<x, y>>) /\ ToSet(<<x, y>>) = {x, y}
    BY IsSeqShort
  <2> QED BY ONLY <1>3, <2>1 DEF Unlinked
<1> QED BY ONLY <1>1, <1>2, <1>3

LEMMA UnlinkedTail ==
    ASSUME NEW s, Unlinked(s), s # <<>>
    PROVE  Unlinked(Tail(s)) /\ ~IsLink(Head(s))
<1>1. /\ IsSeq(Tail(s)) /\ ToSet(Tail(s)) \subseteq ToSet(s) /\ Head(s) \in ToSet(s)
  BY IsSeqTail DEF Unlinked
<1> QED BY ONLY <1>1, Unlinked(s) DEF Unlinked

\* The steps after a link that is the first.
LEMMA LinkFirst ==
    ASSUME NEW f, NEW s, NEW a, NEW x, NEW b, LinkAt(f, s, a, x, b), a = <<>>
    PROVE  s # <<>> /\ Head(s) = x /\ Tail(s) = b
<1>1. PICK t : t = <<x>>
  OBVIOUS
<1>2. IsSeq(t) /\ IsSeq(b) /\ t # <<>> /\ Head(t) = x /\ Tail(t) = <<>>
  BY <1>1, IsSeqShort DEF LinkAt, Unlinked
<1>3. PICK r : r = t \o b
  OBVIOUS
<1>4. IsSeq(r) /\ s = a \o r
  BY <1>1, <1>2, <1>3, IsSeqConcat DEF LinkAt
<1>5. s = r
  BY ONLY <1>4, a = <<>>, EmptyConcat
<1>6. Peeled(t, b)
  BY ONLY <1>2, PeeledIs
<1>7. PICK e : e = Tail(t)
  OBVIOUS
<1>8. e \o b = b
  BY ONLY <1>2, <1>7, EmptyConcat
<1> QED BY ONLY <1>2, <1>3, <1>5, <1>6, <1>7, <1>8 DEF Peeled

\* The first of the steps before a link.
Later(s, a, x, b) ==
    s # <<>> /\ Head(s) = Head(a) /\ Tail(s) = Tail(a) \o (<<x>> \o b)

LEMMA LinkLater ==
    ASSUME NEW f, NEW s, NEW a, NEW x, NEW b, LinkAt(f, s, a, x, b), a # <<>>
    PROVE  Later(s, a, x, b)
<1>1. PICK t : t = <<x>>
  OBVIOUS
<1>2. PICK r : r = t \o b
  OBVIOUS
<1>3. IsSeq(a) /\ IsSeq(r) /\ s = a \o r
  BY <1>1, <1>2, IsSeqShort, IsSeqConcat DEF LinkAt, Unlinked
<1>4. Peeled(a, r)
  BY ONLY <1>3, a # <<>>, PeeledIs
<1> QED BY ONLY <1>1, <1>2, <1>3, <1>4 DEF Peeled, Later

\* A step that succeeds leaves the link what it needs.
LEMMA LinkingStep ==
    ASSUME NEW f, NEW s, Linking(f, s), s # <<>>, Head(s).op # "fail",
           Head(s).op = "tool" => ToSet(Head(s).reads) \subseteq DOMAIN f
    PROVE  Linking(After(f, Head(s)), Tail(s))
<1>1. CASE Unlinked(s)
  BY <1>1, UnlinkedTail DEF Linking
<1>2. CASE ~Unlinked(s)
  <2>1. PICK a, x, b : LinkAt(f, s, a, x, b)
    BY <1>2 DEF Linking
  <2>2. CASE a = <<>>
    <3>1. Tail(s) = b
      BY ONLY <2>1, <2>2, LinkFirst
    <3> QED BY <2>1, <3>1 DEF Linking, LinkAt
  <2>3. CASE a # <<>>
    <3>1. Head(s) = Head(a) /\ Tail(s) = Tail(a) \o (<<x>> \o b)
      <4>1. Later(s, a, x, b)
        BY ONLY <2>1, <2>3, LinkLater
      <4> QED BY ONLY <4>1 DEF Later
    <3>2. Unlinked(a) /\ Unlinked(Tail(a)) /\ ToSet(a) = {Head(a)} \cup ToSet(Tail(a))
      BY <2>1, <2>3, UnlinkedTail, HeadOrTail DEF LinkAt, Unlinked
    <3>3. PICK g : g = After(f, Head(s))
      OBVIOUS
    <3>4. Doomed(Tail(a)) \/ Objected(g, Tail(a))
      <4>1. CASE Doomed(a)
        BY <3>1, <3>2, <4>1 DEF Doomed, Unlinked
      <4>2. CASE Objected(f, a)
        <5>1. PICK D : Flow(D, a, f, {ObjectPath}) /\ D[ObjectPath] = ObjectOf(unit.asm)
          BY <4>2 DEF Objected
        <5>2. PICK goal : goal = {ObjectPath}
          OBVIOUS
        <5>3. Head(a).op = "tool" => ToSet(Head(a).reads) \subseteq DOMAIN f
          BY <3>1
        <5>4. Flow(D, a, f, goal)
          BY <5>1, <5>2
        <5>5. Flow(D, Tail(a), After(f, Head(a)), goal)
          BY ONLY <2>3, <5>3, <5>4, FlowStep
        <5> QED BY <3>1, <3>3, <5>1, <5>2, <5>5 DEF Objected
      <4> QED BY <2>1, <4>1, <4>2 DEF LinkAt
    <3>5. PICK t : t = Tail(s)
      OBVIOUS
    <3>6. LinkAt(g, t, Tail(a), x, b)
      <4>1. t = Tail(a) \o (<<x>> \o b)
        BY ONLY <3>1, <3>5
      <4> QED BY ONLY <2>1, <3>2, <3>4, <4>1 DEF LinkAt
    <3> QED BY <1>2, <3>3, <3>5, <3>6 DEF Linking
  <2> QED BY <2>2, <2>3
<1> QED BY <1>1, <1>2

\* What a link makes is made of the object of the unit.
LEMMA LinkMade ==
    ASSUME NEW f, NEW s, Linking(f, s), s # <<>>, IsLink(Head(s)),
           ToSet(Head(s).reads) \subseteq DOMAIN f
    PROVE  NoticeDue(unit.asm) /\ Made(f, Head(s)).from[1].from[1] = unit.asm
<1>1. ~Unlinked(s)
  BY UnlinkedTail
<1>2. PICK a, x, b : LinkAt(f, s, a, x, b)
  BY <1>1 DEF Linking
<1>3. a = <<>>
  <2> SUFFICES ASSUME a # <<>> PROVE FALSE
    OBVIOUS
  <2>1. Head(s) = Head(a)
    BY ONLY <1>2, a # <<>>, LinkLater DEF Later
  <2> QED BY <1>2, <2>1, UnlinkedTail DEF LinkAt
<1>4. Head(s) = x
  BY ONLY <1>2, <1>3, LinkFirst
<1>5. Objected(f, a)
  <2>1. ~Doomed(a)
    BY <1>3, IsSeqShort DEF Doomed
  <2> QED BY <1>2, <2>1 DEF LinkAt
<1>6. PICK D : Flow(D, a, f, {ObjectPath}) /\ D[ObjectPath] = ObjectOf(unit.asm)
  BY <1>5 DEF Objected
<1>7. 1 \in DOMAIN x.reads /\ x.reads[1] = ObjectPath /\ ObjectPath \in DOMAIN f
  BY <1>2, <1>4 DEF LinkAt, ToSet
<1>8. f[ObjectPath] = ObjectOf(unit.asm)
  <2>1. Len(a) = 0
    BY <1>3
  <2>2. Sure(D, a, f, ObjectPath, 1)
    BY <1>6, <2>1 DEF Flow
  <2> QED BY <1>6, <1>7, <2>2 DEF Sure
<1>9. Made(f, x) = [kind |-> x.kind, from |-> [i \in DOMAIN x.reads |-> f[x.reads[i]]]]
  <2>1. x.kind \notin {"archive", "member"}
    BY <1>4 DEF IsLink
  <2> QED BY <2>1 DEF Made
<1>10. Made(f, x).from[1] = ObjectOf(unit.asm)
  BY <1>7, <1>8, <1>9
<1> QED BY <1>1, <1>4, <1>10 DEF Linking, ObjectOf

\* The steps that do not link.
LEMMA UnlinkedTool ==
    ASSUME NEW p, NEW k, k \notin {"executable", "shared"}, NEW reads, NEW c
    PROVE  ~IsLink(Tool(p, k, reads, c))
BY DEF IsLink, Tool

LEMMA UnlinkedPlain ==
    /\ \A p, c : ~IsLink(Write(p, c))
    /\ \A p : ~IsLink(Delete(p))
    /\ ~IsLink(Listing) /\ ~IsLink(Query) /\ ~IsLink(Fail)
BY DEF IsLink, Write, Delete, Listing, Query, Fail

LEMMA UnlinkedFacts == Unlinked(link_facts)
BY UnlinkedShort, UnlinkedPlain DEF link_facts

LEMMA UnlinkedAssembled ==
    ASSUME NEW p, NEW q, NEW c
    PROVE  Unlinked(<<Write(p, c), assemble(p, q)>>)
<1>1. ~IsLink(assemble(p, q))
  <2>1. PICK a : assemble(p, q) = Tool(q, "object", <<p>>, a)
    BY DEF assemble
  <2>2. ~IsLink(Tool(q, "object", <<p>>, a))
    BY UnlinkedTool
  <2> QED BY <2>1, <2>2
<1>2. PICK x, y : x = Write(p, c) /\ y = assemble(p, q)
  OBVIOUS
<1>3. Unlinked(<<x, y>>)
  BY ONLY <1>1, <1>2, UnlinkedShort, UnlinkedPlain
<1> QED BY <1>2, <1>3

LEMMA UnlinkedArchive ==
    ASSUME NEW members
    PROVE  Unlinked(Archive(members))
<1>1. PICK all, c : Archive(members) = <<Delete(LibraryPath), Tool(LibraryPath, "archive", all, c)>>
  BY DEF Archive
<1>2. PICK x, y : x = Delete(LibraryPath) /\ y = Tool(LibraryPath, "archive", all, c)
  OBVIOUS
<1>3. ~IsLink(x) /\ ~IsLink(y)
  BY <1>2, UnlinkedPlain, UnlinkedTool
<1>4. Unlinked(<<x, y>>)
  BY ONLY <1>3, UnlinkedShort
<1> QED BY <1>1, <1>2, <1>4

LEMMA UnlinkedExtracts ==
    ASSUME NEW l, IsSeq(l)
    PROVE  Unlinked(Extracts(l))
<1> DEFINE kept == Kept(l)
           e == Extracts(l)
<1>1. IsSeq(kept)
  BY KeptIs
<1>2. DOMAIN e = DOMAIN kept /\ e = [i \in DOMAIN kept |-> e[i]]
  BY DEF Extracts
<1>3. \A i \in DOMAIN kept : ~IsLink(e[i])
  BY UnlinkedTool DEF Extracts
<1> HIDE DEF kept, e
<1>4. IsSeq(e)
  <2>1. Len(kept) \in Nat /\ DOMAIN kept = 1 .. Len(kept)
    BY <1>1, SeqIsSeq DEF IsSeq
  <2> DEFINE X == ToSet(e)
  <2>2. \A i \in DOMAIN kept : e[i] \in X
    BY <1>2 DEF ToSet
  <2> HIDE DEF X
  <2>3. e \in Seq(X)
    BY ONLY <1>2, <2>1, <2>2
  <2> QED BY <2>3 DEF X, IsSeq
<1>5. Unlinked(e)
  BY <1>2, <1>3, <1>4 DEF Unlinked, ToSet
<1> QED BY <1>5 DEF e

LEMMA UnlinkedBundle ==
    ASSUME NEW l, IsSeq(l)
    PROVE  Unlinked(bundle(ObjectPath, l))
<1>1. PICK e, f, a, b : /\ e = Extracts(l) /\ f = link_facts
                        /\ a = Archive(Parts(ObjectPath, l)) /\ b = Archive(<<JoinedObject>>)
  OBVIOUS
<1>2. PICK x : x = Join(ObjectPath, l)
  OBVIOUS
<1>3. Unlinked(e) /\ Unlinked(f) /\ Unlinked(a) /\ Unlinked(b)
  BY <1>1, UnlinkedExtracts, UnlinkedFacts, UnlinkedArchive
<1>4. Unlinked(<<x>>)
  <2>1. ~IsLink(x)
    BY <1>2, UnlinkedTool DEF Join
  <2> QED BY <2>1, UnlinkedShort
<1>5. PICK t : t = <<x>>
  OBVIOUS
<1>6. Unlinked(t)
  BY <1>4, <1>5
<1>7. Unlinked(e \o a) /\ Unlinked(e \o f)
  BY ONLY <1>3, UnlinkedConcat
<1>8. Unlinked((e \o f) \o t)
  BY ONLY <1>6, <1>7, UnlinkedConcat
<1>9. Unlinked(((e \o f) \o t) \o b)
  BY ONLY <1>3, <1>8, UnlinkedConcat
<1>10. bundle(ObjectPath, l) \in {e \o a, ((e \o f) \o t) \o b}
  BY <1>1, <1>2, <1>5, BundleIs
<1> QED BY <1>7, <1>9, <1>10

\* What the files on the way to a link hold, whatever the command line names.
Core == [p \in {Side(".s"), ObjectPath, Side(".h"), Side(".def")} |->
            IF p = Side(".s") THEN unit.asm
            ELSE IF p = ObjectPath THEN ObjectOf(unit.asm)
            ELSE IF p = Side(".h") THEN Header ELSE DefText]

LEMMA CoreIs ==
    ASSUME IsPath(unit.base), o \in Options
    PROVE  /\ Core[Side(".s")] = unit.asm /\ Core[ObjectPath] = ObjectOf(unit.asm)
           /\ Core[Side(".h")] = Header /\ Core[Side(".def")] = DefText
<1>1. PICK os \in {".o", ".obj"} : Sides(unit.base, os)
  BY SidesAre
<1>2. PICK b : b = unit.base
  OBVIOUS
<1>3. /\ After1(Side(".s"), b, ".s") /\ After1(ObjectPath, b, os)
      /\ After1(Side(".h"), b, ".h") /\ After1(Side(".def"), b, ".def")
  BY <1>1, <1>2 DEF Sides, Side
<1>4. Len(b.suffix) \in Nat
  <2>1. IsSeq(b.suffix)
    BY <1>2 DEF IsPath
  <2> QED BY <2>1, SeqIsSeq DEF IsSeq
<1>5. /\ Side(".s") \notin {ObjectPath, Side(".h"), Side(".def")}
      /\ ObjectPath \notin {Side(".h"), Side(".def")} /\ Side(".h") # Side(".def")
  BY ONLY <1>3, <1>4, os \in {".o", ".obj"} DEF After1
<1> QED BY ONLY <1>5 DEF Core

LEMMA GoesCore ==
    ASSUME IsPath(unit.base), o \in Options
    PROVE  Goes(Core, {}, ObjectSteps, {Side(".s"), ObjectPath})
<1>1. PICK p, q, c : p = Side(".s") /\ q = ObjectPath /\ c = unit.asm
  OBVIOUS
<1>2. PICK D : D = Core
  OBVIOUS
<1>3. D[p] = c /\ D[q] = ObjectOf(c)
  BY <1>1, <1>2, CoreIs
<1>4. PICK s : s = <<Write(p, c), assemble(p, q)>>
  OBVIOUS
<1>5. Runs(D, {}, s) /\ Outs(s) = {p, q}
  <2>1. PICK none : none = {}
    OBVIOUS
  <2>2. Runs(D, none, <<Write(p, c), assemble(p, q)>>)
        /\ Outs(<<Write(p, c), assemble(p, q)>>) = {p, q}
    BY <1>3, RunsAssembled
  <2> QED BY <1>4, <2>1, <2>2
<1>6. s = ObjectSteps
  BY <1>1, <1>4 DEF ObjectSteps
<1> QED BY <1>1, <1>2, <1>5, <1>6, GoesRuns

LEMMA UnlinkedObject == Unlinked(ObjectSteps)
<1>1. PICK p, q, c : p = Side(".s") /\ q = ObjectPath /\ c = unit.asm
  OBVIOUS
<1>2. Unlinked(<<Write(p, c), assemble(p, q)>>)
  BY UnlinkedAssembled
<1> QED BY <1>1, <1>2 DEF ObjectSteps

\* A link after steps that go to its object.
LEMMA LinkingOne ==
    ASSUME NEW f, NEW D, NEW a, NEW outs, Goes(D, {}, a, outs), ObjectPath \in outs,
           D[ObjectPath] = ObjectOf(unit.asm), Unlinked(a), NEW x, IsLink(x), o \in Options,
           x.reads = <<ObjectPath>> \o o.objects, NEW b, Unlinked(b), NoticeDue(unit.asm),
           NEW s, s = a \o (<<x>> \o b)
    PROVE  Linking(f, s)
<1>1. 1 \in DOMAIN x.reads /\ x.reads[1] = ObjectPath
  <2>1. PICK t : t = <<ObjectPath>>
    OBVIOUS
  <2>2. PICK r : r = o.objects
    OBVIOUS
  <2>3. IsSeq(t) /\ IsSeq(r) /\ t # <<>> /\ t[1] = ObjectPath /\ x.reads = t \o r
    BY <2>1, <2>2, IsSeqShort, OptionsObjects
  <2>4. Peeled(t, r) /\ IsSeq(t \o r)
    BY ONLY <2>3, PeeledIs, IsSeqConcat
  <2>5. t \o r # <<>> /\ Head(t \o r) = Head(t)
    BY ONLY <2>4 DEF Peeled
  <2>6. PICK w : w = t \o r
    OBVIOUS
  <2>7. IsSeq(w) /\ w # <<>> /\ Head(w) = Head(t) /\ x.reads = w
    BY ONLY <2>3, <2>4, <2>5, <2>6
  <2>8. Head(w) = w[1] /\ Len(w) \in Nat /\ Len(w) > 0 /\ DOMAIN w = 1 .. Len(w)
    BY ONLY <2>7, TailIs, SeqIsSeq DEF IsSeq
  <2> QED BY <2>1, <2>7, <2>8
<1>2. Doomed(a) \/ Objected(f, a)
  <2>1. CASE Doomed(a)
    BY <2>1
  <2>2. CASE ~Doomed(a)
    <3>1. PICK none, goal : none = {} /\ goal = {ObjectPath}
      OBVIOUS
    <3>2. Runs(D, none, a) /\ Outs(a) = outs
      BY <2>2, <3>1 DEF Goes
    <3>3. goal \subseteq none \cup Outs(a) /\ \A r \in none \cap DOMAIN f : f[r] = D[r]
      BY <3>1, <3>2
    <3>4. Flow(D, a, f, goal)
      BY ONLY <3>2, <3>3, RunsFlow
    <3> QED BY <3>1, <3>4 DEF Objected
  <2> QED BY <2>1, <2>2
<1>3. LinkAt(f, s, a, x, b)
  BY <1>1, <1>2 DEF LinkAt
<1> QED BY <1>3 DEF Linking

\* The link of a program.
LEMMA LinkingProgram ==
    ASSUME IsPath(unit.base), o \in Options, NoticeDue(unit.asm), NEW f
    PROVE  Linking(f, ObjectSteps \o link_program(ObjectPath, Program))
<1>1. PICK c : link_program(ObjectPath, Program)
         = link_facts \o <<Tool(Program, "executable", <<ObjectPath>> \o o.objects, c)>>
  BY DEF link_program
<1>2. PICK x : x = Tool(Program, "executable", <<ObjectPath>> \o o.objects, c)
  OBVIOUS
<1>3. IsLink(x) /\ x.reads = <<ObjectPath>> \o o.objects
  BY <1>2 DEF Tool, IsLink
<1>4. PICK P, F, X, e : P = ObjectSteps /\ F = link_facts /\ X = <<x>> /\ e = <<>>
  OBVIOUS
<1>5. PICK D, none : D = Core /\ none = {}
  OBVIOUS
<1>6. PICK S : S = {Side(".s"), ObjectPath}
  OBVIOUS
<1>7. Goes(D, none, P, S) /\ D[ObjectPath] = ObjectOf(unit.asm)
  BY <1>4, <1>5, <1>6, GoesCore, CoreIs
<1>8. PICK z : z = {}
  OBVIOUS
<1>9. Goes(D, none \cup S, F, z)
  <2>1. Goes(D, none \cup S, link_facts, {})
    BY GoesFacts
  <2> QED BY <1>4, <1>8, <2>1
<1>10. PICK a, outs : a = P \o F /\ outs = S \cup z
  OBVIOUS
<1>11. Goes(D, none, a, outs) /\ ObjectPath \in outs
  <2>1. Goes(D, none, P \o F, S \cup z)
    BY ONLY <1>7, <1>9, GoesConcat
  <2> QED BY <1>6, <1>10, <2>1
<1>12. Unlinked(P) /\ Unlinked(F) /\ Unlinked(e) /\ IsSeq(X)
  BY <1>4, UnlinkedObject, UnlinkedFacts, UnlinkedShort, IsSeqShort
<1>13. Unlinked(a)
  BY ONLY <1>10, <1>12, UnlinkedConcat
<1>14. PICK s : s = ObjectSteps \o link_program(ObjectPath, Program)
  OBVIOUS
<1>15. s = a \o (<<x>> \o e)
  <2>1. s = P \o (F \o X)
    BY <1>1, <1>2, <1>4, <1>14
  <2>2. (P \o F) \o X = P \o (F \o X)
    BY ONLY <1>12, ConcatAgain DEF Unlinked
  <2>3. X \o e = X
    <3> DEFINE Y == ToSet(X)
    <3>1. X \in Seq(Y)
      BY <1>12 DEF IsSeq
    <3> HIDE DEF Y
    <3> QED BY ONLY <1>4, <3>1, ConcatEmptySeq
  <2> QED BY <1>4, <1>10, <2>1, <2>2, <2>3
<1>16. Goes(D, {}, a, outs)
  BY <1>5, <1>11
<1>17. Linking(f, s)
  BY ONLY <1>3, <1>7, <1>11, <1>12, <1>13, <1>15, <1>16, o \in Options, NoticeDue(unit.asm),
          LinkingOne
<1> QED BY <1>14, <1>17

\* The steps of a shared library in the order that they are taken in.
Again(P, H, G, X, T) ==
    P \o (H \o ((G \o X) \o T)) = (P \o (H \o G)) \o (X \o T)

LEMMA LinkAgain ==
    ASSUME NEW P, NEW H, NEW G, NEW X, NEW T,
           IsSeq(P), IsSeq(H), IsSeq(G), IsSeq(X), IsSeq(T)
    PROVE  Again(P, H, G, X, T)
<1>1. PICK U, V : U = X \o T /\ V = H \o G
  OBVIOUS
<1>2. IsSeq(U) /\ IsSeq(V)
  BY <1>1, IsSeqConcat
<1>3. (P \o V) \o U = P \o (V \o U)
  BY ONLY <1>2, IsSeq(P), ConcatAgain
<1>4. (H \o G) \o U = H \o (G \o U)
  BY ONLY <1>2, IsSeq(H), IsSeq(G), ConcatAgain, SMTT(30)
<1>5. (G \o X) \o T = G \o (X \o T)
  BY ONLY IsSeq(G), IsSeq(X), IsSeq(T), ConcatAgain
<1> QED BY ONLY <1>1, <1>3, <1>4, <1>5 DEF Again

\* The link of a shared library.
LEMMA LinkingShared ==
    ASSUME IsPath(unit.base), o \in Options, NoticeDue(unit.asm), NEW f
    PROVE  Linking(f, ObjectSteps \o (<<Write(Side(".h"), Header)>> \o SharedLibrary(ObjectPath)))
<1>1. PICK w : w = Write(Side(".h"), Header)
  OBVIOUS
<1>2. PICK P, F, H : P = ObjectSteps /\ F = link_facts /\ H = <<w>>
  OBVIOUS
<1>3. PICK D, none : D = Core /\ none = {}
  OBVIOUS
<1>4. PICK S : S = {Side(".s"), ObjectPath}
  OBVIOUS
<1>5. PICK z : z = {}
  OBVIOUS
<1>6. PICK T, hp : T = {Side(".h")} /\ hp = Side(".h")
  OBVIOUS
<1>7. /\ D[Side(".h")] = Header /\ D[Side(".def")] = DefText
      /\ D[ObjectPath] = ObjectOf(unit.asm) /\ Goes(D, none, P, S)
  BY <1>2, <1>3, <1>4, GoesCore, CoreIs
<1>8. Unlinked(P) /\ Unlinked(F) /\ Unlinked(H)
  BY <1>1, <1>2, UnlinkedObject, UnlinkedFacts, UnlinkedShort, UnlinkedPlain
<1>9. PICK Y : Y = SharedLibrary(ObjectPath)
  OBVIOUS
<1>10. PICK s : s = P \o (H \o Y)
  OBVIOUS
<1>11. CASE On("--soname") /\ ~Has(o, "--package-version")
  <2>1. Y = <<Fail>>
    BY <1>9, <1>11 DEF SharedLibrary
  <2>2. Unlinked(Y)
    BY <2>1, UnlinkedShort, UnlinkedPlain
  <2>3. Unlinked(H \o Y)
    BY ONLY <1>8, <2>2, UnlinkedConcat
  <2>4. PICK h : h = H \o Y
    OBVIOUS
  <2>5. Unlinked(P \o h)
    BY ONLY <1>8, <2>3, <2>4, UnlinkedConcat
  <2> QED BY <1>1, <1>2, <1>9, <2>4, <2>5 DEF Linking
<1>12. CASE ~(On("--soname") /\ ~Has(o, "--package-version"))
  <2> DEFINE linux == target_info[o.target].os = "linux" /\ On("--soname")
             v == IF linux THEN Versioned ELSE LibraryPath
             def == IF target_info[o.target].os = "windows"
                    THEN <<Write(Side(".def"), DefText)>> ELSE <<>>
             x(c) == Tool(v, "shared", <<ObjectPath>> \o o.objects, c)
             tail(c) == IF linux THEN <<Tool(LibraryPath, "symlink", <<v>>, c)>> ELSE <<>>
  <2>1. \E c, d : Y = def \o link_facts \o <<x(c)>> \o tail(d)
    <3> DEFINE c == link_shared_command(o.target, Inputs(ObjectPath, v, o.objects), On("--soname"))
               d == Command(<<"ln", "-sf", v, LibraryPath>>, 0, 0)
    <3>1. Y = def \o link_facts \o <<x(c)>> \o tail(d)
      BY <1>9, <1>12 DEF SharedLibrary, Side, DefText, Versioned
    <3> QED BY <3>1
  <2>2. PICK c, d : Y = def \o link_facts \o <<x(c)>> \o tail(d)
    BY <2>1
  <2>3. PICK y : y = x(c)
    OBVIOUS
  <2>4. IsLink(y) /\ y.reads = <<ObjectPath>> \o o.objects
    <3> HIDE DEF v
    <3> QED BY <2>3 DEF Tool, IsLink
  <2>5. Unlinked(def) /\ Unlinked(tail(d))
    <3>1. ~IsLink(Tool(LibraryPath, "symlink", <<v>>, d)) /\ ~IsLink(Write(Side(".def"), DefText))
      BY UnlinkedTool, UnlinkedPlain
    <3>2. PICK m, n : m = Tool(LibraryPath, "symlink", <<v>>, d) /\ n = Write(Side(".def"), DefText)
      OBVIOUS
    <3>3. Unlinked(<<m>>) /\ Unlinked(<<n>>) /\ Unlinked(<<>>)
      BY <3>1, <3>2, UnlinkedShort
    <3>4. def \in {<<n>>, <<>>} /\ tail(d) \in {<<m>>, <<>>}
      BY <3>2
    <3> HIDE DEF def, tail
    <3> QED BY ONLY <3>3, <3>4
  <2>6. \E U : Goes(D, (none \cup S) \cup T, def, U)
    <3>1. PICK have : have = (none \cup S) \cup T
      OBVIOUS
    <3>2. CASE target_info[o.target].os = "windows"
      <4>1. PICK u : u = Write(Side(".def"), DefText)
        OBVIOUS
      <4>2. RunsAlone(D, have, u) /\ u.op = "write" /\ u.path = Side(".def")
        <5>1. RunsAlone(D, have, Write(Side(".def"), DefText))
          BY <1>7, WriteAlone
        <5> QED BY <4>1, <5>1 DEF Write
      <4>3. Goes(D, have, <<u>>, {Side(".def")})
        BY <4>2, GoesOne
      <4> QED BY <3>1, <3>2, <4>1, <4>3
    <3>3. CASE target_info[o.target].os # "windows"
      BY <3>1, <3>3, GoesNone
    <3> QED BY <3>2, <3>3
  <2>7. PICK E, R : E = def /\ R = tail(d)
    OBVIOUS
  <2>8. PICK U : Goes(D, (none \cup S) \cup T, E, U)
    BY <2>6, <2>7
  <2> HIDE DEF def, tail, x
  <2>9. PICK X : X = <<y>>
    OBVIOUS
  <2>10. Y = ((E \o F) \o X) \o R /\ IsSeq(X) /\ Unlinked(E) /\ Unlinked(R)
    BY <1>2, <2>2, <2>3, <2>5, <2>7, <2>9, IsSeqShort
  <2>11. PICK G : G = E \o F
    OBVIOUS
  <2>12. Goes(D, (none \cup S) \cup T, G, U \cup z)
    <3>1. Goes(D, ((none \cup S) \cup T) \cup U, link_facts, {})
      BY GoesFacts
    <3>2. PICK have : have = (none \cup S) \cup T
      OBVIOUS
    <3>3. Goes(D, have, E, U) /\ Goes(D, have \cup U, F, z)
      BY <1>2, <1>5, <2>8, <3>1, <3>2
    <3>4. Goes(D, have, E \o F, U \cup z)
      BY ONLY <3>3, GoesConcat
    <3> QED BY <2>11, <3>2, <3>4
  <2>13. Goes(D, none \cup S, H, T)
    <3>1. PICK have : have = none \cup S
      OBVIOUS
    <3>2. RunsAlone(D, have, w) /\ w.op = "write" /\ w.path = hp
      <4>1. RunsAlone(D, have, Write(Side(".h"), Header))
        BY <1>7, WriteAlone
      <4> QED BY <1>1, <1>6, <4>1 DEF Write
    <3>3. Goes(D, have, <<w>>, {w.path})
      BY ONLY <3>2, GoesOne
    <3> QED BY <1>2, <1>6, <3>1, <3>2, <3>3
  <2>14. PICK A, B : A = H \o G /\ B = T \cup (U \cup z)
    OBVIOUS
  <2>15. Goes(D, none \cup S, A, B)
    <3>1. PICK have, W : have = none \cup S /\ W = U \cup z
      OBVIOUS
    <3>2. Goes(D, have, H, T) /\ Goes(D, have \cup T, G, W)
      BY <2>12, <2>13, <3>1
    <3>3. Goes(D, have, H \o G, T \cup W)
      BY ONLY <3>2, GoesConcat
    <3> QED BY <2>14, <3>1, <3>3
  <2>16. PICK a, outs : a = P \o A /\ outs = S \cup B
    OBVIOUS
  <2>17. Goes(D, none, a, outs) /\ ObjectPath \in outs
    <3>1. Goes(D, none, P \o A, S \cup B)
      BY ONLY <1>7, <2>15, GoesConcat
    <3> QED BY <1>4, <2>16, <3>1
  <2>18. Unlinked(a)
    <3>1. Unlinked(G)
      BY ONLY <1>8, <2>10, <2>11, UnlinkedConcat
    <3>2. Unlinked(A)
      BY ONLY <1>8, <2>14, <3>1, UnlinkedConcat
    <3> QED BY ONLY <1>8, <2>16, <3>2, UnlinkedConcat
  <2>19. s = a \o (<<y>> \o R)
    <3>1. IsSeq(G) /\ IsSeq(P) /\ IsSeq(H) /\ IsSeq(X) /\ IsSeq(R)
      BY <1>8, <2>10, <2>11, IsSeqConcat DEF Unlinked
    <3>2. Again(P, H, G, X, R)
      BY ONLY <3>1, LinkAgain
    <3>3. P \o (H \o ((G \o X) \o R)) = (P \o (H \o G)) \o (X \o R)
      BY ONLY <3>2 DEF Again
    <3> QED BY ONLY <1>10, <2>9, <2>10, <2>11, <2>14, <2>16, <3>3
  <2>20. Goes(D, {}, a, outs)
    BY <1>3, <2>17
  <2>21. Linking(f, s)
    BY ONLY <1>7, <2>4, <2>10, <2>17, <2>18, <2>19, <2>20, o \in Options,
            NoticeDue(unit.asm), LinkingOne
  <2> QED BY <1>1, <1>2, <1>9, <1>10, <2>21
<1> QED BY <1>11, <1>12

\* The steps of a static library.
LEMMA UnlinkedStatic ==
    ASSUME o.lib = "static"
    PROVE  Unlinked(ObjectSteps \o build_c_library(ObjectPath))
<1>1. PICK P, H, K, L, A : /\ P = ObjectSteps /\ H = <<Write(Side(".h"), Header)>>
                           /\ K = assemble_package /\ L = <<Listing>> /\ A = Archive(<<ObjectPath>>)
  OBVIOUS
<1>2. Unlinked(P) /\ Unlinked(L) /\ Unlinked(A)
  BY <1>1, UnlinkedObject, UnlinkedShort, UnlinkedPlain, UnlinkedArchive
<1>3. Unlinked(H)
  <2>1. PICK w : w = Write(Side(".h"), Header)
    OBVIOUS
  <2>2. Unlinked(<<w>>)
    BY <2>1, UnlinkedShort, UnlinkedPlain
  <2> QED BY <1>1, <2>1, <2>2
<1>4. Unlinked(K)
  <2>1. PICK p, q, c : p = PackageSide /\ q = PackageObject /\ c = PackageText
    OBVIOUS
  <2>2. Unlinked(<<Write(p, c), assemble(p, q)>>)
    BY UnlinkedAssembled
  <2>3. K = <<Write(p, c), assemble(p, q)>>
    BY <1>1, <2>1 DEF assemble_package, PackageSide, PackageObject, PackageText
  <2> QED BY <2>2, <2>3
<1>5. PICK R : R = IF On("--bundle-runtime") THEN L ELSE A
  OBVIOUS
<1>6. Unlinked(R)
  BY <1>2, <1>5
<1>7. PICK M, N : M = K \o R /\ N = H \o M
  OBVIOUS
<1>8. Unlinked(M)
  BY ONLY <1>4, <1>6, <1>7, UnlinkedConcat
<1>9. Unlinked(N)
  BY ONLY <1>3, <1>7, <1>8, UnlinkedConcat
<1>10. Unlinked(P \o N)
  BY ONLY <1>2, <1>9, UnlinkedConcat
<1>11. build_c_library(ObjectPath) = N
  BY <1>1, <1>5, <1>7 DEF build_c_library, Side
<1> QED BY <1>1, <1>10, <1>11

\* What driver_run does after compile links what carries its notice.
LEMMA LinkingSteps ==
    o \in Options /\ Placed(unit) /\ Due(o, unit) => Linking(before, Steps)
<1> SUFFICES ASSUME o \in Options, Placed(unit), Due(o, unit)
             PROVE  Linking(before, Steps)
  OBVIOUS
<1> DEFINE antl == IF Has(o, "-o") THEN o.slot["-o"].path
                   ELSE Plus(Stem(o.input), <<".antl">>)
           text == IF Has(o, "-o") THEN unit.base ELSE Side(".s")
           late == On("--dev") /\ ~(unit.status = 3) /\ ~On("-S")
                   /\ (o.runtime = <<>> \/ ~can_link(o))
<1>1. \A x : ~IsLink(x) => Linking(before, <<x>>)
  BY UnlinkedShort DEF Linking
<1>2. \A p, c : Linking(before, <<Write(p, c)>>)
  BY <1>1, UnlinkedPlain
<1>3. Linking(before, <<Fail>>)
  BY <1>1, UnlinkedPlain
<1>4. Linking(before, <<>>)
  BY UnlinkedShort DEF Linking
<1>5. CASE unit.status \in {1, 2}
  <2>1. Steps \in {<<Fail>>, <<Write(antl, unit.antl)>>, <<>>}
    BY <1>5 DEF Steps
  <2> HIDE DEF antl
  <2> QED BY ONLY <1>2, <1>3, <1>4, <2>1
<1>6. CASE unit.status \notin {1, 2}
  <2>1. IsPath(unit.base)
    BY <1>6 DEF Placed
  <2>2. CASE late
    <3>1. Steps = <<Fail>>
      BY <1>6, <2>2 DEF Steps
    <3> QED BY <1>3, <3>1
  <2>3. CASE ~late /\ On("-S")
    <3>1. Steps = <<Write(text, unit.asm)>>
      BY <1>6, <2>3 DEF Steps, Side
    <3> HIDE DEF text
    <3> QED BY <1>2, <3>1
  <2>4. CASE ~late /\ ~On("-S")
    <3>1. Steps = ObjectSteps \o (IF unit.status = 3 THEN <<>>
                    ELSE IF o.lib # "none" THEN build_c_library(ObjectPath)
                    ELSE link_program(ObjectPath, Program))
      BY <1>6, <2>4 DEF Steps, ObjectSteps, Side, Program
    <3>2. CASE unit.status = 3
      <4>1. PICK P, e : P = ObjectSteps /\ e = <<>>
        OBVIOUS
      <4>2. Unlinked(P) /\ Unlinked(e)
        BY <4>1, UnlinkedObject, UnlinkedShort
      <4>3. Unlinked(P \o e)
        BY ONLY <4>2, UnlinkedConcat
      <4> QED BY <3>1, <3>2, <4>1, <4>3 DEF Linking
    <3>3. CASE unit.status # 3 /\ o.lib = "static"
      <4>1. Steps = ObjectSteps \o build_c_library(ObjectPath)
        BY <3>1, <3>3
      <4> QED BY <3>3, <4>1, UnlinkedStatic DEF Linking
    <3>4. CASE unit.status # 3 /\ o.lib # "static"
      <4>1. NoticeDue(unit.asm)
        BY <1>6, <2>4, <3>4 DEF Due, On
      <4>2. CASE o.lib # "none"
        <5>1. Steps = ObjectSteps \o (<<Write(Side(".h"), Header)>> \o SharedLibrary(ObjectPath))
          BY <3>1, <3>4, <4>2 DEF build_c_library, Side
        <5>2. Linking(before, ObjectSteps \o (<<Write(Side(".h"), Header)>>
                                               \o SharedLibrary(ObjectPath)))
          BY <2>1, <4>1, LinkingShared
        <5> QED BY <5>1, <5>2
      <4>3. CASE o.lib = "none"
        <5>1. Steps = ObjectSteps \o link_program(ObjectPath, Program)
          BY <3>1, <3>4, <4>3
        <5>2. Linking(before, ObjectSteps \o link_program(ObjectPath, Program))
          BY <2>1, <4>1, LinkingProgram
        <5> QED BY <5>1, <5>2
      <4> QED BY <4>2, <4>3
    <3> QED BY <3>2, <3>3, <3>4
  <2> QED BY <2>2, <2>3, <2>4
<1> QED BY <1>5, <1>6

-----------------------------------------------------------------------------
(* The notice at every step of a command.                                  *)

LEMMA SameLinking ==
    ASSUME SameCommand, NEW f, NEW s
    PROVE  Linking(f, s)' <=> Linking(f, s)
<1>1. unit' = unit /\ ObjectPath' = ObjectPath
  BY SamePaths DEF SameCommand
<1>2. \A a : Objected(f, a)' <=> Objected(f, a)
  BY <1>1 DEF Objected
<1>3. \A a, x, b : LinkAt(f, s, a, x, b)' <=> LinkAt(f, s, a, x, b)
  BY <1>1, <1>2 DEF LinkAt
<1> QED BY <1>1, <1>3 DEF Linking

Linkable == Linking(files, Left)

LEMMA LinkableHere == (\A f, s : f = files /\ s = Left /\ Linking(f, s) => Linkable)'
<1>1. \A f, s : f = files /\ s = Left /\ Linking(f, s) => Linkable
  BY DEF Linkable
<1> QED BY <1>1, PTL

LEMMA LinkableIs ==
    ASSUME SameCommand, NEW f, NEW s, f = files', s = Left', Linking(f, s)
    PROVE  Linkable'
<1>1. Linking(f, s)'
  BY SameLinking
<1> QED BY <1>1, LinkableHere

LEMMA LinkableFirst ==
    (o \in Options /\ Placed(unit) /\ Due(o, unit) /\ files = before /\ Left = Steps => Linkable)'
<1>1. o \in Options /\ Placed(unit) /\ Due(o, unit) /\ files = before /\ Left = Steps => Linkable
  BY LinkingSteps DEF Linkable
<1> QED BY <1>1, PTL

\* The notice of a file that a program or a shared library is in.
Carries(c)   == c.kind \in {"executable", "shared"} => NoticeDue(c.from[1].from[1])
AllCarry(f)  == \A p \in DOMAIN f : Carries(f[p])

Notices ==
    /\ status = Running /\ child.code = 0 => Linkable
    /\ AllCarry(files)

LEMMA CarryHere == (\A f : f = files /\ AllCarry(f) => AllCarry(files))'
<1>1. \A f : f = files /\ AllCarry(f) => AllCarry(files)
  OBVIOUS
<1> QED BY <1>1, PTL

LEMMA PutCarries ==
    ASSUME NEW f, AllCarry(f), NEW p, NEW c, Carries(c)
    PROVE  AllCarry(Put(f, p, c)) /\ AllCarry(Without(f, p))
BY DEF AllCarry, Put, Without

LEMMA PartialCarries == Carries(Partial)
BY DEF Carries, Partial

LEMMA BrokenCarries ==
    ASSUME AllCarry(files), NEW p, NEW f \in Broken(p)
    PROVE  AllCarry(f)
BY PartialCarries, PutCarries DEF Broken

\* A step of a command that goes on.
LEMMA NoticesGo ==
    ASSUME SameCommand, NEW f, NEW s, f = files', s = Left', Linking(f, s), AllCarry(f)
    PROVE  Notices'
<1>1. Linkable'
  BY LinkableIs
<1>2. AllCarry(files)'
  BY CarryHere
<1> QED BY <1>1, <1>2 DEF Notices

LEMMA NoticesEnd ==
    ASSUME status' # Running \/ child'.code # 0, NEW f, f = files', AllCarry(f)
    PROVE  Notices'
<1>1. AllCarry(files)'
  BY CarryHere
<1> QED BY <1>1 DEF Notices

LEMMA NoticesWrite == Builds /\ Notices /\ (WriteFile \/ RemoveFile) => Notices'
<1> SUFFICES ASSUME Builds, Notices, WriteFile \/ RemoveFile PROVE Notices'
  OBVIOUS
<1>1. /\ SameCommand /\ child' = child /\ status = Running /\ todo # <<>>
      /\ Head(todo).op \in {"write", "remove"}
  BY DEF WriteFile, RemoveFile, SameCommand, At
<1>2. child = NoChild
  BY <1>1 DEF Builds, BuildInv, AtProcess, At
<1>3. Left = todo /\ child.code = 0 /\ IsSeq(todo) /\ child.st = "none"
  BY <1>2 DEF Left, NoChild, Builds, BuildInv, StepsFit
<1>4. Head(todo).op = "write" => Carries(Head(todo).content)
  <2>1. StepFits(Head(todo))
    BY <1>1, IsSeqTail DEF Builds, BuildInv, StepsFit
  <2> QED BY <2>1 DEF StepFits, ContentFits, Carries
<1>5. AllCarry(files')
  <2>1. AllCarry(files)
    BY DEF Notices
  <2>2. CASE WriteFile
    BY <1>4, <2>1, <2>2, PutCarries, BrokenCarries DEF WriteFile, At
  <2>3. CASE RemoveFile
    BY <2>1, <2>3, PutCarries, PartialCarries DEF RemoveFile
  <2> QED BY <2>2, <2>3
<1>6. CASE status' = 1
  BY <1>5, <1>6, NoticesEnd DEF Running
<1>7. CASE status' # 1
  <2>1. /\ todo' = Tail(todo) /\ files' = After(files, Head(todo))
    BY <1>1, <1>7 DEF WriteFile, RemoveFile, Fails, At, After
  <2>2. PICK s : s = todo
    OBVIOUS
  <2>3. PICK f : f = files
    OBVIOUS
  <2>4. Linking(f, s)
    BY <1>1, <1>3, <2>2, <2>3 DEF Notices, Linkable
  <2>5. PICK g : g = After(f, Head(s))
    OBVIOUS
  <2>6. PICK t : t = Tail(s)
    OBVIOUS
  <2>7. Linking(g, t)
    BY <1>1, <2>2, <2>4, <2>5, <2>6, LinkingStep
  <2>8. g = files' /\ t = Left' /\ AllCarry(g)
    BY <1>1, <1>3, <1>5, <2>1, <2>2, <2>3, <2>5, <2>6 DEF Left
  <2> QED BY <1>1, <2>7, <2>8, NoticesGo
<1> QED BY <1>6, <1>7

\* The child has done what it was started for.
LEMMA NoticesExits == Builds /\ Keeps /\ Notices /\ ChildExits => Notices'
<1> SUFFICES ASSUME Builds, Keeps, Notices, ChildExits PROVE Notices'
  OBVIOUS
<1>1. /\ SameCommand /\ todo' = todo /\ status' = status
      /\ child.st = "running"
      /\ child' = [child EXCEPT !.st = "exited", !.code = 0]
      /\ ~At("tool") => files' = files
      /\ At("tool") => /\ ToSet(Head(todo).reads) \subseteq DOMAIN files
                       /\ files' = Put(files, Head(todo).path, Made(files, Head(todo)))
  BY DEF ChildExits, SameCommand
<1>2. child \in Children /\ status = Running /\ IsSeq(todo) /\ AtProcess /\ StepsFit(todo)
  BY <1>1, NoChildTyped DEF Builds, BuildInv, StepsFit
<1>3. child'.st = "exited" /\ child'.code = 0
  BY <1>1, <1>2 DEF Children
<1>4. child.code = 0
  BY <1>1, <1>2 DEF Keeps, Children
<1>5. Left = todo /\ todo # <<>> /\ Head(todo).op \in {"tool", "query", "listing"}
  BY <1>1, <1>2 DEF Left, AtProcess, At
<1>6. PICK s : s = todo
  OBVIOUS
<1>7. PICK f : f = files
  OBVIOUS
<1>8. Linking(f, s) /\ AllCarry(f)
  BY <1>2, <1>4, <1>5, <1>6, <1>7 DEF Notices, Linkable
<1>9. CASE Head(todo).op = "listing"
  <2>1. files' = files /\ Left' = todo
    BY <1>1, <1>2, <1>5, <1>9 DEF Left, At
  <2>2. f = files' /\ s = Left'
    BY <1>6, <1>7, <2>1
  <2> QED BY <1>1, <1>8, <2>2, NoticesGo
<1>10. CASE Head(todo).op \in {"tool", "query"}
  <2>1. files' = After(files, Head(todo))
    BY <1>1, <1>2, <1>5, <1>10 DEF At, After
  <2>2. Left' = Tail(todo)
    BY <1>1, <1>2, <1>3, <1>5, <1>10 DEF Left, At
  <2>3. Head(s).op = "tool" => ToSet(Head(s).reads) \subseteq DOMAIN f
    BY <1>1, <1>2, <1>5, <1>6, <1>7 DEF At
  <2>4. PICK g : g = After(f, Head(s))
    OBVIOUS
  <2>5. PICK t : t = Tail(s)
    OBVIOUS
  <2>6. s # <<>> /\ Head(s).op # "fail"
    BY <1>5, <1>6
  <2>7. Linking(g, t)
    BY <1>8, <2>3, <2>4, <2>5, <2>6, LinkingStep
  <2>8. g = files' /\ t = Left'
    BY <1>6, <1>7, <2>1, <2>2, <2>4, <2>5
  <2>9. AllCarry(g)
    <3>1. CASE Head(s).op = "tool"
      <4>1. Carries(Made(f, Head(s)))
        <5>1. CASE IsLink(Head(s))
          <6>1. NoticeDue(unit.asm) /\ Made(f, Head(s)).from[1].from[1] = unit.asm
            BY <1>8, <2>3, <2>6, <3>1, <5>1, LinkMade
          <6> QED BY <6>1 DEF Carries
        <5>2. CASE ~IsLink(Head(s))
          <6>1. Made(f, Head(s)).kind \in {"archive", "rt", Head(s).kind}
            BY DEF Made
          <6> QED BY <3>1, <5>2, <6>1 DEF IsLink, Carries
        <5> QED BY <5>1, <5>2
      <4>2. g = Put(f, Head(s).path, Made(f, Head(s)))
        BY <2>4, <3>1 DEF After
      <4> QED BY <1>8, <4>1, <4>2, PutCarries
    <3>2. CASE Head(s).op # "tool"
      <4>1. g = f
        BY <1>6, <1>10, <2>4, <3>2 DEF After
      <4> QED BY <1>8, <4>1
    <3> QED BY <3>1, <3>2
  <2> QED BY <1>1, <2>7, <2>8, <2>9, NoticesGo
<1> QED BY <1>5, <1>9, <1>10

\* A child that runs on, and a command that goes on after its child.
LEMMA NoticesChild ==
    Builds /\ Notices /\ (Spawn \/ ChildWrites \/ ParentReads \/ wait_for) => Notices'
<1> SUFFICES ASSUME Builds, Notices, Spawn \/ ChildWrites \/ ParentReads \/ wait_for
             PROVE  Notices'
  OBVIOUS
<1>1. SameCommand /\ files' = files
  BY DEF Spawn, ChildWrites, ParentReads, wait_for, SameCommand
<1>2. PICK f : f = files
  OBVIOUS
<1>3. f = files' /\ AllCarry(f)
  BY <1>1, <1>2 DEF Notices
<1>4. child \in Children /\ status = Running
  BY NoChildTyped DEF Builds, BuildInv, Spawn, ChildWrites, ParentReads, wait_for, NoChild,
                      AtProcess, At
<1>5. CASE status' # Running \/ child'.code # 0
  BY <1>3, <1>5, NoticesEnd
<1>6. CASE status' = Running /\ child'.code = 0 /\ ~wait_for
  <2>1. todo' = todo /\ status' = status
    BY <1>6 DEF Spawn, ChildWrites, ParentReads
  <2>2. child.code = 0 /\ Left' = Left
    <3>1. CASE Spawn
      <4>1. child = NoChild
        BY <1>4, <3>1 DEF Spawn, Builds, BuildInv
      <4>2. child'.st = "running" /\ child.st = "none" /\ child.code = 0
        BY <3>1, <4>1 DEF Spawn, NoChild
      <4> QED BY <4>2, <2>1 DEF Left, At
    <3>2. CASE ChildWrites \/ ParentReads
      <4>1. child'.st = child.st /\ child'.code = child.code
        BY <1>4, <3>2 DEF ChildWrites, ParentReads, Children
      <4> QED BY <1>6, <2>1, <4>1 DEF Left, At
    <3> QED BY <1>6, <3>1, <3>2
  <2>3. PICK s : s = Left
    OBVIOUS
  <2>4. s = Left' /\ Linking(f, s)
    BY <1>2, <1>4, <2>2, <2>3 DEF Notices, Linkable
  <2> QED BY <1>1, <1>3, <2>4, NoticesGo
<1>7. CASE wait_for /\ status' = Running
  <2>1. /\ child.st = "exited" /\ child' = NoChild /\ child.code = 0
        /\ todo' = IF At("listing") THEN bundle(ObjectPath, child.got) ELSE Tail(todo)
    BY <1>4, <1>7 DEF wait_for, Fails, Running
  <2>2. Left' = todo'
    BY <2>1 DEF Left, NoChild
  <2>3. PICK s : s = IF At("listing") THEN bundle(ObjectPath, child.got) ELSE Tail(todo)
    OBVIOUS
  <2>4. s = Left'
    BY <2>1, <2>2, <2>3
  <2>5. CASE At("listing")
    <3>1. child.got \in Seq(Lines)
      BY <1>4 DEF Children
    <3>2. IsSeq(child.got)
      BY ONLY <3>1, SeqIsSeq
    <3>3. Unlinked(s)
      BY <2>3, <2>5, <3>2, UnlinkedBundle
    <3> QED BY <1>1, <1>3, <2>4, <3>3, NoticesGo DEF Linking
  <2>6. CASE ~At("listing")
    <3>1. Left = s
      BY <2>1, <2>3, <2>6 DEF Left
    <3>2. Linking(f, s)
      BY <1>2, <1>4, <2>1, <3>1 DEF Notices, Linkable
    <3> QED BY <1>1, <1>3, <2>4, <3>2, NoticesGo
  <2> QED BY <2>5, <2>6
<1> QED BY <1>5, <1>6, <1>7

\* The files that the command finds carry their notices until it is over.
LEMMA NoticesOver ==
    ASSUME Builds, Notices,
           Edit \/ Finish \/ StepFails \/ SpawnFails \/ ChildFails \/ Crash
    PROVE  Notices'
<1>1. AllCarry(files) /\ child \in Children
  BY DEF Notices, Builds, BuildInv
<1>2. status' # Running \/ child'.code # 0
  <2>1. CASE ChildFails
    BY <1>1, <2>1 DEF ChildFails, Children
  <2>2. CASE ~ChildFails
    BY <2>2 DEF Edit, Idle, Finish, StepFails, SpawnFails, Crash, Fails, Running, Killed
  <2> QED BY <2>1, <2>2
<1>3. AllCarry(files')
  <2>1. CASE Edit
    <3>1. PICK e \in Edits : files' = Put(files, e.path, e.content)
      BY <2>1 DEF Edit
    <3>2. Carries(e.content)
      BY BuildAssumption DEF BuildAssumption, Content, Carries
    <3> QED BY <1>1, <3>1, <3>2, PutCarries
  <2>2. CASE Finish \/ StepFails \/ SpawnFails
    BY <1>1, <2>2 DEF Finish, StepFails, SpawnFails
  <2>3. CASE ChildFails \/ Crash
    <3>1. files' = files \/ files' \in Broken(Head(todo).path)
      BY <2>3 DEF ChildFails, Crash
    <3> QED BY <1>1, <3>1, BrokenCarries
  <2> QED BY <2>1, <2>2, <2>3
<1>4. PICK f : f = files'
  OBVIOUS
<1> QED BY <1>2, <1>3, <1>4, NoticesEnd

LEMMA DueHere == (\A x, u : x = o /\ u = unit /\ Due(x, u) => Due(o, unit))'
<1>1. \A x, u : x = o /\ u = unit /\ Due(x, u) => Due(o, unit)
  OBVIOUS
<1> QED BY <1>1, PTL

\* What compile leaves in memory carries its notice before a file is written.
LEMMA NoticesStart == Builds /\ Notices /\ Start => Notices'
<1> SUFFICES ASSUME Builds, Notices, Start PROVE Notices'
  OBVIOUS
<1>1. /\ files' = files /\ before' = files /\ child' = child /\ status # Running
      /\ status' = Running => todo' = Steps'
  BY DEF Start, Idle
<1>2. PICK f : f = files
  OBVIOUS
<1>3. f = files' /\ AllCarry(f)
  BY <1>1, <1>2 DEF Notices
<1>4. CASE status' # Running
  BY <1>3, <1>4, NoticesEnd
<1>5. CASE status' = Running
  <2>1. child = NoChild
    BY <1>1 DEF Builds, BuildInv
  <2>2. child'.st = "none"
    BY <1>1, <2>1 DEF NoChild
  <2>3. Left' = Steps'
    BY <1>1, <1>5, <2>2 DEF Left
  <2>4. o' \in Options /\ Placed(unit')
    BY StartUnit DEF Builds
  <2>5. Placed(unit)'
    BY <2>4 DEF Placed, IsPath, IsSeq, ToSet
  <2>6. Due(o', unit')
    BY StartDue DEF Builds
  <2>7. Due(o, unit)'
    BY ONLY <2>6, DueHere
  <2>8. files' = before'
    BY <1>1
  <2>9. Linkable'
    BY <2>3, <2>4, <2>5, <2>7, <2>8, LinkableFirst
  <2>10. AllCarry(files)'
    BY ONLY <1>3, CarryHere
  <2> QED BY <2>9, <2>10 DEF Notices
<1> QED BY <1>4, <1>5

LEMMA NoticesStay == Builds /\ Notices /\ UNCHANGED vars => Notices'
<1> SUFFICES ASSUME Notices, UNCHANGED vars PROVE Notices'
  OBVIOUS
<1>1. SameCommand /\ files' = files /\ Left' = Left /\ child' = child /\ status' = status
  BY DEF vars, SameCommand, Left, At
<1>2. PICK f : f = files
  OBVIOUS
<1>3. PICK s : s = Left
  OBVIOUS
<1>4. f = files' /\ s = Left' /\ AllCarry(f)
  BY <1>1, <1>2, <1>3 DEF Notices
<1>5. CASE status = Running /\ child.code = 0
  <2>1. Linking(f, s)
    BY <1>2, <1>3, <1>5 DEF Notices, Linkable
  <2> QED BY <1>1, <1>4, <2>1, NoticesGo
<1>6. CASE ~(status = Running /\ child.code = 0)
  BY <1>1, <1>4, <1>6, NoticesEnd
<1> QED BY <1>5, <1>6

\* Every program and every shared library that a command of src/driver.c
\* leaves, its own or an earlier one's, whichever step failed or was killed,
\* is linked from an assembly with a complete notice: the runtime and every
\* package linked into it stand in it once, and each licence text stands with
\* the name of its package (src/notice.c). The texts of two packages of one
\* name are the same, as the hypothesis of Noticed has it.
THEOREM Carried == Spec => []NoticeComplete
<1>1. Init => Notices
  <2> SUFFICES ASSUME Init PROVE Notices
    OBVIOUS
  <2>1. files \in Worlds /\ status # Running
    BY DEF Init, Running
  <2>2. AllCarry(files)
    BY <2>1, BuildAssumption DEF BuildAssumption, Content, AllCarry, Carries
  <2> QED BY <2>1, <2>2 DEF Notices
<1>2. Builds /\ Keeps /\ Notices /\ [Next]_vars => Notices'
  BY NoticesOver, NoticesStart, NoticesStay, NoticesWrite, NoticesExits, NoticesChild
     DEF Next, Work
<1>3. Notices => NoticeComplete
  BY DEF Notices, AllCarry, Carries, NoticeDue, NoticeComplete, Binaries
<1> QED BY <1>1, <1>2, <1>3, BuildAlways, KeepsAlways, PTL DEF Spec

\* A command that ends while compile runs (src/driver.c: driver_run writes
\* no file before compile has ended) leaves every file as it was.
THEOREM Untouched == Spec => []ErrorsTouchNothing
<1>1. BuildInv => ErrorsTouchNothing
  BY DEF BuildInv, ErrorsTouchNothing
<1>2. Builds => BuildInv
  BY DEF Builds
<1> QED BY <1>1, <1>2, BuildAlways, PTL

\* No command line, whatever files it names and however many, outgrows the
\* vector or the texts of struct link_command (src/linker.c).
THEOREM NoOverflow == Spec => []CommandsFit
<1>1. BuildInv => CommandsFit
  <2> SUFFICES ASSUME BuildInv, NEW i \in DOMAIN todo, todo[i].op = "tool"
               PROVE  Fits(todo[i].command)
    BY DEF CommandsFit
  <2>1. todo[i] \in ToSet(todo)
    BY DEF ToSet
  <2> QED BY <2>1 DEF BuildInv, StepsFit, StepFits
<1>2. Builds => BuildInv
  BY DEF Builds
<1> QED BY <1>1, <1>2, BuildAlways, PTL

\* The libraries of every compilation (src/driver.c, find_libraries and
\* load_libraries), over any files and search roots: the search is closed,
\* the load accepts exactly the files that can be loaded, and it loads each
\* once and after the files it imports.
THEOREM Resolved == Spec => []LibrariesResolved
<1> DEFINE In == ResolvedIn(o, unit, before)
<1>1. In <=> LibrariesResolved
  BY DEF LibrariesResolved, ResolvedIn, Distinct, Sound, ReachIn, NeedsOf, NeedsIn, Reach, Needs
<1>2. Init => In
  BY NoUnitFits DEF Init, ResolvedIn
<1>5. (\A x, u, f : x = o /\ u = unit /\ f = before /\ ResolvedIn(x, u, f) => In)'
  <2>1. \A x, u, f : x = o /\ u = unit /\ f = before /\ ResolvedIn(x, u, f) => In
    OBVIOUS
  <2> QED BY <2>1, PTL
<1> HIDE DEF In
<1>3. ASSUME Builds, In, [Next]_vars PROVE In'
  <2>1. CASE Start
    <3>1. ResolvedIn(o', unit', files) /\ before' = files
      BY <1>3, <2>1, StartUnit DEF Builds, Start
    <3> QED BY ONLY <1>5, <3>1
  <2>2. CASE Edit
    <3>1. unit' = NoUnit
      BY <2>2 DEF Edit
    <3>2. ResolvedIn(o', unit', before')
      BY ONLY <3>1, NoUnitFits DEF ResolvedIn
    <3> QED BY ONLY <1>5, <3>2
  <2>3. CASE ~Start /\ ~Edit
    <3>1. o' = o /\ unit' = unit /\ before' = before
      BY <1>3, <2>3 DEF vars, Next, Work, Finish, StepFails, WriteFile, RemoveFile, Spawn,
                        SpawnFails, ChildWrites, ChildExits, ChildFails, ParentReads,
                        wait_for, Crash
    <3>2. ResolvedIn(o', unit', before')
      BY <1>3, <3>1 DEF In
    <3> QED BY ONLY <1>5, <3>2
  <2> QED BY <2>1, <2>2, <2>3
<1>4. Spec => []In
  BY <1>2, <1>3, BuildAlways, PTL DEF Spec
<1> QED BY <1>1, <1>4, PTL
=============================================================================
