-------------------------- MODULE LibrariesProofs --------------------------
(***************************************************************************)
(* What the loops over the library files compute, for any files, search    *)
(* roots and packages: the members of a set in order, the search for the   *)
(* files of the imports, the order they are loaded in and the notice.      *)
(***************************************************************************)
EXTENDS Libraries, Loops, SequenceTheorems

-----------------------------------------------------------------------------
(* The members of a set in order.                                          *)

\* The turns of InOrder.
LEMMA InOrderSteps ==
    ASSUME NEW n \in Nat, NEW S \in SUBSET (1 .. n)
    PROVE  \E f \in [0 .. n -> Seq(S)] :
              /\ f[0] = <<>>
              /\ \A i \in 1 .. n : f[i] = IF i \in S THEN Append(f[i - 1], i) ELSE f[i - 1]
              /\ InOrder(S, n) = f[n]
<1> DEFINE Turn(x, i) == IF i \in S THEN Append(x, i) ELSE x
           G == [z \in (Seq(S)) \X (1 .. n) |-> Turn(z[1], z[2])]
           Loop(f) == f = [i \in 0 .. n |-> IF i = 0 THEN <<>> ELSE Turn(f[i - 1], i)]
           loop == CHOOSE f : Loop(f)
<1>1. n \in Nat
  OBVIOUS
<1>2. <<>> \in Seq(S)
  OBVIOUS
<1>3. \A x \in Seq(S) : \A i \in 1 .. n : Turn(x, i) \in Seq(S)
  OBVIOUS
<1>4. InOrder(S, n) = loop[n]
  BY DEF InOrder
<1>5. Loop(loop) /\ loop \in [0 .. n -> Seq(S)]
  <2> HIDE DEF Turn
  <2>1. G \in [(Seq(S)) \X (1 .. n) -> Seq(S)]
    BY <1>3
  <2>2. PICK f : LoopOf(f, Seq(S), <<>>, n, G)
    <3> HIDE DEF G
    <3> QED BY <1>1, <1>2, <2>1, LoopExists
  <2>3. \A i \in 1 .. n : G[<<f[i - 1], i>>] = Turn(f[i - 1], i)
    <3> TAKE i \in 1 .. n
    <3>1. i - 1 \in 0 .. n
      BY <1>1
    <3>2. <<f[i - 1], i>> \in (Seq(S)) \X (1 .. n)
      BY <2>2, <3>1 DEF LoopOf
    <3> QED BY <3>2
  <2>4. Loop(f)
    <3> HIDE DEF G
    <3>1. \A i \in 0 .. n : i # 0 => i \in 1 .. n
      BY <1>1
    <3>2. \A i \in 0 .. n : f[i] = IF i = 0 THEN <<>> ELSE Turn(f[i - 1], i)
      BY <2>2, <2>3, <3>1 DEF LoopOf
    <3>3. f = [i \in 0 .. n |-> f[i]]
      BY <2>2 DEF LoopOf
    <3> QED BY <3>2, <3>3
  <2>5. Loop(loop)
    BY <2>4
  <2> HIDE DEF loop, G
  <2>6. \A i \in 0 .. n : loop[i] = IF i = 0 THEN <<>> ELSE Turn(loop[i - 1], i)
    BY ONLY <2>5
  <2>7. 0 \in 0 .. n /\ \A i \in 1 .. n : i \in 0 .. n /\ i # 0
    BY <1>1
  <2>8. loop[0] = <<>> /\ \A i \in 1 .. n : loop[i - 1] \in Seq(S) => loop[i] \in Seq(S)
    BY ONLY <1>3, <2>6, <2>7
  <2>9. loop = [i \in 0 .. n |-> loop[i]]
    BY ONLY <2>5
  <2>10. loop \in [0 .. n -> Seq(S)]
    BY ONLY <1>1, <1>2, <2>8, <2>9, LoopTyped
  <2> QED BY <2>5, <2>10
<1>6. \A i \in 0 .. n : loop[i] = IF i = 0 THEN <<>> ELSE Turn(loop[i - 1], i)
  <2> HIDE DEF loop, Turn
  <2> QED BY ONLY <1>5
<1>7. 0 \in 0 .. n /\ \A i \in 1 .. n : i \in 0 .. n /\ i # 0
  BY <1>1
<1>8. loop[0] = <<>> /\ \A i \in 1 .. n : loop[i] = Turn(loop[i - 1], i)
  <2> HIDE DEF loop, Turn
  <2> QED BY ONLY <1>6, <1>7
<1> HIDE DEF loop
<1> QED BY <1>4, <1>5, <1>8

\* A sequence with one more element.
LEMMA AppendFacts ==
    ASSUME NEW X, NEW s \in Seq(X), NEW x \in X
    PROVE  /\ Append(s, x) \in Seq(X)
           /\ Len(s) \in Nat /\ DOMAIN s = 1 .. Len(s)
           /\ DOMAIN Append(s, x) = 1 .. Len(s) + 1
           /\ Len(Append(s, x)) = Len(s) + 1
           /\ Append(s, x)[Len(s) + 1] = x
           /\ \A j \in DOMAIN s : j \in DOMAIN Append(s, x) /\ Append(s, x)[j] = s[j]
           /\ \A j \in DOMAIN Append(s, x) : j = Len(s) + 1 \/ j \in DOMAIN s
  OBVIOUS

\* One sequence after the other.
LEMMA ConcatFacts ==
    ASSUME NEW X, NEW s \in Seq(X), NEW t \in Seq(X)
    PROVE  /\ s \o t \in Seq(X)
           /\ Len(s) \in Nat /\ Len(t) \in Nat /\ Len(s \o t) = Len(s) + Len(t)
           /\ \A i \in DOMAIN s : i \in DOMAIN (s \o t) /\ (s \o t)[i] = s[i]
           /\ \A i \in DOMAIN t : /\ Len(s) + i \in DOMAIN (s \o t)
                                 /\ (s \o t)[Len(s) + i] = t[i]
           /\ \A j \in DOMAIN (s \o t) :
                 j \in DOMAIN s \/ \E i \in DOMAIN t : j = Len(s) + i
<1> DEFINE u == s \o t
<1>1. /\ u \in Seq(X) /\ Len(u) = Len(s) + Len(t)
      /\ \A i \in 1 .. Len(s) + Len(t) : u[i] =
             IF i <= Len(s) THEN s[i] ELSE t[i - Len(s)]
  BY ConcatProperties
<1>2. /\ Len(s) \in Nat /\ Len(t) \in Nat
      /\ DOMAIN s = 1 .. Len(s) /\ DOMAIN t = 1 .. Len(t)
  OBVIOUS
<1> HIDE DEF u
<1>3. DOMAIN u = 1 .. Len(s) + Len(t)
  BY ONLY <1>1, LenProperties
<1>4. \A i \in DOMAIN s : i \in 1 .. Len(s) + Len(t) /\ i <= Len(s)
  BY <1>2
<1>5. \A i \in DOMAIN t : /\ Len(s) + i \in 1 .. Len(s) + Len(t)
                          /\ ~(Len(s) + i <= Len(s)) /\ (Len(s) + i) - Len(s) = i
  BY ONLY <1>2
<1>6. ASSUME NEW j \in DOMAIN u, j \notin DOMAIN s
      PROVE  \E i \in DOMAIN t : j = Len(s) + i
  <2>1. j - Len(s) \in 1 .. Len(t) /\ j = Len(s) + (j - Len(s))
    BY ONLY <1>2, <1>3, <1>6
  <2> QED BY ONLY <1>2, <2>1
<1> USE DEF u
<1> QED BY <1>1, <1>2, <1>3, <1>4, <1>5, <1>6

\* InOrder has every member of the set once.
LEMMA InOrderIs ==
    ASSUME NEW n \in Nat, NEW S \in SUBSET (1 .. n)
    PROVE  /\ InOrder(S, n) \in Seq(S)
           /\ \A i \in S : \E k \in DOMAIN InOrder(S, n) : InOrder(S, n)[k] = i
           /\ \A j, k \in DOMAIN InOrder(S, n) :
                 InOrder(S, n)[j] = InOrder(S, n)[k] => j = k
<1>1. PICK f \in [0 .. n -> Seq(S)] :
         /\ f[0] = <<>>
         /\ \A i \in 1 .. n : f[i] = IF i \in S THEN Append(f[i - 1], i) ELSE f[i - 1]
         /\ InOrder(S, n) = f[n]
  BY InOrderSteps
<1> DEFINE Has(s, k) == /\ \A i \in S : i <= k => \E j \in DOMAIN s : s[j] = i
                        /\ \A j \in DOMAIN s : s[j] <= k
                        /\ \A i, j \in DOMAIN s : s[i] = s[j] => i = j
           T == {k \in 0 .. n : Has(f[k], k)}
<1>0. \A s \in Seq(S) : \A j \in DOMAIN s : s[j] \in Int
  <2> TAKE s \in Seq(S)
  <2> TAKE j \in DOMAIN s
  <2>1. j \in 1 .. Len(s)
    OBVIOUS
  <2>2. s[j] \in S
    BY <2>1, ElementOfSeq
  <2>3. \A x \in S : x \in Int
    OBVIOUS
  <2> QED BY ONLY <2>2, <2>3
<1>2. 0 \in T
  BY <1>1
<1>3. ASSUME NEW k \in 1 .. n, k - 1 \in T PROVE k \in T
  <2>1. k - 1 \in 0 .. n /\ f[k - 1] \in Seq(S) /\ Has(f[k - 1], k - 1)
    BY <1>1, <1>3
  <2>2. CASE k \in S
    <3> DEFINE s == f[k - 1]
    <3>1. f[k] = Append(s, k)
      BY <1>1, <2>2
    <3>2. /\ Len(s) \in Nat /\ DOMAIN s = 1 .. Len(s)
          /\ f[k][Len(s) + 1] = k /\ Len(s) + 1 \in DOMAIN f[k]
          /\ \A j \in DOMAIN s : j \in DOMAIN f[k] /\ f[k][j] = s[j]
          /\ \A j \in DOMAIN f[k] : j = Len(s) + 1 \/ j \in DOMAIN s
      <4>1. s \in Seq(S)
        BY <2>1
      <4> HIDE DEF s
      <4>2. /\ Len(s) \in Nat /\ DOMAIN s = 1 .. Len(s)
            /\ DOMAIN Append(s, k) = 1 .. Len(s) + 1
            /\ Append(s, k)[Len(s) + 1] = k
            /\ \A j \in DOMAIN s : j \in DOMAIN Append(s, k) /\ Append(s, k)[j] = s[j]
            /\ \A j \in DOMAIN Append(s, k) : j = Len(s) + 1 \/ j \in DOMAIN s
        BY ONLY <2>2, <4>1, AppendFacts
      <4>3. Len(s) + 1 \in 1 .. Len(s) + 1
        BY <4>2
      <4> QED BY ONLY <3>1, <4>2, <4>3
    <3>3. /\ \A i \in S : i <= k - 1 => \E j \in DOMAIN s : s[j] = i
          /\ \A j \in DOMAIN s : s[j] <= k - 1
          /\ \A i, j \in DOMAIN s : s[i] = s[j] => i = j
      BY <2>1
    <3>4. \A j \in DOMAIN s : s[j] \in Int
      <4>1. s \in Seq(S)
        BY <2>1
      <4> QED BY ONLY <1>0, <4>1
    <3> HIDE DEF s
    <3>5. ASSUME NEW i \in S, i <= k PROVE \E j \in DOMAIN f[k] : f[k][j] = i
      <4>1. i = k \/ i <= k - 1
        <5>1. i \in Int /\ k \in Int
          OBVIOUS
        <5> QED BY ONLY <3>5, <5>1
      <4> QED BY ONLY <3>2, <3>3, <4>1, i \in S
    <3>6. ASSUME NEW j \in DOMAIN f[k] PROVE f[k][j] <= k
      <4>1. CASE j = Len(s) + 1
        BY <3>2, <4>1
      <4>2. CASE j \in DOMAIN s
        <5>1. f[k][j] = s[j] /\ s[j] <= k - 1 /\ s[j] \in Int /\ k \in Int
          BY <3>2, <3>3, <3>4, <4>2
        <5> QED BY ONLY <5>1
      <4> QED BY <3>2, <4>1, <4>2
    <3>7. ASSUME NEW i \in DOMAIN f[k], NEW j \in DOMAIN f[k], f[k][i] = f[k][j]
          PROVE  i = j
      <4>1. ASSUME NEW h \in DOMAIN s PROVE f[k][h] # k
        <5>1. f[k][h] = s[h] /\ s[h] <= k - 1 /\ s[h] \in Int /\ k \in Int
          BY <3>2, <3>3, <3>4
        <5> QED BY ONLY <5>1
      <4>2. \A h \in DOMAIN f[k] : h = Len(s) + 1 \/ h \in DOMAIN s
        BY <3>2
      <4> QED BY ONLY <3>2, <3>3, <3>7, <4>1, <4>2, i \in DOMAIN f[k], j \in DOMAIN f[k]
    <3> QED BY <3>5, <3>6, <3>7
  <2>3. CASE k \notin S
    <3>1. f[k] = f[k - 1]
      BY <1>1, <2>3
    <3>2. ASSUME NEW i \in S, i <= k PROVE i <= k - 1
      <4>1. i \in Int /\ k \in Int /\ i # k
        BY <2>3
      <4> QED BY ONLY <3>2, <4>1
    <3>3. ASSUME NEW j \in DOMAIN f[k - 1] PROVE f[k - 1][j] <= k
      <4>1. f[k - 1][j] <= k - 1 /\ f[k - 1][j] \in Int /\ k \in Int
        BY <1>0, <2>1
      <4> QED BY ONLY <4>1
    <3>4. Has(f[k - 1], k)
      BY <2>1, <3>2, <3>3
    <3> QED BY <3>1, <3>4
  <2> QED BY <2>2, <2>3
<1>4. T \in SUBSET (0 .. n)
  OBVIOUS
<1>7. \A k \in 1 .. n : k - 1 \in T => k \in T
  BY <1>3
<1> HIDE DEF T
<1>5. T = 0 .. n
  BY ONLY <1>2, <1>4, <1>7, n \in Nat, UpTo
<1>6. Has(f[n], n)
  <2>1. n \in 0 .. n
    OBVIOUS
  <2>2. n \in T
    BY ONLY <1>5, <2>1
  <2> HIDE DEF Has
  <2> QED BY ONLY <2>2 DEF T
<1> QED BY <1>1, <1>6

-----------------------------------------------------------------------------
(* The search for the library files.                                       *)

\* What a file system of library files is to hold, whatever else is in it.
FilesOK(files) ==
    /\ IsFiniteSet(DOMAIN files)
    /\ \A p \in DOMAIN files : files[p].kind = "antl" =>
            files[p].module \in Modules /\ files[p].imports \in Seq(Modules)

\* The states of find_libraries, over paths of P.
SearchStates(P) == [out : Seq(P), modules : Seq(Modules), wanted : Seq(Modules),
                    read : Nat, ok : BOOLEAN]

\* A file whose header is read: its module is known, its imports are wanted.
HeaderRead(files, s, i) ==
    LET p == s.out[i] IN
    /\ p \in DOMAIN files /\ files[p].kind = "antl" /\ files[p].header
    /\ s.modules[i] = files[p].module
    /\ \A m \in ToSet(files[p].imports) : m \in ToSet(s.wanted)

SearchOK(files, s) ==
    /\ s.read <= Len(s.out) /\ Len(s.modules) = s.read
    /\ \A i \in 1 .. s.read : HeaderRead(files, s, i)

\* The first search root that holds a module names a file.
LEMMA RootsFind ==
    ASSUME NEW o, NEW files, NEW R, o.roots \in Seq(R), NEW m,
           search_roots(o, files, m) # <<>>
    PROVE  \E p \in DOMAIN files : search_roots(o, files, m) = <<p>>
<1> DEFINE roots == o.roots \o (IF o.runtime # <<>>
                                THEN <<o.runtime \o <<"std">> >> ELSE <<>>)
           at(i) == Path(roots[i] \o Front(m), Last(m), <<".antl">>)
           held  == {i \in DOMAIN roots : at(i) \in DOMAIN files}
<1>1. search_roots(o, files, m) = IF held # {} THEN <<at(Min(held))>> ELSE <<>>
  BY DEF search_roots
<1>2. held # {}
  BY <1>1
<1>3. DOMAIN roots \in SUBSET Nat
  <2> DEFINE X == R \cup {o.runtime \o <<"std">>}
             last == IF o.runtime # <<>> THEN <<o.runtime \o <<"std">> >> ELSE <<>>
  <2>1. o.roots \in Seq(X) /\ last \in Seq(X)
    <3>1. R \subseteq X
      OBVIOUS
    <3>2. o.runtime \o <<"std">> \in X
      OBVIOUS
    <3> HIDE DEF X
    <3>3. o.roots \in Seq(X)
      BY ONLY <3>1, o.roots \in Seq(R)
    <3>4. last \in Seq(X)
      BY ONLY <3>2
    <3> QED BY ONLY <3>3, <3>4
  <2>2. roots = o.roots \o last
    OBVIOUS
  <2> HIDE DEF roots, last, X
  <2>3. roots \in Seq(X)
    BY ONLY <2>1, <2>2, ConcatProperties
  <2> QED BY ONLY <2>3, LenProperties
<1>4. held \in SUBSET Nat
  BY ONLY <1>3
<1>5. Min(held) \in held
  <2> HIDE DEF held
  <2>1. PICK i \in held : \A k \in held : i <= k
    BY ONLY <1>2, <1>4, LeastNat
  <2> QED BY ONLY <2>1 DEF Min
<1>6. at(Min(held)) \in DOMAIN files
  <2> HIDE DEF at
  <2> QED BY <1>5
<1> QED BY <1>1, <1>2, <1>6

\* Reading one header keeps what is known of the search.
LEMMA ReadHeaderKeeps ==
    ASSUME NEW files, FilesOK(files), NEW P, NEW s \in SearchStates(P)
    PROVE  LET r == ReadHeader(files, s) IN
           /\ r \in SearchStates(P) /\ r.out = s.out
           /\ SearchOK(files, s) => SearchOK(files, r)
           /\ s.ok /\ s.read < Len(s.out) => ~r.ok \/ r.read = s.read + 1
           /\ ~s.ok \/ s.read = Len(s.out) => r = s
<1> DEFINE p == s.out[s.read + 1]
<1>1. CASE ~s.ok \/ s.read = Len(s.out)
  BY <1>1 DEF ReadHeader, SearchStates
<1>2. CASE /\ s.ok /\ s.read # Len(s.out)
           /\ ~(p \in DOMAIN files /\ files[p].kind = "antl" /\ files[p].header)
  <2>1. ReadHeader(files, s) = [s EXCEPT !.ok = FALSE]
    BY <1>2 DEF ReadHeader
  <2> QED BY <1>2, <2>1 DEF SearchStates, SearchOK, HeaderRead
<1>3. CASE /\ s.ok /\ s.read # Len(s.out)
           /\ p \in DOMAIN files /\ files[p].kind = "antl" /\ files[p].header
  <2> DEFINE r == ReadHeader(files, s)
  <2>1. r = [s EXCEPT !.read = @ + 1,
                      !.modules = Append(@, files[p].module),
                      !.wanted = @ \o files[p].imports]
    BY <1>3 DEF ReadHeader
  <2>2. files[p].module \in Modules /\ files[p].imports \in Seq(Modules)
    BY <1>3 DEF FilesOK
  <2>3. /\ s.modules \in Seq(Modules) /\ s.wanted \in Seq(Modules)
        /\ s.read \in Nat /\ s.out \in Seq(P)
    BY DEF SearchStates
  <2> HIDE DEF p
  <2>4. /\ r.out = s.out /\ r.read = s.read + 1 /\ r.ok = s.ok
        /\ r.modules = Append(s.modules, files[p].module)
        /\ r.wanted = s.wanted \o files[p].imports
    BY ONLY <2>1, s \in SearchStates(P) DEF SearchStates
  <2>5. r.modules \in Seq(Modules)
    BY ONLY <2>2, <2>3, <2>4, AppendFacts
  <2>6. /\ r.wanted \in Seq(Modules)
        /\ \A m \in ToSet(s.wanted) : m \in ToSet(r.wanted)
        /\ \A m \in ToSet(files[p].imports) : m \in ToSet(r.wanted)
    <3> DEFINE t == files[p].imports
    <3>1. /\ s.wanted \o t \in Seq(Modules)
          /\ \A i \in DOMAIN s.wanted : /\ i \in DOMAIN (s.wanted \o t)
                                       /\ (s.wanted \o t)[i] = s.wanted[i]
          /\ \A i \in DOMAIN t : /\ Len(s.wanted) + i \in DOMAIN (s.wanted \o t)
                                /\ (s.wanted \o t)[Len(s.wanted) + i] = t[i]
      <4> HIDE DEF t
      <4>1. s.wanted \in Seq(Modules) /\ t \in Seq(Modules)
        BY <2>2, <2>3 DEF t
      <4> QED BY ONLY <4>1, ConcatFacts
    <3>2. \A i \in DOMAIN s.wanted : s.wanted[i] \in ToSet(s.wanted \o t)
      BY ONLY <3>1 DEF ToSet
    <3>3. \A i \in DOMAIN t : t[i] \in ToSet(s.wanted \o t)
      BY ONLY <3>1 DEF ToSet
    <3>4. /\ \A m \in ToSet(s.wanted) : m \in ToSet(s.wanted \o t)
          /\ \A m \in ToSet(t) : m \in ToSet(s.wanted \o t)
      <4> HIDE DEF t
      <4> QED BY ONLY <3>2, <3>3 DEF ToSet
    <3> QED BY ONLY <2>4, <3>1, <3>4
  <2>7. r \in SearchStates(P)
    <3>1. r = [out |-> r.out, modules |-> r.modules, wanted |-> r.wanted,
               read |-> r.read, ok |-> r.ok]
      BY ONLY <2>1, <2>4, s \in SearchStates(P) DEF SearchStates
    <3>2. r.ok \in BOOLEAN /\ r.read \in Nat /\ r.out \in Seq(P)
      BY <2>3, <2>4 DEF SearchStates
    <3> HIDE DEF r
    <3> QED BY ONLY <2>5, <2>6, <3>1, <3>2 DEF SearchStates
  <2>8. ASSUME SearchOK(files, s) PROVE SearchOK(files, r)
    <3>1. /\ s.read <= Len(s.out) /\ Len(s.modules) = s.read
          /\ \A i \in 1 .. s.read : HeaderRead(files, s, i)
      BY ONLY <2>8 DEF SearchOK
    <3>2. /\ Len(r.modules) = s.read + 1 /\ r.modules[s.read + 1] = files[p].module
          /\ \A i \in 1 .. s.read : r.modules[i] = s.modules[i]
      <4>1. DOMAIN s.modules = 1 .. s.read
        BY ONLY <2>3, <3>1, LenProperties
      <4> QED BY ONLY <2>2, <2>3, <2>4, <3>1, <4>1, AppendFacts
    <3>3. s.read + 1 <= Len(s.out)
      BY <1>3, <2>3, <3>1
    <3>4. ASSUME NEW i \in 1 .. s.read + 1 PROVE HeaderRead(files, r, i)
      <4>1. CASE i = s.read + 1
        BY <1>3, <2>4, <2>6, <3>2, <4>1 DEF HeaderRead, p
      <4>2. CASE i # s.read + 1
        <5>1. i \in 1 .. s.read
          BY <2>3, <4>2
        <5> QED BY <2>4, <2>6, <3>1, <3>2, <5>1 DEF HeaderRead
      <4> QED BY <4>1, <4>2
    <3> QED BY <2>4, <3>2, <3>3, <3>4 DEF SearchOK
  <2> QED BY <1>3, <2>4, <2>7, <2>8
<1> QED BY <1>1, <1>2, <1>3

\* The turns of ReadHeaders.
LEMMA ReadHeadersSteps ==
    ASSUME NEW files, FilesOK(files), NEW P, NEW s \in SearchStates(P)
    PROVE  \E f \in [0 .. Len(s.out) -> SearchStates(P)] :
              /\ f[0] = s
              /\ \A n \in 1 .. Len(s.out) : f[n] = ReadHeader(files, f[n - 1])
              /\ ReadHeaders(files, s) = f[Len(s.out)]
<1> DEFINE Turn(x, n) == ReadHeader(files, x)
           G == [z \in (SearchStates(P)) \X (1 .. Len(s.out)) |-> Turn(z[1], z[2])]
           Loop(f) == f = [n \in 0 .. Len(s.out) |-> IF n = 0 THEN s ELSE Turn(f[n - 1], n)]
           loop == CHOOSE f : Loop(f)
<1>1. Len(s.out) \in Nat
  BY DEF SearchStates
<1>2. s \in SearchStates(P)
  OBVIOUS
<1>3. \A x \in SearchStates(P) : \A n \in 1 .. Len(s.out) : Turn(x, n) \in SearchStates(P)
  BY ReadHeaderKeeps
<1>4. ReadHeaders(files, s) = loop[Len(s.out)]
  BY DEF ReadHeaders
<1>5. Loop(loop) /\ loop \in [0 .. Len(s.out) -> SearchStates(P)]
  <2> HIDE DEF Turn
  <2>1. G \in [(SearchStates(P)) \X (1 .. Len(s.out)) -> SearchStates(P)]
    BY <1>3
  <2>2. PICK f : LoopOf(f, SearchStates(P), s, Len(s.out), G)
    <3> HIDE DEF G
    <3> QED BY <1>1, <1>2, <2>1, LoopExists
  <2>3. \A n \in 1 .. Len(s.out) : G[<<f[n - 1], n>>] = Turn(f[n - 1], n)
    <3> TAKE n \in 1 .. Len(s.out)
    <3>1. n - 1 \in 0 .. Len(s.out)
      BY <1>1
    <3>2. <<f[n - 1], n>> \in (SearchStates(P)) \X (1 .. Len(s.out))
      BY <2>2, <3>1 DEF LoopOf
    <3> QED BY <3>2
  <2>4. Loop(f)
    <3> HIDE DEF G
    <3>1. \A n \in 0 .. Len(s.out) : n # 0 => n \in 1 .. Len(s.out)
      BY <1>1
    <3>2. \A n \in 0 .. Len(s.out) : f[n] = IF n = 0 THEN s ELSE Turn(f[n - 1], n)
      BY <2>2, <2>3, <3>1 DEF LoopOf
    <3>3. f = [n \in 0 .. Len(s.out) |-> f[n]]
      BY <2>2 DEF LoopOf
    <3> QED BY <3>2, <3>3
  <2>5. Loop(loop)
    BY <2>4
  <2> HIDE DEF loop, G
  <2>6. \A n \in 0 .. Len(s.out) : loop[n] = IF n = 0 THEN s ELSE Turn(loop[n - 1], n)
    BY ONLY <2>5
  <2>7. 0 \in 0 .. Len(s.out) /\ \A n \in 1 .. Len(s.out) : n \in 0 .. Len(s.out) /\ n # 0
    BY <1>1
  <2>8. loop[0] = s /\ \A n \in 1 .. Len(s.out) : loop[n - 1] \in SearchStates(P) => loop[n] \in SearchStates(P)
    BY ONLY <1>3, <2>6, <2>7
  <2>9. loop = [n \in 0 .. Len(s.out) |-> loop[n]]
    BY ONLY <2>5
  <2>10. loop \in [0 .. Len(s.out) -> SearchStates(P)]
    BY ONLY <1>1, <1>2, <2>8, <2>9, LoopTyped
  <2> QED BY <2>5, <2>10
<1>6. \A n \in 0 .. Len(s.out) : loop[n] = IF n = 0 THEN s ELSE Turn(loop[n - 1], n)
  <2> HIDE DEF loop, Turn
  <2> QED BY ONLY <1>5
<1>7. 0 \in 0 .. Len(s.out) /\ \A n \in 1 .. Len(s.out) : n \in 0 .. Len(s.out) /\ n # 0
  BY <1>1
<1>8. loop[0] = s /\ \A n \in 1 .. Len(s.out) : loop[n] = Turn(loop[n - 1], n)
  <2> HIDE DEF loop, Turn
  <2> QED BY ONLY <1>6, <1>7
<1> HIDE DEF loop
<1> QED BY <1>4, <1>5, <1>8

\* The first loop of a round reads every header or stops at a damaged one.
LEMMA ReadHeadersIs ==
    ASSUME NEW files, FilesOK(files), NEW P, NEW s \in SearchStates(P), SearchOK(files, s)
    PROVE  LET r == ReadHeaders(files, s) IN
           /\ r \in SearchStates(P) /\ r.out = s.out /\ SearchOK(files, r)
           /\ ~r.ok \/ r.read = Len(r.out)
           /\ ~s.ok \/ s.read = Len(s.out) => r = s
<1> DEFINE N == Len(s.out)
           r == ReadHeaders(files, s)
<1>0. N \in Nat /\ s.read \in Nat
  BY DEF SearchStates
<1>1. PICK f \in [0 .. N -> SearchStates(P)] :
         /\ f[0] = s
         /\ \A n \in 1 .. N : f[n] = ReadHeader(files, f[n - 1])
         /\ r = f[N]
  BY ReadHeadersSteps
<1> DEFINE Inv(x, k) == /\ x.out = s.out /\ SearchOK(files, x)
                        /\ ~x.ok \/ x.read >= k
                        /\ ~s.ok \/ s.read = N => x = s
           T == {k \in 0 .. N : Inv(f[k], k)}
<1>2. 0 \in T
  BY <1>0, <1>1
<1>3. ASSUME NEW k \in 1 .. N, k - 1 \in T PROVE k \in T
  <2> DEFINE x == f[k - 1]
             y == f[k]
  <2>1. k - 1 \in 0 .. N /\ x \in SearchStates(P) /\ y = ReadHeader(files, x)
    BY <1>0, <1>1
  <2>2. Inv(x, k - 1)
    BY <1>3
  <2> HIDE DEF x, y, N
  <2>3. /\ y \in SearchStates(P) /\ y.out = x.out
        /\ SearchOK(files, x) => SearchOK(files, y)
        /\ x.ok /\ x.read < Len(x.out) => ~y.ok \/ y.read = x.read + 1
        /\ ~x.ok \/ x.read = Len(x.out) => y = x
    BY ONLY <2>1, FilesOK(files), ReadHeaderKeeps
  <2>4. /\ x.out = s.out /\ SearchOK(files, x)
        /\ ~x.ok \/ x.read >= k - 1
        /\ ~s.ok \/ s.read = N => x = s
    BY <2>2
  <2>5. x.read \in Nat /\ y.read \in Nat /\ x.read <= N
    BY <2>1, <2>3, <2>4 DEF SearchStates, SearchOK, N
  <2>6. ~y.ok \/ y.read >= k
    <3>1. CASE ~x.ok
      BY <2>3, <3>1
    <3>2. CASE x.ok /\ x.read = N
      <4>1. y = x /\ k <= N
        BY <2>3, <2>4, <3>2 DEF N
      <4> QED BY ONLY <1>0, <3>2, <4>1
    <3>3. CASE x.ok /\ x.read < N
      <4>1. ~y.ok \/ y.read = x.read + 1
        BY <2>3, <2>4, <3>3 DEF N
      <4>2. x.read >= k - 1
        BY <2>4, <3>3
      <4> QED BY ONLY <1>0, <2>5, <4>1, <4>2, k \in 1 .. N
    <3> QED BY ONLY <1>0, <2>5, <3>1, <3>2, <3>3
  <2>7. ~s.ok \/ s.read = N => y = s
    BY <2>3, <2>4 DEF N
  <2>8. Inv(y, k)
    BY <2>3, <2>4, <2>6, <2>7
  <2> QED BY <2>8 DEF y
<1>4. T \in SUBSET (0 .. N)
  OBVIOUS
<1>5. \A k \in 1 .. N : k - 1 \in T => k \in T
  BY <1>3
<1> HIDE DEF T
<1>6. T = 0 .. N
  BY ONLY <1>0, <1>2, <1>4, <1>5, UpTo
<1>7. N \in T
  BY ONLY <1>0, <1>6
<1>8. Inv(r, N)
  BY <1>1, <1>7 DEF T
<1>9. r \in SearchStates(P)
  BY <1>0, <1>1
<1>10. ~r.ok \/ r.read = Len(r.out)
  BY <1>0, <1>8, <1>9 DEF SearchOK, SearchStates
<1> QED BY <1>8, <1>9, <1>10

\* An import that the search is done with: a file that is read provides it,
\* no search root holds it, or the file that does is among those found.
Answered(o, files, modules, out, m) ==
    \/ Contains(modules, m)
    \/ search_roots(o, files, m) = <<>>
    \/ Contains(out, search_roots(o, files, m)[1])

Extends(s, t) == Len(s) <= Len(t) /\ \A i \in 1 .. Len(s) : t[i] = s[i]

\* One more element.
LEMMA AppendExtends ==
    ASSUME NEW P, NEW s \in Seq(P), NEW p \in P
    PROVE  /\ Append(s, p) \in Seq(P) /\ Extends(s, Append(s, p))
           /\ Contains(Append(s, p), p)
           /\ \A x : Contains(s, x) => Contains(Append(s, p), x)
<1> DEFINE t == Append(s, p)
<1>1. /\ t \in Seq(P) /\ Len(s) \in Nat /\ DOMAIN s = 1 .. Len(s)
      /\ Len(t) = Len(s) + 1 /\ t[Len(s) + 1] = p
      /\ \A j \in DOMAIN s : j \in DOMAIN t /\ t[j] = s[j]
  BY ONLY s \in Seq(P), p \in P, AppendFacts
<1> HIDE DEF t
<1>2. Len(s) + 1 \in 1 .. Len(t) /\ 1 .. Len(s) \subseteq 1 .. Len(t) /\ Len(s) <= Len(t)
  BY ONLY <1>1
<1>3. Extends(s, t)
  BY ONLY <1>1, <1>2 DEF Extends
<1>4. Contains(t, p)
  BY ONLY <1>1, <1>2 DEF Contains
<1>5. \A x : Contains(s, x) => Contains(t, x)
  BY ONLY <1>1, <1>2 DEF Contains
<1> QED BY ONLY <1>1, <1>3, <1>4, <1>5 DEF t

LEMMA ExtendsTwice ==
    ASSUME NEW P, NEW r \in Seq(P), NEW s \in Seq(P), NEW t \in Seq(P),
           Extends(r, s), Extends(s, t)
    PROVE  Extends(r, t)
<1>1. Len(r) \in Nat /\ Len(s) \in Nat /\ Len(t) \in Nat
  OBVIOUS
<1>2. \A i \in 1 .. Len(r) : i \in 1 .. Len(s)
  BY ONLY <1>1, Extends(r, s) DEF Extends
<1> QED BY ONLY <1>1, <1>2, Extends(r, s), Extends(s, t) DEF Extends

\* One turn of the second loop.
LEMMA SearchForIs ==
    ASSUME NEW o, NEW files, NEW R, o.roots \in Seq(R), NEW P, DOMAIN files \subseteq P,
           NEW modules, NEW out \in Seq(P), NEW m
    PROVE  LET t == SearchFor(o, files, modules, out, m) IN
           /\ t \in Seq(P) /\ Extends(out, t) /\ Answered(o, files, modules, t, m)
           /\ \A x : Contains(out, x) => Contains(t, x)
           /\ Answered(o, files, modules, out, m) => t = out
           /\ t = out \/ \E p \in DOMAIN files : Contains(t, p) /\ ~Contains(out, p)
<1> DEFINE found == search_roots(o, files, m)
           t == SearchFor(o, files, modules, out, m)
<1>1. t = IF Contains(modules, m) \/ found = <<>> \/ Contains(out, found[1])
          THEN out ELSE Append(out, found[1])
  BY DEF SearchFor
<1>2. Extends(out, out)
  BY DEF Extends
<1>3. CASE Contains(modules, m) \/ found = <<>> \/ Contains(out, found[1])
  <2>1. t = out
    BY ONLY <1>1, <1>3
  <2>2. Answered(o, files, modules, out, m)
    BY <1>3 DEF Answered
  <2> HIDE DEF t
  <2> QED BY ONLY <1>2, <2>1, <2>2, out \in Seq(P) DEF t
<1>4. CASE ~(Contains(modules, m) \/ found = <<>> \/ Contains(out, found[1]))
  <2>1. PICK p \in DOMAIN files : found = <<p>>
    BY <1>4, RootsFind
  <2>2. found[1] = p /\ p \in P
    BY <2>1
  <2>3. t = Append(out, p)
    BY ONLY <1>1, <1>4, <2>2
  <2>4. /\ Append(out, p) \in Seq(P) /\ Extends(out, Append(out, p))
        /\ Contains(Append(out, p), p)
        /\ \A x : Contains(out, x) => Contains(Append(out, p), x)
    BY ONLY <2>2, out \in Seq(P), AppendExtends
  <2>5. ~Contains(out, p)
    BY ONLY <1>4, <2>2
  <2>6. ~Answered(o, files, modules, out, m)
    BY <1>4 DEF Answered
  <2>7. Answered(o, files, modules, t, m)
    BY ONLY <2>2, <2>3, <2>4 DEF Answered
  <2> HIDE DEF t
  <2> QED BY ONLY <2>1, <2>3, <2>4, <2>5, <2>6, <2>7 DEF t
<1> QED BY <1>3, <1>4

\* The turns of Search.
LEMMA SearchSteps ==
    ASSUME NEW o, NEW files, NEW R, o.roots \in Seq(R), NEW P, DOMAIN files \subseteq P, NEW s \in SearchStates(P)
    PROVE  \E f \in [0 .. Len(s.wanted) -> Seq(P)] :
              /\ f[0] = s.out
              /\ \A n \in 1 .. Len(s.wanted) : f[n] = SearchFor(o, files, s.modules, f[n - 1], s.wanted[n])
              /\ Search(o, files, s) = f[Len(s.wanted)]
<1> DEFINE Turn(x, n) == SearchFor(o, files, s.modules, x, s.wanted[n])
           G == [z \in (Seq(P)) \X (1 .. Len(s.wanted)) |-> Turn(z[1], z[2])]
           Loop(f) == f = [n \in 0 .. Len(s.wanted) |-> IF n = 0 THEN s.out ELSE Turn(f[n - 1], n)]
           loop == CHOOSE f : Loop(f)
<1>1. Len(s.wanted) \in Nat
  BY DEF SearchStates
<1>2. s.out \in Seq(P)
  BY DEF SearchStates
<1>3. \A x \in Seq(P) : \A n \in 1 .. Len(s.wanted) : Turn(x, n) \in Seq(P)
  BY SearchForIs
<1>4. Search(o, files, s) = loop[Len(s.wanted)]
  BY DEF Search
<1>5. Loop(loop) /\ loop \in [0 .. Len(s.wanted) -> Seq(P)]
  <2> HIDE DEF Turn
  <2>1. G \in [(Seq(P)) \X (1 .. Len(s.wanted)) -> Seq(P)]
    BY <1>3
  <2>2. PICK f : LoopOf(f, Seq(P), s.out, Len(s.wanted), G)
    <3> HIDE DEF G
    <3> QED BY <1>1, <1>2, <2>1, LoopExists
  <2>3. \A n \in 1 .. Len(s.wanted) : G[<<f[n - 1], n>>] = Turn(f[n - 1], n)
    <3> TAKE n \in 1 .. Len(s.wanted)
    <3>1. n - 1 \in 0 .. Len(s.wanted)
      BY <1>1
    <3>2. <<f[n - 1], n>> \in (Seq(P)) \X (1 .. Len(s.wanted))
      BY <2>2, <3>1 DEF LoopOf
    <3> QED BY <3>2
  <2>4. Loop(f)
    <3> HIDE DEF G
    <3>1. \A n \in 0 .. Len(s.wanted) : n # 0 => n \in 1 .. Len(s.wanted)
      BY <1>1
    <3>2. \A n \in 0 .. Len(s.wanted) : f[n] = IF n = 0 THEN s.out ELSE Turn(f[n - 1], n)
      BY <2>2, <2>3, <3>1 DEF LoopOf
    <3>3. f = [n \in 0 .. Len(s.wanted) |-> f[n]]
      BY <2>2 DEF LoopOf
    <3> QED BY <3>2, <3>3
  <2>5. Loop(loop)
    BY <2>4
  <2> HIDE DEF loop, G
  <2>6. \A n \in 0 .. Len(s.wanted) : loop[n] = IF n = 0 THEN s.out ELSE Turn(loop[n - 1], n)
    BY ONLY <2>5
  <2>7. 0 \in 0 .. Len(s.wanted) /\ \A n \in 1 .. Len(s.wanted) : n \in 0 .. Len(s.wanted) /\ n # 0
    BY <1>1
  <2>8. loop[0] = s.out /\ \A n \in 1 .. Len(s.wanted) : loop[n - 1] \in Seq(P) => loop[n] \in Seq(P)
    BY ONLY <1>3, <2>6, <2>7
  <2>9. loop = [n \in 0 .. Len(s.wanted) |-> loop[n]]
    BY ONLY <2>5
  <2>10. loop \in [0 .. Len(s.wanted) -> Seq(P)]
    BY ONLY <1>1, <1>2, <2>8, <2>9, LoopTyped
  <2> QED BY <2>5, <2>10
<1>6. \A n \in 0 .. Len(s.wanted) : loop[n] = IF n = 0 THEN s.out ELSE Turn(loop[n - 1], n)
  <2> HIDE DEF loop, Turn
  <2> QED BY ONLY <1>5
<1>7. 0 \in 0 .. Len(s.wanted) /\ \A n \in 1 .. Len(s.wanted) : n \in 0 .. Len(s.wanted) /\ n # 0
  BY <1>1
<1>8. loop[0] = s.out /\ \A n \in 1 .. Len(s.wanted) : loop[n] = Turn(loop[n - 1], n)
  <2> HIDE DEF loop, Turn
  <2> QED BY ONLY <1>6, <1>7
<1> HIDE DEF loop
<1> QED BY <1>4, <1>5, <1>8

\* The second loop answers every import, and adds a file when one is missing.
LEMMA SearchIs ==
    ASSUME NEW o, NEW files, NEW R, o.roots \in Seq(R), NEW P, DOMAIN files \subseteq P,
           NEW s \in SearchStates(P)
    PROVE  LET t == Search(o, files, s) IN
           /\ t \in Seq(P) /\ Extends(s.out, t)
           /\ \A m \in ToSet(s.wanted) : Answered(o, files, s.modules, t, m)
           /\ \A x : Contains(s.out, x) => Contains(t, x)
           /\ (\A m \in ToSet(s.wanted) : Answered(o, files, s.modules, s.out, m))
                => t = s.out
           /\ t = s.out \/ \E p \in DOMAIN files : Contains(t, p) /\ ~Contains(s.out, p)
<1> DEFINE N == Len(s.wanted)
           t == Search(o, files, s)
           w(k) == s.wanted[k]
           Ans(x, m) == Answered(o, files, s.modules, x, m)
<1>0. N \in Nat /\ s.out \in Seq(P) /\ DOMAIN s.wanted = 1 .. N
  BY DEF SearchStates
<1>1. PICK f \in [0 .. N -> Seq(P)] :
         /\ f[0] = s.out
         /\ \A n \in 1 .. N : f[n] = SearchFor(o, files, s.modules, f[n - 1], s.wanted[n])
         /\ t = f[N]
  BY SearchSteps
<1> DEFINE Inv(x, k) ==
             /\ Extends(s.out, x)
             /\ \A j \in 1 .. k : Ans(x, w(j))
             /\ \A y : Contains(s.out, y) => Contains(x, y)
             /\ (\A j \in 1 .. N : Ans(s.out, w(j))) => x = s.out
             /\ x = s.out \/ \E p \in DOMAIN files : Contains(x, p) /\ ~Contains(s.out, p)
           T == {k \in 0 .. N : Inv(f[k], k)}
<1>2. 0 \in T
  <2>1. Extends(s.out, s.out)
    BY DEF Extends
  <2> HIDE DEF Ans, w
  <2> QED BY <1>0, <1>1, <2>1
<1>3. ASSUME NEW k \in 1 .. N, k - 1 \in T PROVE k \in T
  <2> DEFINE x == f[k - 1]
             y == f[k]
  <2>1. k - 1 \in 0 .. N /\ x \in Seq(P) /\ y = SearchFor(o, files, s.modules, x, w(k))
    <3> HIDE DEF N
    <3>1. k - 1 \in 0 .. N
      BY ONLY <1>0, k \in 1 .. N
    <3>2. x \in Seq(P)
      BY ONLY <1>1, <3>1
    <3>3. y = SearchFor(o, files, s.modules, x, w(k))
      BY ONLY <1>1, k \in 1 .. N
    <3> QED BY ONLY <3>1, <3>2, <3>3
  <2>2. Inv(x, k - 1)
    BY <1>3
  <2> HIDE DEF x, y, N, w
  <2>3. /\ y \in Seq(P) /\ Extends(x, y) /\ Ans(y, w(k))
        /\ \A z : Contains(x, z) => Contains(y, z)
        /\ Ans(x, w(k)) => y = x
        /\ y = x \/ \E p \in DOMAIN files : Contains(y, p) /\ ~Contains(x, p)
    BY ONLY <2>1, o.roots \in Seq(R), DOMAIN files \subseteq P, SearchForIs
  <2>4. \A m : Ans(x, m) => Ans(y, m)
    BY ONLY <2>3 DEF Answered
  <2> HIDE DEF Ans
  <2>5. Extends(s.out, y)
    BY ONLY <1>0, <2>1, <2>2, <2>3, ExtendsTwice
  <2>6. \A j \in 1 .. k : Ans(y, w(j))
    <3>1. \A j \in 1 .. k : j \in 1 .. k - 1 \/ j = k
      BY <1>0
    <3> QED BY ONLY <2>2, <2>3, <2>4, <3>1
  <2>7. (\A j \in 1 .. N : Ans(s.out, w(j))) => y = s.out
    BY ONLY <2>2, <2>3, k \in 1 .. N
  <2>8. y = s.out \/ \E p \in DOMAIN files : Contains(y, p) /\ ~Contains(s.out, p)
    BY ONLY <2>2, <2>3
  <2>9. \A z : Contains(s.out, z) => Contains(y, z)
    BY ONLY <2>2, <2>3
  <2>10. Inv(y, k)
    BY ONLY <2>5, <2>6, <2>7, <2>8, <2>9
  <2> QED BY <2>10 DEF y
<1>4. T \in SUBSET (0 .. N)
  OBVIOUS
<1>5. \A k \in 1 .. N : k - 1 \in T => k \in T
  BY <1>3
<1> HIDE DEF T
<1>6. T = 0 .. N
  BY ONLY <1>0, <1>2, <1>4, <1>5, UpTo
<1>7. N \in T
  BY ONLY <1>0, <1>6
<1>8. Inv(t, N)
  <2> HIDE DEF t, Inv
  <2> QED BY ONLY <1>1, <1>7 DEF T
<1>9. t \in Seq(P)
  BY <1>0, <1>1
<1>10. \A m \in ToSet(s.wanted) : \E j \in 1 .. N : m = w(j)
  BY <1>0 DEF ToSet
<1>11. \A j \in 1 .. N : w(j) \in ToSet(s.wanted)
  BY <1>0 DEF ToSet
<1> HIDE DEF N, t, w, Ans
<1>12. /\ \A m \in ToSet(s.wanted) : Ans(t, m)
       /\ (\A m \in ToSet(s.wanted) : Ans(s.out, m)) => t = s.out
  BY ONLY <1>8, <1>10, <1>11
<1> QED BY ONLY <1>8, <1>9, <1>12 DEF t, Ans

\* The end of the search: a file cannot be read, or every file is read and
\* every import answered.
Done(o, files, s) ==
    \/ ~s.ok
    \/ /\ s.read = Len(s.out)
       /\ \A m \in ToSet(s.wanted) : Answered(o, files, s.modules, s.out, m)

\* One round ends the search or finds a file.
LEMMA RoundIs ==
    ASSUME NEW o, NEW files, FilesOK(files), NEW R, o.roots \in Seq(R),
           NEW P, DOMAIN files \subseteq P, NEW s \in SearchStates(P), SearchOK(files, s)
    PROVE  LET r == Round(o, files, s) IN
           /\ r \in SearchStates(P) /\ SearchOK(files, r)
           /\ \A x : Contains(s.out, x) => Contains(r.out, x)
           /\ Done(o, files, s) => r = s
           /\ \/ Done(o, files, r)
              \/ \E p \in DOMAIN files : Contains(r.out, p) /\ ~Contains(s.out, p)
<1> DEFINE h == ReadHeaders(files, s)
           t == Search(o, files, h)
           r == Round(o, files, s)
<1>1. /\ h \in SearchStates(P) /\ h.out = s.out /\ SearchOK(files, h)
      /\ ~h.ok \/ h.read = Len(h.out)
      /\ ~s.ok \/ s.read = Len(s.out) => h = s
  BY ReadHeadersIs
<1>2. r = IF h.ok THEN [h EXCEPT !.out = t] ELSE h
  BY DEF Round
<1> HIDE DEF h
<1>3. /\ t \in Seq(P) /\ Extends(h.out, t)
      /\ \A m \in ToSet(h.wanted) : Answered(o, files, h.modules, t, m)
      /\ \A x : Contains(h.out, x) => Contains(t, x)
      /\ (\A m \in ToSet(h.wanted) : Answered(o, files, h.modules, h.out, m))
            => t = h.out
      /\ t = h.out \/ \E p \in DOMAIN files : Contains(t, p) /\ ~Contains(h.out, p)
  BY ONLY <1>1, o.roots \in Seq(R), DOMAIN files \subseteq P, SearchIs
<1> HIDE DEF t, r
<1>4. CASE ~h.ok
  <2>1. r = h
    BY ONLY <1>2, <1>4
  <2>2. Done(o, files, r)
    BY ONLY <1>4, <2>1 DEF Done
  <2>3. Done(o, files, s) => h = s
    BY ONLY <1>1 DEF Done
  <2> QED BY ONLY <1>1, <2>1, <2>2, <2>3 DEF r
<1>5. CASE h.ok
  <2>1. r = [h EXCEPT !.out = t]
    BY ONLY <1>2, <1>5
  <2>2. /\ r.out = t /\ r.modules = h.modules /\ r.wanted = h.wanted
        /\ r.read = h.read /\ r.ok = h.ok /\ r \in SearchStates(P)
    BY ONLY <1>1, <1>3, <2>1 DEF SearchStates
  <2>3. h.read = Len(h.out) /\ h.read \in Nat /\ Len(t) \in Nat
    BY ONLY <1>1, <1>3, <1>5 DEF SearchStates
  <2>4. SearchOK(files, r)
    <3>1. /\ Len(h.modules) = h.read
          /\ \A i \in 1 .. h.read : HeaderRead(files, h, i)
      BY ONLY <1>1 DEF SearchOK
    <3>2. h.read <= Len(t) /\ \A i \in 1 .. h.read : t[i] = h.out[i]
      BY ONLY <1>3, <2>3 DEF Extends
    <3>3. ASSUME NEW i \in 1 .. h.read PROVE HeaderRead(files, r, i)
      BY ONLY <2>2, <3>1, <3>2, i \in 1 .. h.read DEF HeaderRead
    <3> QED BY ONLY <2>2, <3>1, <3>2, <3>3 DEF SearchOK
  <2>5. ASSUME t = h.out PROVE Done(o, files, r)
    BY ONLY <1>3, <2>2, <2>3, <2>5 DEF Done
  <2>6. ASSUME Done(o, files, s) PROVE r = s
    <3>1. h = s
      BY ONLY <1>1, <2>6 DEF Done
    <3>2. \A m \in ToSet(h.wanted) : Answered(o, files, h.modules, h.out, m)
      BY ONLY <1>5, <2>6, <3>1 DEF Done
    <3>3. t = h.out
      BY ONLY <1>3, <3>2
    <3>4. r = h
      BY ONLY <1>1, <2>1, <3>3 DEF SearchStates
    <3> QED BY ONLY <3>1, <3>4
  <2> QED BY ONLY <1>1, <1>3, <2>2, <2>4, <2>5, <2>6 DEF r
<1> QED BY <1>4, <1>5

RoundBound(files) == Cardinality(DOMAIN files) + 1

GoodStates(files, P) == {x \in SearchStates(P) : SearchOK(files, x)}

\* The turns of Rounds.
LEMMA RoundsSteps ==
    ASSUME NEW o, NEW files, FilesOK(files), NEW R, o.roots \in Seq(R),
           NEW P, DOMAIN files \subseteq P, NEW s \in SearchStates(P), SearchOK(files, s)
    PROVE  \E f \in [0 .. RoundBound(files) -> GoodStates(files, P)] :
              /\ f[0] = s
              /\ \A n \in 1 .. RoundBound(files) : f[n] = Round(o, files, f[n - 1])
              /\ Rounds(o, files, s) = f[RoundBound(files)]
<1> DEFINE Turn(x, n) == Round(o, files, x)
           G == [z \in (GoodStates(files, P)) \X (1 .. RoundBound(files)) |-> Turn(z[1], z[2])]
           Loop(f) == f = [n \in 0 .. RoundBound(files) |-> IF n = 0 THEN s ELSE Turn(f[n - 1], n)]
           loop == CHOOSE f : Loop(f)
<1>1. RoundBound(files) \in Nat
  BY FS_CardinalityType DEF FilesOK, RoundBound
<1>2. s \in GoodStates(files, P)
  BY DEF GoodStates
<1>3. \A x \in GoodStates(files, P) : \A n \in 1 .. RoundBound(files) : Turn(x, n) \in GoodStates(files, P)
  BY RoundIs DEF GoodStates
<1>4. Rounds(o, files, s) = loop[RoundBound(files)]
  BY DEF Rounds, RoundBound
<1>5. Loop(loop) /\ loop \in [0 .. RoundBound(files) -> GoodStates(files, P)]
  <2> HIDE DEF Turn
  <2>1. G \in [(GoodStates(files, P)) \X (1 .. RoundBound(files)) -> GoodStates(files, P)]
    BY <1>3
  <2>2. PICK f : LoopOf(f, GoodStates(files, P), s, RoundBound(files), G)
    <3> HIDE DEF G
    <3> QED BY <1>1, <1>2, <2>1, LoopExists
  <2>3. \A n \in 1 .. RoundBound(files) : G[<<f[n - 1], n>>] = Turn(f[n - 1], n)
    <3> TAKE n \in 1 .. RoundBound(files)
    <3>1. n - 1 \in 0 .. RoundBound(files)
      BY <1>1
    <3>2. <<f[n - 1], n>> \in (GoodStates(files, P)) \X (1 .. RoundBound(files))
      BY <2>2, <3>1 DEF LoopOf
    <3> QED BY <3>2
  <2>4. Loop(f)
    <3> HIDE DEF G
    <3>1. \A n \in 0 .. RoundBound(files) : n # 0 => n \in 1 .. RoundBound(files)
      BY <1>1
    <3>2. \A n \in 0 .. RoundBound(files) : f[n] = IF n = 0 THEN s ELSE Turn(f[n - 1], n)
      BY <2>2, <2>3, <3>1 DEF LoopOf
    <3>3. f = [n \in 0 .. RoundBound(files) |-> f[n]]
      BY <2>2 DEF LoopOf
    <3> QED BY <3>2, <3>3
  <2>5. Loop(loop)
    BY <2>4
  <2> HIDE DEF loop, G
  <2>6. \A n \in 0 .. RoundBound(files) : loop[n] = IF n = 0 THEN s ELSE Turn(loop[n - 1], n)
    BY ONLY <2>5
  <2>7. 0 \in 0 .. RoundBound(files) /\ \A n \in 1 .. RoundBound(files) : n \in 0 .. RoundBound(files) /\ n # 0
    BY <1>1
  <2>8. loop[0] = s /\ \A n \in 1 .. RoundBound(files) : loop[n - 1] \in GoodStates(files, P) => loop[n] \in GoodStates(files, P)
    BY ONLY <1>3, <2>6, <2>7
  <2>9. loop = [n \in 0 .. RoundBound(files) |-> loop[n]]
    BY ONLY <2>5
  <2>10. loop \in [0 .. RoundBound(files) -> GoodStates(files, P)]
    BY ONLY <1>1, <1>2, <2>8, <2>9, LoopTyped
  <2> QED BY <2>5, <2>10
<1>6. \A n \in 0 .. RoundBound(files) : loop[n] = IF n = 0 THEN s ELSE Turn(loop[n - 1], n)
  <2> HIDE DEF loop, Turn
  <2> QED BY ONLY <1>5
<1>7. 0 \in 0 .. RoundBound(files) /\ \A n \in 1 .. RoundBound(files) : n \in 0 .. RoundBound(files) /\ n # 0
  BY <1>1
<1>8. loop[0] = s /\ \A n \in 1 .. RoundBound(files) : loop[n] = Turn(loop[n - 1], n)
  <2> HIDE DEF loop, Turn
  <2> QED BY ONLY <1>6, <1>7
<1> HIDE DEF loop
<1> QED BY <1>4, <1>5, <1>8

\* The rounds end the search.
LEMMA RoundsEnd ==
    ASSUME NEW o, NEW files, FilesOK(files), NEW R, o.roots \in Seq(R),
           NEW P, DOMAIN files \subseteq P, NEW s \in SearchStates(P), SearchOK(files, s)
    PROVE  LET r == Rounds(o, files, s) IN
           /\ r \in SearchStates(P) /\ SearchOK(files, r) /\ Done(o, files, r)
           /\ \A x : Contains(s.out, x) => Contains(r.out, x)
<1> DEFINE N == RoundBound(files)
           r == Rounds(o, files, s)
           held(x) == {p \in DOMAIN files : Contains(x.out, p)}
<1>0. /\ N \in Nat /\ IsFiniteSet(DOMAIN files) /\ Cardinality(DOMAIN files) \in Nat
      /\ Cardinality(DOMAIN files) < N
  BY FS_CardinalityType DEF FilesOK, RoundBound
<1>1. PICK f \in [0 .. N -> GoodStates(files, P)] :
         /\ f[0] = s
         /\ \A n \in 1 .. N : f[n] = Round(o, files, f[n - 1])
         /\ r = f[N]
  BY RoundsSteps
<1> HIDE DEF N
<1>2. \A x : /\ IsFiniteSet(held(x)) /\ Cardinality(held(x)) \in Nat
             /\ Cardinality(held(x)) <= Cardinality(DOMAIN files)
  <2> TAKE x
  <2>1. held(x) \subseteq DOMAIN files
    OBVIOUS
  <2> HIDE DEF held
  <2> QED BY ONLY <1>0, <2>1, FS_Subset, FS_CardinalityType
<1> DEFINE Inv(x, k) ==
             /\ Done(o, files, x) \/ Cardinality(held(x)) >= k
             /\ \A y : Contains(s.out, y) => Contains(x.out, y)
           T == {k \in 0 .. N : Inv(f[k], k)}
<1>3. 0 \in T
  <2>1. Cardinality(held(s)) >= 0
    <3>1. Cardinality(held(s)) \in Nat
      BY <1>2
    <3> HIDE DEF held
    <3> QED BY ONLY <3>1
  <2> HIDE DEF held
  <2> QED BY <1>0, <1>1, <2>1
<1>4. ASSUME NEW k \in 1 .. N, k - 1 \in T PROVE k \in T
  <2> DEFINE x == f[k - 1]
             y == f[k]
  <2>1. x \in GoodStates(files, P) /\ y = Round(o, files, x)
    <3>1. k - 1 \in 0 .. N
      BY ONLY <1>0, k \in 1 .. N
    <3> QED BY ONLY <1>1, <3>1, k \in 1 .. N
  <2>2. Inv(x, k - 1)
    BY <1>4
  <2> HIDE DEF x, y
  <2>3. x \in SearchStates(P) /\ SearchOK(files, x)
    BY ONLY <2>1 DEF GoodStates
  <2>4. /\ \A z : Contains(x.out, z) => Contains(y.out, z)
        /\ Done(o, files, x) => y = x
        /\ \/ Done(o, files, y)
           \/ \E p \in DOMAIN files : Contains(y.out, p) /\ ~Contains(x.out, p)
    BY ONLY <2>1, <2>3, FilesOK(files), o.roots \in Seq(R), DOMAIN files \subseteq P, RoundIs
  <2>5. ASSUME ~Done(o, files, y) PROVE Cardinality(held(y)) >= k
    <3>1. ~Done(o, files, x)
      BY ONLY <2>4, <2>5
    <3>2. Cardinality(held(x)) >= k - 1
      BY ONLY <2>2, <3>1
    <3>3. held(x) \subseteq held(y) /\ held(x) # held(y)
      BY ONLY <2>4, <2>5
    <3>4. Cardinality(held(x)) < Cardinality(held(y))
      <4>1. IsFiniteSet(held(y)) /\ IsFiniteSet(held(x))
        BY <1>2
      <4>2. Cardinality(held(x)) \in Nat /\ Cardinality(held(y)) \in Nat
        BY <1>2
      <4> HIDE DEF held
      <4>3. /\ Cardinality(held(x)) <= Cardinality(held(y))
            /\ Cardinality(held(x)) = Cardinality(held(y)) => held(x) = held(y)
        BY ONLY <3>3, <4>1, FS_Subset
      <4> QED BY ONLY <3>3, <4>2, <4>3
    <3>5. Cardinality(held(x)) \in Nat /\ Cardinality(held(y)) \in Nat
      BY <1>2
    <3> HIDE DEF held
    <3> QED BY ONLY <1>0, <3>2, <3>4, <3>5, k \in 1 .. N
  <2>6. Inv(y, k)
    BY ONLY <2>2, <2>4, <2>5
  <2> QED BY <2>6 DEF y
<1>5. T \in SUBSET (0 .. N)
  OBVIOUS
<1>6. \A k \in 1 .. N : k - 1 \in T => k \in T
  BY <1>4
<1> HIDE DEF T
<1>7. T = 0 .. N
  BY ONLY <1>0, <1>3, <1>5, <1>6, UpTo
<1>8. N \in T
  BY ONLY <1>0, <1>7
<1>9. Inv(r, N)
  <2> HIDE DEF r, Inv
  <2> QED BY ONLY <1>1, <1>8 DEF T
<1>10. Done(o, files, r)
  <2>1. Cardinality(held(r)) \in Nat /\ Cardinality(held(r)) <= Cardinality(DOMAIN files)
    BY <1>2
  <2> HIDE DEF held, r
  <2> QED BY ONLY <1>0, <1>9, <2>1
<1>11. r \in SearchStates(P) /\ SearchOK(files, r)
  <2>1. r \in GoodStates(files, P)
    <3>1. N \in 0 .. N
      BY ONLY <1>0
    <3> QED BY ONLY <1>1, <3>1
  <2> QED BY <2>1 DEF GoodStates
<1> QED BY <1>9, <1>10, <1>11

\* What find_libraries answers: every import of a file it found is provided
\* by one of them, or there is no file for it under the search roots, or that
\* file is among them.
LEMMA FindIs ==
    ASSUME NEW o, NEW files, FilesOK(files), NEW R, o.roots \in Seq(R),
           NEW Q, o.libraries \in Seq(Q), NEW imports \in Seq(Modules)
    PROVE  LET r == find_libraries(o, files, imports) IN
           /\ r.out \in Seq(Q \cup DOMAIN files) /\ r.ok \in BOOLEAN
           /\ \A x : Contains(o.libraries, x) => Contains(r.out, x)
           /\ r.ok =>
              /\ \A p \in ToSet(r.out) : p \in DOMAIN files /\ files[p].kind = "antl"
              /\ \A p \in ToSet(r.out) : \A m \in ToSet(files[p].imports) :
                    \/ \E q \in ToSet(r.out) : files[q].module = m
                    \/ search_roots(o, files, m) = <<>>
                    \/ ToSet(search_roots(o, files, m)) \subseteq ToSet(r.out)
<1> DEFINE P == Q \cup DOMAIN files
           s == [out |-> o.libraries, modules |-> <<>>, wanted |-> imports,
                 read |-> 0, ok |-> TRUE]
           r == find_libraries(o, files, imports)
<1>1. o.libraries \in Seq(P)
  BY SeqMonotonic
<1>2. <<>> \in Seq(Modules) /\ Len(<<>>) = 0
  BY EmptySeq
<1>3. s \in SearchStates(P)
  <2> HIDE DEF P
  <2> QED BY <1>1, <1>2 DEF SearchStates
<1>4. SearchOK(files, s)
  BY <1>1, <1>2 DEF SearchOK
<1>5. r = Rounds(o, files, s)
  BY DEF find_libraries
<1>6. DOMAIN files \subseteq P
  OBVIOUS
<1>6a. s.out = o.libraries
  OBVIOUS
<1> HIDE DEF P, s, r
<1>7. /\ r \in SearchStates(P) /\ SearchOK(files, r) /\ Done(o, files, r)
      /\ \A x : Contains(s.out, x) => Contains(r.out, x)
  BY ONLY <1>3, <1>4, <1>5, <1>6, FilesOK(files), o.roots \in Seq(R), RoundsEnd
<1>8. r.out \in Seq(P) /\ r.modules \in Seq(Modules) /\ r.ok \in BOOLEAN
  BY ONLY <1>7 DEF SearchStates
<1>9. ASSUME r.ok PROVE
         /\ \A p \in ToSet(r.out) : p \in DOMAIN files /\ files[p].kind = "antl"
         /\ \A p \in ToSet(r.out) : \A m \in ToSet(files[p].imports) :
               \/ \E q \in ToSet(r.out) : files[q].module = m
               \/ search_roots(o, files, m) = <<>>
               \/ ToSet(search_roots(o, files, m)) \subseteq ToSet(r.out)
  <2>1. /\ r.read = Len(r.out)
        /\ \A m \in ToSet(r.wanted) : Answered(o, files, r.modules, r.out, m)
    BY ONLY <1>7, <1>9 DEF Done
  <2>2. DOMAIN r.out = 1 .. Len(r.out)
    BY ONLY <1>8, LenProperties
  <2>3. Len(r.modules) = Len(r.out) /\ \A i \in 1 .. Len(r.out) : HeaderRead(files, r, i)
    BY ONLY <1>7, <2>1 DEF SearchOK
  <2>4. \A p \in ToSet(r.out) : \E i \in 1 .. Len(r.out) : p = r.out[i]
    BY ONLY <2>2 DEF ToSet
  <2>5. \A i \in 1 .. Len(r.out) : r.out[i] \in ToSet(r.out)
    BY ONLY <2>2 DEF ToSet
  <2>6. \A i \in 1 .. Len(r.out) :
           /\ r.out[i] \in DOMAIN files /\ files[r.out[i]].kind = "antl"
           /\ r.modules[i] = files[r.out[i]].module
           /\ \A m \in ToSet(files[r.out[i]].imports) : m \in ToSet(r.wanted)
    BY ONLY <2>3 DEF HeaderRead
  <2>7. ASSUME NEW p \in ToSet(r.out), NEW m \in ToSet(files[p].imports)
        PROVE  \/ \E q \in ToSet(r.out) : files[q].module = m
               \/ search_roots(o, files, m) = <<>>
               \/ ToSet(search_roots(o, files, m)) \subseteq ToSet(r.out)
    <3>1. Answered(o, files, r.modules, r.out, m)
      BY ONLY <2>1, <2>4, <2>6, p \in ToSet(r.out), m \in ToSet(files[p].imports)
    <3>2. CASE Contains(r.modules, m)
      <4>1. PICK i \in 1 .. Len(r.out) : r.modules[i] = m
        BY ONLY <2>3, <3>2 DEF Contains
      <4> QED BY ONLY <2>5, <2>6, <4>1
    <3>3. CASE search_roots(o, files, m) = <<>>
      BY ONLY <3>3
    <3>4. CASE /\ search_roots(o, files, m) # <<>>
               /\ Contains(r.out, search_roots(o, files, m)[1])
      <4>1. PICK q \in DOMAIN files : search_roots(o, files, m) = <<q>>
        BY ONLY <3>4, o.roots \in Seq(R), RootsFind
      <4>2. PICK i \in 1 .. Len(r.out) : r.out[i] = search_roots(o, files, m)[1]
        BY ONLY <3>4 DEF Contains
      <4>3. q \in ToSet(r.out)
        BY ONLY <2>5, <4>1, <4>2
      <4>4. ToSet(<<q>>) = {q}
        BY ONLY DEF ToSet
      <4> QED BY ONLY <4>1, <4>3, <4>4
    <3> QED BY ONLY <3>1, <3>2, <3>3, <3>4 DEF Answered
  <2> QED BY ONLY <2>4, <2>6, <2>7
<1> QED BY ONLY <1>6a, <1>7, <1>8, <1>9 DEF r, P

-----------------------------------------------------------------------------
(* The order the library files are loaded in.                              *)

LoadStates(paths) ==
    [ok : BOOLEAN, why : {"", "damaged", "cycle", "missing", "clash"},
     order : Seq(1 .. Len(paths))]

\* Every file in the order once, with a body that can be read and with its
\* imports before it.
OrderOK(files, paths, order) ==
    /\ \A j, k \in DOMAIN order : order[j] = order[k] => j = k
    /\ \A k \in DOMAIN order :
          /\ files[paths[order[k]]].body
          /\ \A m \in ToSet(files[paths[order[k]]].imports) :
                \E n \in 1 .. k - 1 : files[paths[order[n]]].module = m

Damaged(files, paths) == \E i \in 1 .. Len(paths) : ~files[paths[i]].body

Stuck(files, paths) ==
    \E order \in Seq(1 .. Len(paths)) :
        /\ OrderOK(files, paths, order) /\ Len(order) < Len(paths)
        /\ \A i \in 1 .. Len(paths) : ~Ready(files, paths, order, i)

\* One file of one pass.
LEMMA LoadFileKeeps ==
    ASSUME NEW files, NEW P, NEW paths \in Seq(P), NEW i \in 1 .. Len(paths),
           NEW s \in LoadStates(paths), OrderOK(files, paths, s.order)
    PROVE  LET t == LoadFile(files, paths, i, s) IN
           /\ t \in LoadStates(paths) /\ OrderOK(files, paths, t.order)
           /\ ~s.ok => t = s
           /\ s.ok /\ ~t.ok => Damaged(files, paths)
           /\ t.ok /\ t.order = s.order => ~Ready(files, paths, s.order, i)
           /\ t.order = s.order \/ Len(t.order) = Len(s.order) + 1
           /\ t.ok => s.ok
<1> DEFINE t == LoadFile(files, paths, i, s)
           N == Len(paths)
<1>0. s.order \in Seq(1 .. N) /\ s.ok \in BOOLEAN /\ N \in Nat
  BY ONLY s \in LoadStates(paths), paths \in Seq(P), LenProperties DEF LoadStates
<1>1. CASE ~s.ok
  <2>1. t = s
    BY <1>1 DEF LoadFile
  <2> QED BY <1>1, <2>1
<1>2. CASE s.ok /\ ~Ready(files, paths, s.order, i)
  <2>1. t = s
    BY <1>2 DEF LoadFile
  <2> QED BY <1>2, <2>1
<1>3. CASE s.ok /\ Ready(files, paths, s.order, i) /\ ~files[paths[i]].body
  <2>1. t = [s EXCEPT !.ok = FALSE, !.why = "damaged"]
    BY <1>3 DEF LoadFile
  <2>2. t \in LoadStates(paths) /\ t.order = s.order /\ t.ok = FALSE
    BY ONLY <2>1, s \in LoadStates(paths) DEF LoadStates
  <2>3. Damaged(files, paths)
    BY <1>3 DEF Damaged
  <2> HIDE DEF t
  <2> QED BY ONLY <1>3, <2>2, <2>3, OrderOK(files, paths, s.order) DEF t
<1>4. CASE s.ok /\ Ready(files, paths, s.order, i) /\ files[paths[i]].body
  <2> DEFINE a == s.order
             b == Append(a, i)
  <2>1. t = [s EXCEPT !.order = b]
    BY <1>4 DEF LoadFile
  <2>2. a \in Seq(1 .. N) /\ i \in 1 .. N
    BY <1>0
  <2> HIDE DEF a
  <2>3. /\ b \in Seq(1 .. N) /\ Len(a) \in Nat /\ DOMAIN a = 1 .. Len(a)
        /\ DOMAIN b = 1 .. Len(a) + 1 /\ Len(b) = Len(a) + 1
        /\ b[Len(a) + 1] = i
        /\ \A j \in DOMAIN a : j \in DOMAIN b /\ b[j] = a[j]
        /\ \A j \in DOMAIN b : j = Len(a) + 1 \/ j \in DOMAIN a
    <3> HIDE DEF N
    <3> QED BY ONLY <2>2, AppendFacts
  <2> HIDE DEF b
  <2>4. /\ i \notin ToSet(a)
        /\ \A m \in ToSet(files[paths[i]].imports) :
              \E k \in ToSet(a) : files[paths[k]].module = m
    BY <1>4 DEF Ready, a
  <2>5. OrderOK(files, paths, a)
    BY DEF a
  <2>6. \A j \in DOMAIN a : b[j] # i
    BY ONLY <2>3, <2>4 DEF ToSet
  <2>7. \A j, k \in DOMAIN b : b[j] = b[k] => j = k
    BY ONLY <2>3, <2>5, <2>6 DEF OrderOK
  <2>8. ASSUME NEW k \in DOMAIN b
        PROVE  /\ files[paths[b[k]]].body
               /\ \A m \in ToSet(files[paths[b[k]]].imports) :
                    \E n \in 1 .. k - 1 : files[paths[b[n]]].module = m
    <3>1. CASE k = Len(a) + 1
      <4>1. b[k] = i /\ k - 1 = Len(a)
        BY ONLY <2>3, <3>1
      <4>2. ASSUME NEW m \in ToSet(files[paths[i]].imports)
            PROVE  \E n \in 1 .. k - 1 : files[paths[b[n]]].module = m
        <5>1. PICK j \in DOMAIN a : files[paths[a[j]]].module = m
          <6>1. \A k1 \in ToSet(a) : \E j \in DOMAIN a : k1 = a[j]
            BY ONLY DEF ToSet
          <6> QED BY ONLY <2>4, <6>1, m \in ToSet(files[paths[i]].imports)
        <5>2. j \in 1 .. k - 1 /\ b[j] = a[j]
          BY ONLY <2>3, <4>1, j \in DOMAIN a
        <5> QED BY ONLY <5>1, <5>2
      <4> QED BY <1>4, <4>1, <4>2
    <3>2. CASE k \in DOMAIN a
      <4>1. b[k] = a[k] /\ \A n \in 1 .. k - 1 : b[n] = a[n]
        BY ONLY <2>3, <3>2, SMTT(30)
      <4>2. /\ files[paths[a[k]]].body
            /\ \A m \in ToSet(files[paths[a[k]]].imports) :
                 \E n \in 1 .. k - 1 : files[paths[a[n]]].module = m
        BY ONLY <2>5, <3>2 DEF OrderOK
      <4> QED BY ONLY <4>1, <4>2
    <3> QED BY ONLY <2>3, <3>1, <3>2, k \in DOMAIN b
  <2>9. OrderOK(files, paths, b)
    BY ONLY <2>7, <2>8 DEF OrderOK
  <2>10. t \in LoadStates(paths) /\ t.order = b /\ t.ok = s.ok
    BY ONLY <2>1, <2>3, s \in LoadStates(paths) DEF LoadStates, N
  <2>11. a # b
    BY ONLY <2>3
  <2> HIDE DEF t
  <2> QED BY ONLY <1>4, <2>3, <2>9, <2>10, <2>11 DEF t, a
<1> QED BY <1>1, <1>2, <1>3, <1>4

LoadOK(files, paths) == {x \in LoadStates(paths) : OrderOK(files, paths, x.order)}

\* The turns of LoadPass.
LEMMA LoadPassSteps ==
    ASSUME NEW files, NEW P, NEW paths \in Seq(P), NEW s \in LoadOK(files, paths)
    PROVE  \E f \in [0 .. Len(paths) -> LoadOK(files, paths)] :
              /\ f[0] = s
              /\ \A n \in 1 .. Len(paths) : f[n] = LoadFile(files, paths, n, f[n - 1])
              /\ LoadPass(files, paths, s) = f[Len(paths)]
<1> DEFINE Turn(x, n) == LoadFile(files, paths, n, x)
           G == [z \in (LoadOK(files, paths)) \X (1 .. Len(paths)) |-> Turn(z[1], z[2])]
           Loop(f) == f = [n \in 0 .. Len(paths) |-> IF n = 0 THEN s ELSE Turn(f[n - 1], n)]
           loop == CHOOSE f : Loop(f)
<1>1. Len(paths) \in Nat
  OBVIOUS
<1>2. s \in LoadOK(files, paths)
  OBVIOUS
<1>3. \A x \in LoadOK(files, paths) : \A n \in 1 .. Len(paths) : Turn(x, n) \in LoadOK(files, paths)
  BY LoadFileKeeps DEF LoadOK
<1>4. LoadPass(files, paths, s) = loop[Len(paths)]
  BY DEF LoadPass
<1>5. Loop(loop) /\ loop \in [0 .. Len(paths) -> LoadOK(files, paths)]
  <2> HIDE DEF Turn
  <2>1. G \in [(LoadOK(files, paths)) \X (1 .. Len(paths)) -> LoadOK(files, paths)]
    BY <1>3
  <2>2. PICK f : LoopOf(f, LoadOK(files, paths), s, Len(paths), G)
    <3> HIDE DEF G
    <3> QED BY <1>1, <1>2, <2>1, LoopExists
  <2>3. \A n \in 1 .. Len(paths) : G[<<f[n - 1], n>>] = Turn(f[n - 1], n)
    <3> TAKE n \in 1 .. Len(paths)
    <3>1. n - 1 \in 0 .. Len(paths)
      BY <1>1
    <3>2. <<f[n - 1], n>> \in (LoadOK(files, paths)) \X (1 .. Len(paths))
      BY <2>2, <3>1 DEF LoopOf
    <3> QED BY <3>2
  <2>4. Loop(f)
    <3> HIDE DEF G
    <3>1. \A n \in 0 .. Len(paths) : n # 0 => n \in 1 .. Len(paths)
      BY <1>1
    <3>2. \A n \in 0 .. Len(paths) : f[n] = IF n = 0 THEN s ELSE Turn(f[n - 1], n)
      BY <2>2, <2>3, <3>1 DEF LoopOf
    <3>3. f = [n \in 0 .. Len(paths) |-> f[n]]
      BY <2>2 DEF LoopOf
    <3> QED BY <3>2, <3>3
  <2>5. Loop(loop)
    BY <2>4
  <2> HIDE DEF loop, G
  <2>6. \A n \in 0 .. Len(paths) : loop[n] = IF n = 0 THEN s ELSE Turn(loop[n - 1], n)
    BY ONLY <2>5
  <2>7. 0 \in 0 .. Len(paths) /\ \A n \in 1 .. Len(paths) : n \in 0 .. Len(paths) /\ n # 0
    BY <1>1
  <2>8. loop[0] = s /\ \A n \in 1 .. Len(paths) : loop[n - 1] \in LoadOK(files, paths) => loop[n] \in LoadOK(files, paths)
    BY ONLY <1>3, <2>6, <2>7
  <2>9. loop = [n \in 0 .. Len(paths) |-> loop[n]]
    BY ONLY <2>5
  <2>10. loop \in [0 .. Len(paths) -> LoadOK(files, paths)]
    BY ONLY <1>1, <1>2, <2>8, <2>9, LoopTyped
  <2> QED BY <2>5, <2>10
<1>6. \A n \in 0 .. Len(paths) : loop[n] = IF n = 0 THEN s ELSE Turn(loop[n - 1], n)
  <2> HIDE DEF loop, Turn
  <2> QED BY ONLY <1>5
<1>7. 0 \in 0 .. Len(paths) /\ \A n \in 1 .. Len(paths) : n \in 0 .. Len(paths) /\ n # 0
  BY <1>1
<1>8. loop[0] = s /\ \A n \in 1 .. Len(paths) : loop[n] = Turn(loop[n - 1], n)
  <2> HIDE DEF loop, Turn
  <2> QED BY ONLY <1>6, <1>7
<1> HIDE DEF loop
<1> QED BY <1>4, <1>5, <1>8

\* One pass loads a file, finds a damaged one or none that is ready.
LEMMA LoadPassIs ==
    ASSUME NEW files, NEW P, NEW paths \in Seq(P), NEW s \in LoadOK(files, paths), s.ok
    PROVE  LET t == LoadPass(files, paths, s) IN
           /\ t \in LoadOK(files, paths)
           /\ ~t.ok => Damaged(files, paths)
           /\ t.order = s.order \/ Len(t.order) > Len(s.order)
           /\ t.ok /\ t.order = s.order =>
                \A i \in 1 .. Len(paths) : ~Ready(files, paths, s.order, i)
<1> DEFINE N == Len(paths)
           t == LoadPass(files, paths, s)
<1>0. N \in Nat
  OBVIOUS
<1>1. PICK f \in [0 .. N -> LoadOK(files, paths)] :
         /\ f[0] = s
         /\ \A n \in 1 .. N : f[n] = LoadFile(files, paths, n, f[n - 1])
         /\ t = f[N]
  BY LoadPassSteps
<1> DEFINE Inv(x, k) ==
             /\ ~x.ok => Damaged(files, paths)
             /\ x.order = s.order \/ Len(x.order) > Len(s.order)
             /\ x.ok /\ x.order = s.order =>
                  \A i \in 1 .. k : ~Ready(files, paths, s.order, i)
           T == {k \in 0 .. N : Inv(f[k], k)}
<1>2. 0 \in T
  BY <1>0, <1>1
<1>3. ASSUME NEW k \in 1 .. N, k - 1 \in T PROVE k \in T
  <2> DEFINE x == f[k - 1]
             y == f[k]
  <2>1. x \in LoadOK(files, paths) /\ y = LoadFile(files, paths, k, x)
    <3> HIDE DEF N
    <3>1. k - 1 \in 0 .. N
      BY ONLY <1>0, k \in 1 .. N
    <3> QED BY ONLY <1>1, <3>1, k \in 1 .. N
  <2>2. Inv(x, k - 1)
    BY <1>3
  <2> HIDE DEF x, y
  <2>3. x \in LoadStates(paths) /\ OrderOK(files, paths, x.order)
    BY ONLY <2>1 DEF LoadOK
  <2>4. /\ y \in LoadStates(paths)
        /\ ~x.ok => y = x
        /\ x.ok /\ ~y.ok => Damaged(files, paths)
        /\ y.ok /\ y.order = x.order => ~Ready(files, paths, x.order, k)
        /\ y.order = x.order \/ Len(y.order) = Len(x.order) + 1
        /\ y.ok => x.ok
    BY ONLY <2>1, <2>3, paths \in Seq(P), k \in 1 .. N, LoadFileKeeps
  <2>5. Len(x.order) \in Nat /\ Len(s.order) \in Nat /\ Len(y.order) \in Nat
    <3>1. \A z \in LoadStates(paths) : Len(z.order) \in Nat
      BY ONLY LenProperties DEF LoadStates
    <3> QED BY ONLY <2>3, <2>4, <3>1, s \in LoadOK(files, paths) DEF LoadOK
  <2> HIDE DEF N
  <2>6. ~y.ok => Damaged(files, paths)
    BY ONLY <2>2, <2>4
  <2>7. y.order = s.order \/ Len(y.order) > Len(s.order)
    BY ONLY <2>2, <2>4, <2>5
  <2>8. ASSUME y.ok, y.order = s.order, NEW i \in 1 .. k
        PROVE  ~Ready(files, paths, s.order, i)
    <3>1. x.order = s.order
      BY ONLY <2>2, <2>4, <2>5, <2>8
    <3>2. i \in 1 .. k - 1 \/ i = k
      BY ONLY <1>0, i \in 1 .. k, k \in 1 .. N
    <3> QED BY ONLY <2>2, <2>4, <2>8, <3>1, <3>2
  <2>9. Inv(y, k)
    BY ONLY <2>6, <2>7, <2>8
  <2> QED BY <2>9 DEF y
<1>4. T \in SUBSET (0 .. N)
  OBVIOUS
<1>5. \A k \in 1 .. N : k - 1 \in T => k \in T
  BY <1>3
<1> HIDE DEF T
<1>6. T = 0 .. N
  BY ONLY <1>0, <1>2, <1>4, <1>5, UpTo
<1>7. N \in T /\ N \in 0 .. N
  BY ONLY <1>0, <1>6
<1>8. Inv(t, N)
  <2> HIDE DEF t, Inv
  <2> QED BY ONLY <1>1, <1>7 DEF T
<1>9. t \in LoadOK(files, paths)
  <2> HIDE DEF t
  <2> QED BY ONLY <1>1, <1>7
<1> QED BY <1>8, <1>9

\* A sequence of different numbers up to N has at most N elements; with N of
\* them it has them all.
LEMMA DistinctShort ==
    ASSUME NEW N \in Nat, NEW s \in Seq(1 .. N),
           \A j, k \in DOMAIN s : s[j] = s[k] => j = k
    PROVE  /\ Len(s) <= N
           /\ Len(s) = N => \A i \in 1 .. N : \E k \in DOMAIN s : s[k] = i
<1> DEFINE n == Len(s)
           A == 1 .. n
           B == 1 .. N
<1>1. n \in Nat /\ DOMAIN s = A /\ s \in [A -> B]
  BY LenProperties
<1>2. IsFiniteSet(A) /\ Cardinality(A) = n /\ IsFiniteSet(B) /\ Cardinality(B) = N
  <2>1. \A k \in Nat : IsFiniteSet(1 .. k) /\ Cardinality(1 .. k) = k
    <3> TAKE k \in Nat
    <3>1. 1 \in Int /\ k \in Int
      OBVIOUS
    <3>2. IsFiniteSet(1 .. k) /\ Cardinality(1 .. k) = IF 1 > k THEN 0 ELSE k - 1 + 1
      BY ONLY <3>1, FS_Interval
    <3> QED BY ONLY <3>2, k \in Nat
  <2> QED BY <1>1, <2>1
<1> HIDE DEF A, B, n
<1>3. s \in Injection(A, B)
  BY ONLY <1>1, \A j, k \in DOMAIN s : s[j] = s[k] => j = k DEF Injection, IsInjective
<1>4. n <= N
  <2>1. Cardinality(A) <= Cardinality(B)
    BY ONLY <1>2, <1>3, FS_Injection
  <2> QED BY ONLY <1>2, <2>1
<1>5. ASSUME n = N, NEW i \in B PROVE \E k \in A : s[k] = i
  <2>1. s \in Surjection(A, B)
    BY ONLY <1>2, <1>3, <1>5, FS_Injection DEF Injection, Surjection, Bijection
  <2> QED BY ONLY <2>1, i \in B DEF Surjection
<1> QED BY ONLY <1>1, <1>4, <1>5 DEF A, B, n

\* One turn of the loop: a pass that loads a file, or the end of the loop.
LEMMA LoadTurnIs ==
    ASSUME NEW files, NEW P, NEW paths \in Seq(P), NEW module, NEW s \in LoadOK(files, paths)
    PROVE  LET t == LoadTurn(files, paths, module, s) IN
           /\ t \in LoadOK(files, paths)
           /\ ~s.ok \/ Len(s.order) = Len(paths) => t = s
           /\ s.ok /\ ~t.ok => Damaged(files, paths) \/ Stuck(files, paths)
           /\ t.ok /\ Len(s.order) # Len(paths) => Len(t.order) > Len(s.order)
<1> DEFINE t == LoadTurn(files, paths, module, s)
           n == LoadPass(files, paths, s)
<1>1. CASE ~s.ok \/ Len(s.order) = Len(paths)
  <2>1. t = s
    BY <1>1 DEF LoadTurn
  <2> QED BY <1>1, <2>1 DEF LoadTurn
<1>2. CASE s.ok /\ Len(s.order) # Len(paths)
  <2>1. /\ n \in LoadOK(files, paths)
        /\ ~n.ok => Damaged(files, paths)
        /\ n.order = s.order \/ Len(n.order) > Len(s.order)
        /\ n.ok /\ n.order = s.order =>
             \A i \in 1 .. Len(paths) : ~Ready(files, paths, s.order, i)
    BY <1>2, LoadPassIs
  <2>2. t = IF n.ok /\ n.order = s.order THEN Blocked(files, paths, module, s) ELSE n
    BY <1>2 DEF LoadTurn
  <2>3. CASE ~(n.ok /\ n.order = s.order)
    <3>1. t = n
      BY ONLY <2>2, <2>3
    <3> HIDE DEF t, n
    <3> QED BY ONLY <1>2, <2>1, <2>3, <3>1 DEF t
  <2>4. CASE n.ok /\ n.order = s.order
    <3> DEFINE t1 == Blocked(files, paths, module, s)
    <3>1. \E w \in {"cycle", "missing"} : t1 = [s EXCEPT !.ok = FALSE, !.why = w]
      BY DEF Blocked
    <3>2. t = t1
      BY ONLY <2>2, <2>4
    <3> HIDE DEF t, t1, n
    <3>3. s \in LoadStates(paths) /\ OrderOK(files, paths, s.order)
      BY ONLY s \in LoadOK(files, paths) DEF LoadOK
    <3>4. t \in LoadStates(paths) /\ t.order = s.order /\ t.ok = FALSE
      BY ONLY <3>1, <3>2, <3>3 DEF LoadStates
    <3>5. t \in LoadOK(files, paths)
      BY ONLY <3>3, <3>4 DEF LoadOK
    <3>6. Len(s.order) < Len(paths)
      <4> DEFINE N == Len(paths)
      <4>1. s.order \in Seq(1 .. N) /\ N \in Nat
        BY ONLY <3>3, paths \in Seq(P), LenProperties DEF LoadStates
      <4>2. \A j, k \in DOMAIN s.order : s.order[j] = s.order[k] => j = k
        BY ONLY <3>3 DEF OrderOK
      <4> HIDE DEF N
      <4>3. Len(s.order) <= N
        BY ONLY <4>1, <4>2, DistinctShort
      <4>4. Len(s.order) \in Nat
        BY ONLY <4>1, LenProperties
      <4> QED BY ONLY <1>2, <4>1, <4>3, <4>4 DEF N
    <3>7. Stuck(files, paths)
      <4>1. s.order \in Seq(1 .. Len(paths))
        BY ONLY <3>3 DEF LoadStates
      <4> QED BY ONLY <2>1, <2>4, <3>3, <3>6, <4>1 DEF Stuck
    <3> QED BY ONLY <1>2, <3>4, <3>5, <3>7 DEF t
  <2> QED BY ONLY <2>3, <2>4
<1> QED BY <1>1, <1>2

\* The turns of LoadFrom.
LEMMA LoadFromSteps ==
    ASSUME NEW files, NEW P, NEW paths \in Seq(P), NEW module, NEW s \in LoadOK(files, paths)
    PROVE  \E f \in [0 .. Len(paths) -> LoadOK(files, paths)] :
              /\ f[0] = s
              /\ \A n \in 1 .. Len(paths) : f[n] = LoadTurn(files, paths, module, f[n - 1])
              /\ LoadFrom(files, paths, module, s) = f[Len(paths)]
<1> DEFINE Turn(x, n) == LoadTurn(files, paths, module, x)
           G == [z \in (LoadOK(files, paths)) \X (1 .. Len(paths)) |-> Turn(z[1], z[2])]
           Loop(f) == f = [n \in 0 .. Len(paths) |-> IF n = 0 THEN s ELSE Turn(f[n - 1], n)]
           loop == CHOOSE f : Loop(f)
<1>1. Len(paths) \in Nat
  OBVIOUS
<1>2. s \in LoadOK(files, paths)
  OBVIOUS
<1>3. \A x \in LoadOK(files, paths) : \A n \in 1 .. Len(paths) : Turn(x, n) \in LoadOK(files, paths)
  BY LoadTurnIs
<1>4. LoadFrom(files, paths, module, s) = loop[Len(paths)]
  BY DEF LoadFrom
<1>5. Loop(loop) /\ loop \in [0 .. Len(paths) -> LoadOK(files, paths)]
  <2> HIDE DEF Turn
  <2>1. G \in [(LoadOK(files, paths)) \X (1 .. Len(paths)) -> LoadOK(files, paths)]
    BY <1>3
  <2>2. PICK f : LoopOf(f, LoadOK(files, paths), s, Len(paths), G)
    <3> HIDE DEF G
    <3> QED BY <1>1, <1>2, <2>1, LoopExists
  <2>3. \A n \in 1 .. Len(paths) : G[<<f[n - 1], n>>] = Turn(f[n - 1], n)
    <3> TAKE n \in 1 .. Len(paths)
    <3>1. n - 1 \in 0 .. Len(paths)
      BY <1>1
    <3>2. <<f[n - 1], n>> \in (LoadOK(files, paths)) \X (1 .. Len(paths))
      BY <2>2, <3>1 DEF LoopOf
    <3> QED BY <3>2
  <2>4. Loop(f)
    <3> HIDE DEF G
    <3>1. \A n \in 0 .. Len(paths) : n # 0 => n \in 1 .. Len(paths)
      BY <1>1
    <3>2. \A n \in 0 .. Len(paths) : f[n] = IF n = 0 THEN s ELSE Turn(f[n - 1], n)
      BY <2>2, <2>3, <3>1 DEF LoopOf
    <3>3. f = [n \in 0 .. Len(paths) |-> f[n]]
      BY <2>2 DEF LoopOf
    <3> QED BY <3>2, <3>3
  <2>5. Loop(loop)
    BY <2>4
  <2> HIDE DEF loop, G
  <2>6. \A n \in 0 .. Len(paths) : loop[n] = IF n = 0 THEN s ELSE Turn(loop[n - 1], n)
    BY ONLY <2>5
  <2>7. 0 \in 0 .. Len(paths) /\ \A n \in 1 .. Len(paths) : n \in 0 .. Len(paths) /\ n # 0
    BY <1>1
  <2>8. loop[0] = s /\ \A n \in 1 .. Len(paths) : loop[n - 1] \in LoadOK(files, paths) => loop[n] \in LoadOK(files, paths)
    BY ONLY <1>3, <2>6, <2>7
  <2>9. loop = [n \in 0 .. Len(paths) |-> loop[n]]
    BY ONLY <2>5
  <2>10. loop \in [0 .. Len(paths) -> LoadOK(files, paths)]
    BY ONLY <1>1, <1>2, <2>8, <2>9, LoopTyped
  <2> QED BY <2>5, <2>10
<1>6. \A n \in 0 .. Len(paths) : loop[n] = IF n = 0 THEN s ELSE Turn(loop[n - 1], n)
  <2> HIDE DEF loop, Turn
  <2> QED BY ONLY <1>5
<1>7. 0 \in 0 .. Len(paths) /\ \A n \in 1 .. Len(paths) : n \in 0 .. Len(paths) /\ n # 0
  BY <1>1
<1>8. loop[0] = s /\ \A n \in 1 .. Len(paths) : loop[n] = Turn(loop[n - 1], n)
  <2> HIDE DEF loop, Turn
  <2> QED BY ONLY <1>6, <1>7
<1> HIDE DEF loop
<1> QED BY <1>4, <1>5, <1>8

\* The loop loads every file, or one is damaged or the files stuck.
LEMMA LoadFromIs ==
    ASSUME NEW files, NEW P, NEW paths \in Seq(P), NEW module,
           NEW s \in LoadOK(files, paths), s.ok
    PROVE  LET t == LoadFrom(files, paths, module, s) IN
           /\ t \in LoadOK(files, paths)
           /\ t.ok => Len(t.order) = Len(paths)
           /\ ~t.ok => Damaged(files, paths) \/ Stuck(files, paths)
<1>1. PICK f \in [0 .. Len(paths) -> LoadOK(files, paths)] :
         /\ f[0] = s
         /\ \A n \in 1 .. Len(paths) : f[n] = LoadTurn(files, paths, module, f[n - 1])
         /\ LoadFrom(files, paths, module, s) = f[Len(paths)]
  <2>1. PICK u : u = LoadFrom(files, paths, module, s)
    OBVIOUS
  <2>2. \E f \in [0 .. Len(paths) -> LoadOK(files, paths)] :
           /\ f[0] = s
           /\ \A n \in 1 .. Len(paths) : f[n] = LoadTurn(files, paths, module, f[n - 1])
           /\ u = f[Len(paths)]
    BY ONLY <2>1, paths \in Seq(P), s \in LoadOK(files, paths), LoadFromSteps
  <2> QED BY <2>1, <2>2
<1> DEFINE N == Len(paths)
           t == LoadFrom(files, paths, module, s)
<1>0. N \in Nat
  OBVIOUS
<1>11. f \in [0 .. N -> LoadOK(files, paths)] /\ t = f[N]
  BY <1>1
<1>12. \A n \in 1 .. N : f[n] = LoadTurn(files, paths, module, f[n - 1])
  BY <1>1
<1>9. \A x \in LoadOK(files, paths) : Len(x.order) \in Nat /\ Len(x.order) <= N
  <2> TAKE x \in LoadOK(files, paths)
  <2>1. x \in LoadStates(paths) /\ OrderOK(files, paths, x.order)
    BY ONLY x \in LoadOK(files, paths) DEF LoadOK
  <2>2. x.order \in Seq(1 .. N)
    BY ONLY <2>1 DEF LoadStates
  <2>3. \A j, k \in DOMAIN x.order : x.order[j] = x.order[k] => j = k
    BY ONLY <2>1 DEF OrderOK
  <2> HIDE DEF N
  <2> QED BY ONLY <1>0, <2>2, <2>3, DistinctShort, LenProperties
<1> DEFINE Inv(x, k) ==
             /\ x.ok => Len(x.order) >= k
             /\ ~x.ok => Damaged(files, paths) \/ Stuck(files, paths)
           T == {k \in 0 .. N : Inv(f[k], k)}
<1>2. 0 \in T
  <2>1. Len(s.order) \in Nat
    BY <1>9
  <2> QED BY <1>0, <1>1, <2>1
<1>3. ASSUME NEW k \in 1 .. N, k - 1 \in T PROVE k \in T
  <2> DEFINE x == f[k - 1]
             y == f[k]
  <2>1. x \in LoadOK(files, paths) /\ y = LoadTurn(files, paths, module, x)
    <3> HIDE DEF N
    <3>1. k - 1 \in 0 .. N
      BY ONLY <1>0, k \in 1 .. N
    <3> QED BY ONLY <1>11, <1>12, <3>1, k \in 1 .. N
  <2>2. Inv(x, k - 1)
    BY <1>3
  <2> HIDE DEF x, y
  <2>3. /\ y \in LoadOK(files, paths)
        /\ ~x.ok \/ Len(x.order) = Len(paths) => y = x
        /\ x.ok /\ ~y.ok => Damaged(files, paths) \/ Stuck(files, paths)
        /\ y.ok /\ Len(x.order) # Len(paths) => Len(y.order) > Len(x.order)
    BY ONLY <2>1, paths \in Seq(P), LoadTurnIs
  <2>4. Len(x.order) \in Nat /\ Len(y.order) \in Nat
    BY ONLY <1>9, <2>1, <2>3
  <2>5. ASSUME y.ok PROVE Len(y.order) >= k
    <3>1. CASE Len(x.order) = N
      <4>1. y = x
        BY ONLY <2>3, <3>1
      <4> HIDE DEF N
      <4> QED BY ONLY <1>0, <3>1, <4>1, k \in 1 .. N
    <3>2. CASE Len(x.order) # N
      <4>1. Len(y.order) > Len(x.order)
        BY ONLY <2>3, <2>5, <3>2
      <4>2. x.ok
        BY ONLY <2>3, <2>5
      <4>3. Len(x.order) >= k - 1
        BY ONLY <2>2, <4>2
      <4> HIDE DEF N
      <4> QED BY ONLY <1>0, <2>4, <4>1, <4>3, k \in 1 .. N
    <3> QED BY ONLY <3>1, <3>2
  <2>6. ASSUME ~y.ok PROVE Damaged(files, paths) \/ Stuck(files, paths)
    BY ONLY <2>2, <2>3, <2>6
  <2>7. Inv(y, k)
    BY ONLY <2>5, <2>6
  <2> QED BY <2>7 DEF y
<1>4. T \in SUBSET (0 .. N)
  OBVIOUS
<1>5. \A k \in 1 .. N : k - 1 \in T => k \in T
  BY <1>3
<1> HIDE DEF T
<1>6. T = 0 .. N
  BY ONLY <1>0, <1>2, <1>4, <1>5, UpTo
<1>7. N \in T /\ N \in 0 .. N
  BY ONLY <1>0, <1>6
<1>8. Inv(t, N)
  <2> HIDE DEF t, Inv
  <2> QED BY ONLY <1>11, <1>7 DEF T
<1>10. t \in LoadOK(files, paths)
  <2> HIDE DEF t
  <2> QED BY ONLY <1>11, <1>7
<1>13. t.ok => Len(t.order) = N
  <2>1. Len(t.order) \in Nat /\ Len(t.order) <= N
    BY ONLY <1>9, <1>10
  <2> HIDE DEF t, N
  <2> QED BY ONLY <1>0, <1>8, <2>1
<1> QED BY <1>8, <1>10, <1>13

-----------------------------------------------------------------------------
(* Which sets of files can be loaded.                                      *)

\* The file p imports the module of the file q.
NeedsIn(files, p, q) == files[q].module \in ToSet(files[p].imports)

\* What is in every set that holds S and the provider of every import.
ReachIn(files, paths, S) ==
    {p \in paths : \A C \in SUBSET paths :
        /\ S \subseteq C
        /\ \A q \in C, r \in paths : NeedsIn(files, q, r) => r \in C
        => p \in C}

\* The needs of a file.
NeedsOf(files, paths, p) == {q \in paths : NeedsIn(files, p, q)}

\* Where every file of a set needs another one of it, one needs itself.
LEMMA Circle ==
    ASSUME NEW files, NEW S, IsFiniteSet(S), NEW V \in SUBSET S, V # {},
           \A p \in V : \E q \in V : NeedsIn(files, p, q)
    PROVE  \E p \in V : p \in ReachIn(files, S, NeedsOf(files, S, p))
<1> DEFINE R(p) == ReachIn(files, S, NeedsOf(files, S, p))
           W == {Cardinality(R(p)) : p \in V}
<1>1. \A p \in V : R(p) \in SUBSET S
  BY DEF ReachIn
<1>2. \A p \in V : IsFiniteSet(R(p)) /\ Cardinality(R(p)) \in Nat
  <2> HIDE DEF R
  <2> QED BY <1>1, FS_Subset, FS_CardinalityType
<1>3. PICK p \in V : \A x \in V : Cardinality(R(p)) <= Cardinality(R(x))
  <2> HIDE DEF R
  <2>1. W \in SUBSET Nat /\ W # {}
    BY <1>2
  <2>2. PICK w \in W : \A k \in W : w <= k
    BY ONLY <2>1, LeastNat
  <2> QED BY <2>2
<1>4. PICK q \in V : NeedsIn(files, p, q)
  OBVIOUS
<1>5. q \in R(p)
  BY <1>4 DEF ReachIn, NeedsOf
<1>6. R(q) \in SUBSET R(p)
  <2> SUFFICES ASSUME NEW x \in R(q), NEW C \in SUBSET S, NeedsOf(files, S, p) \subseteq C,
                      \A y \in C, r \in S : NeedsIn(files, y, r) => r \in C
               PROVE  x \in C
    BY DEF ReachIn
  <2>1. q \in C
    BY <1>4 DEF NeedsOf
  <2>2. NeedsOf(files, S, q) \subseteq C
    BY <2>1 DEF NeedsOf
  <2> QED BY <2>2 DEF ReachIn
<1>7. Cardinality(R(q)) <= Cardinality(R(p)) /\ (Cardinality(R(p)) = Cardinality(R(q)) => R(p) = R(q))
  <2> HIDE DEF R
  <2> QED BY ONLY <1>2, <1>6, FS_Subset, p \in V
<1>8. R(p) = R(q)
  <2> HIDE DEF R
  <2> QED BY ONLY <1>2, <1>3, <1>7, p \in V, q \in V
<1>9. q \in R(q)
  <2> HIDE DEF R
  <2> QED BY ONLY <1>5, <1>8
<1> QED BY <1>9

\* The files of a sequence are finitely many.
LEMMA ToSetFinite ==
    ASSUME NEW P, NEW s \in Seq(P)
    PROVE  IsFiniteSet(ToSet(s)) /\ ToSet(s) = {s[i] : i \in 1 .. Len(s)}
<1> DEFINE A == 1 .. Len(s)
           B == ToSet(s)
           f == [i \in A |-> s[i]]
<1>1. Len(s) \in Nat /\ DOMAIN s = A
  BY LenProperties
<1>2. B = {s[i] : i \in A}
  BY <1>1 DEF ToSet
<1>3. IsFiniteSet(A)
  BY ONLY <1>1, FS_Interval, Len(s) \in Nat, 1 \in Int, \A k \in Nat : k \in Int
<1>4. f \in Surjection(A, B)
  <2> HIDE DEF A, B
  <2> QED BY ONLY <1>2 DEF Surjection
<1>5. IsFiniteSet(B)
  <2> HIDE DEF A, B, f
  <2> QED BY ONLY <1>3, <1>4, FS_Surjection
<1> QED BY <1>2, <1>5

\* A sequence that has every number up to N is not shorter.
LEMMA CoversLong ==
    ASSUME NEW N \in Nat, NEW s \in Seq(1 .. N), \A i \in 1 .. N : \E k \in DOMAIN s : s[k] = i
    PROVE  N <= Len(s)
<1> DEFINE M == Len(s)
           g == [i \in 1 .. N |-> CHOOSE k \in DOMAIN s : s[k] = i]
<1>1. M \in Nat /\ DOMAIN s = 1 .. M
  BY LenProperties
<1>2. \A i \in 1 .. N : g[i] \in 1 .. M /\ s[g[i]] = i
  BY <1>1
<1>3. g \in [1 .. N -> 1 .. M]
  BY <1>2
<1>4. g \in Seq(1 .. M) /\ Len(g) = N /\ DOMAIN g = 1 .. N
  <2> HIDE DEF g
  <2> QED BY <1>3
<1>5. \A j, k \in DOMAIN g : g[j] = g[k] => j = k
  <2> HIDE DEF g
  <2> QED BY ONLY <1>2, <1>4
<1> HIDE DEF g, M
<1>6. Len(g) <= M
  BY ONLY <1>1, <1>4, <1>5, DistinctShort
<1> QED BY <1>4, <1>6 DEF M

\* Files that stuck have a cycle.
LEMMA StuckIsCircle ==
    ASSUME NEW files, NEW P, NEW paths \in Seq(P), Stuck(files, paths),
           \A p \in ToSet(paths) : \A m \in ToSet(files[p].imports) :
                \E q \in ToSet(paths) : files[q].module = m
    PROVE  \E p \in ToSet(paths) : p \in ReachIn(files, ToSet(paths), NeedsOf(files, ToSet(paths), p))
<1> DEFINE N == Len(paths)
           S == ToSet(paths)
<1>1. N \in Nat /\ IsFiniteSet(S) /\ S = {paths[i] : i \in 1 .. N}
  BY ToSetFinite, LenProperties
<1>2. PICK order \in Seq(1 .. N) :
         /\ Len(order) < N
         /\ \A i \in 1 .. N : ~Ready(files, paths, order, i)
  BY DEF Stuck
<1> DEFINE U == {i \in 1 .. N : i \notin ToSet(order)}
           V == {paths[i] : i \in U}
<1> HIDE DEF N, S
<1>3. U # {}
  <2> SUFFICES ASSUME \A i \in 1 .. N : i \in ToSet(order) PROVE FALSE
    OBVIOUS
  <2>1. \A i \in 1 .. N : \E k \in DOMAIN order : order[k] = i
    BY DEF ToSet
  <2>2. N <= Len(order) /\ Len(order) \in Nat
    BY ONLY <1>1, <2>1, order \in Seq(1 .. N), CoversLong, LenProperties
  <2> QED BY ONLY <1>1, <1>2, <2>2
<1>4. V \in SUBSET S /\ V # {}
  BY <1>1, <1>3
<1>5. \A p \in V : \E q \in V : NeedsIn(files, p, q)
  <2> TAKE p \in V
  <2>1. PICK i \in U : p = paths[i]
    OBVIOUS
  <2>2. PICK m \in ToSet(files[p].imports) : \A k \in ToSet(order) : files[paths[k]].module # m
    BY <1>2, <2>1 DEF Ready
  <2>3. PICK q \in S : files[q].module = m
    BY <1>4 DEF S
  <2>4. PICK j \in 1 .. N : q = paths[j]
    BY <1>1
  <2>5. j \in U
    BY <2>2, <2>3, <2>4
  <2> QED BY <2>2, <2>3, <2>4, <2>5 DEF NeedsIn
<1> HIDE DEF V
<1>6. \E p \in V : p \in ReachIn(files, S, NeedsOf(files, S, p))
  BY ONLY <1>1, <1>4, <1>5, Circle
<1> QED BY <1>4, <1>6 DEF S

\* No two files of one module.
Distinct(files, paths) ==
    \A i, j \in DOMAIN paths : files[paths[i]].module = files[paths[j]].module => i = j

\* What load_libraries asks of every file: it can be read, another file
\* provides each import, and it does not need itself.
Sound(files, S, p) ==
    /\ files[p].body
    /\ \A m \in ToSet(files[p].imports) : \E q \in S : files[q].module = m
    /\ p \notin ReachIn(files, S, NeedsOf(files, S, p))

\* Files in an order, each after those it imports, are in no cycle.
LEMMA OrderedIsSound ==
    ASSUME NEW files, NEW P, NEW paths \in Seq(P), Distinct(files, paths),
           NEW order \in Seq(1 .. Len(paths)), OrderOK(files, paths, order),
           Len(order) = Len(paths)
    PROVE  \A p \in ToSet(paths) : Sound(files, ToSet(paths), p)
<1> DEFINE N == Len(paths)
           S == ToSet(paths)
           at(k) == paths[order[k]]
<1>1. N \in Nat /\ S = {paths[i] : i \in 1 .. N} /\ DOMAIN paths = 1 .. N /\ DOMAIN order = 1 .. N
  BY ToSetFinite, LenProperties
<1>2. \A j, k \in DOMAIN order : order[j] = order[k] => j = k
  BY DEF OrderOK
<1>3. \A i \in 1 .. N : \E k \in DOMAIN order : order[k] = i
  BY ONLY <1>2, Len(order) = Len(paths), order \in Seq(1 .. Len(paths)), N \in Nat, <1>1, DistinctShort
<1>4. \A k \in 1 .. N : order[k] \in 1 .. N
  BY <1>1
<1> HIDE DEF N, S
<1>5. \A k \in 1 .. N : at(k) \in S
  BY ONLY <1>1, <1>4
<1>6. \A j, k \in 1 .. N : files[at(j)].module = files[at(k)].module => j = k
  <2> TAKE j, k \in 1 .. N
  <2> HAVE files[at(j)].module = files[at(k)].module
  <2>1. order[j] = order[k]
    BY <1>1, <1>4 DEF Distinct
  <2> QED BY ONLY <1>1, <1>2, <2>1, j \in 1 .. N, k \in 1 .. N
<1>7. \A k \in 1 .. N :
         /\ files[at(k)].body
         /\ \A m \in ToSet(files[at(k)].imports) :
               \E n \in 1 .. k - 1 : files[at(n)].module = m
  BY <1>1 DEF OrderOK
<1>8. \A k \in 1 .. N : \A n \in 1 .. k - 1 : n \in 1 .. N /\ n < k /\ \A l \in 1 .. n - 1 : l \in 1 .. k - 1
  BY <1>1
<1>9. \A q \in S : \E k \in 1 .. N : q = at(k)
  <2> TAKE q \in S
  <2>1. PICK i \in 1 .. N : q = paths[i]
    BY <1>1
  <2>2. PICK k \in DOMAIN order : order[k] = i
    BY <1>3
  <2> QED BY <1>1, <2>1, <2>2
<1> HIDE DEF at
<1>10. ASSUME NEW k \in 1 .. N PROVE Sound(files, S, at(k))
  <2> DEFINE C == {at(n) : n \in 1 .. k - 1}
  <2>1. ASSUME NEW j \in 1 .. N, NEW q \in S, NeedsIn(files, at(j), q)
        PROVE  \E n \in 1 .. j - 1 : q = at(n)
    <3>1. PICK n \in 1 .. j - 1 : files[at(n)].module = files[q].module
      BY <1>7, <2>1 DEF NeedsIn
    <3>2. PICK l \in 1 .. N : q = at(l)
      BY <1>9
    <3>3. n = l
      BY <1>6, <1>8, <3>1, <3>2
    <3> QED BY <3>2, <3>3
  <2>2. C \in SUBSET S
    BY <1>5, <1>8
  <2>3. NeedsOf(files, S, at(k)) \subseteq C
    BY <2>1 DEF NeedsOf
  <2>4. \A q \in C, r \in S : NeedsIn(files, q, r) => r \in C
    <3> TAKE q \in C, r \in S
    <3> HAVE NeedsIn(files, q, r)
    <3>1. PICK j \in 1 .. k - 1 : q = at(j)
      OBVIOUS
    <3>2. PICK n \in 1 .. j - 1 : r = at(n)
      BY <1>8, <2>1, <3>1
    <3> QED BY <1>8, <3>1, <3>2
  <2>5. at(k) \notin C
    <3> SUFFICES ASSUME NEW n \in 1 .. k - 1, at(k) = at(n) PROVE FALSE
      OBVIOUS
    <3>1. n = k
      BY <1>6, <1>8
    <3> QED BY <1>1, <1>8, <3>1
  <2>6. at(k) \notin ReachIn(files, S, NeedsOf(files, S, at(k)))
    <3> HIDE DEF C
    <3> QED BY ONLY <2>2, <2>3, <2>4, <2>5 DEF ReachIn
  <2>7. \A m \in ToSet(files[at(k)].imports) : \E q \in S : files[q].module = m
    BY <1>5, <1>7, <1>8
  <2> QED BY <1>7, <2>6, <2>7 DEF Sound
<1> QED BY <1>9, <1>10 DEF S

\* load_libraries: it accepts exactly the files without two of one module,
\* without the compiled module, and each of them sound; and then it loads
\* every file once and after those it imports.
LEMMA LoadIs ==
    ASSUME NEW files, NEW P, NEW paths \in Seq(P), NEW module
    PROVE  LET r == load_libraries(files, paths, module) IN
           /\ r.ok \in BOOLEAN
           /\ r.ok <=> /\ Distinct(files, paths)
                       /\ \A p \in ToSet(paths) :
                            files[p].module # module /\ Sound(files, ToSet(paths), p)
           /\ r.order \in Seq(1 .. Len(paths))
           /\ r.ok => /\ Len(r.order) = Len(paths) /\ OrderOK(files, paths, r.order)
                      /\ \A i \in 1 .. Len(paths) : \E k \in DOMAIN r.order : r.order[k] = i
<1> DEFINE N == Len(paths)
           S == ToSet(paths)
           r == load_libraries(files, paths, module)
           s == [ok |-> TRUE, why |-> "", order |-> <<>>]
           m(i) == files[paths[i]].module
           clash == \E i \in DOMAIN paths :
                       \/ m(i) = module
                       \/ \E j \in 1 .. (i - 1) : m(i) = m(j)
           fits == /\ Distinct(files, paths)
                   /\ \A p \in S : files[p].module # module /\ Sound(files, S, p)
<1>1. N \in Nat /\ S = {paths[i] : i \in 1 .. N} /\ DOMAIN paths = 1 .. N
  BY ToSetFinite, LenProperties
<1>2. CASE clash
  <2>1. r = [ok |-> FALSE, why |-> "clash", order |-> <<>>]
    BY <1>2 DEF load_libraries
  <2>2. ~fits
    <3> SUFFICES ASSUME fits PROVE FALSE
      OBVIOUS
    <3>1. PICK i \in 1 .. N : m(i) = module \/ \E j \in 1 .. (i - 1) : m(i) = m(j)
      BY <1>1, <1>2
    <3>2. m(i) # module
      BY <1>1
    <3>3. PICK j \in 1 .. (i - 1) : m(i) = m(j)
      BY <3>1, <3>2
    <3>4. j \in 1 .. N /\ i # j
      BY <1>1
    <3> QED BY <1>1, <3>3, <3>4 DEF Distinct
  <2>3. <<>> \in Seq(1 .. N)
    BY EmptySeq
  <2> QED BY <2>1, <2>2, <2>3
<1>3. CASE ~clash
  <2> DEFINE t == LoadFrom(files, paths, module, s)
  <2>1. r = t
    BY <1>3 DEF load_libraries
  <2>2. Distinct(files, paths) /\ \A p \in S : files[p].module # module
    <3>1. \A i \in 1 .. N : m(i) # module /\ \A j \in 1 .. (i - 1) : m(i) # m(j)
      BY <1>1, <1>3
    <3>2. ASSUME NEW i \in 1 .. N, NEW j \in 1 .. N, m(i) = m(j) PROVE i = j
      <4>1. CASE j < i
        <5>1. j \in 1 .. (i - 1)
          BY <1>1, <4>1
        <5> QED BY <3>1, <3>2, <5>1
      <4>2. CASE i < j
        <5>1. i \in 1 .. (j - 1)
          BY <1>1, <4>2
        <5> QED BY <3>1, <3>2, <5>1
      <4> QED BY <1>1, <4>1, <4>2
    <3> QED BY <1>1, <3>1, <3>2 DEF Distinct
  <2>3. s \in LoadOK(files, paths) /\ s.ok
    <3>1. <<>> \in Seq(1 .. Len(paths)) /\ DOMAIN <<>> = {}
      BY EmptySeq
    <3>2. s \in LoadStates(paths)
      BY <3>1 DEF LoadStates
    <3>3. OrderOK(files, paths, s.order)
      BY <3>1 DEF OrderOK
    <3> QED BY <3>2, <3>3 DEF LoadOK
  <2> HIDE DEF s, t, r, clash, N, S
  <2>4. /\ t \in LoadOK(files, paths)
        /\ t.ok => Len(t.order) = Len(paths)
        /\ ~t.ok => Damaged(files, paths) \/ Stuck(files, paths)
    BY ONLY <2>3, paths \in Seq(P), LoadFromIs DEF t
  <2>5. t.order \in Seq(1 .. Len(paths)) /\ OrderOK(files, paths, t.order) /\ t.ok \in BOOLEAN
    BY ONLY <2>4 DEF LoadOK, LoadStates
  <2>6. ASSUME t.ok
        PROVE  /\ fits
               /\ \A i \in 1 .. Len(paths) : \E k \in DOMAIN t.order : t.order[k] = i
    <3>1. Len(t.order) = Len(paths)
      BY <2>4, <2>6
    <3>2. \A p \in S : Sound(files, S, p)
      BY ONLY <2>2, <2>5, <3>1, paths \in Seq(P), OrderedIsSound DEF S
    <3>3. \A j, k \in DOMAIN t.order : t.order[j] = t.order[k] => j = k
      BY <2>5 DEF OrderOK
    <3>4. \A i \in 1 .. Len(paths) : \E k \in DOMAIN t.order : t.order[k] = i
      BY ONLY <1>1, <2>5, <3>1, <3>3, DistinctShort DEF N
    <3> QED BY <2>2, <3>2, <3>4
  <2>7. ASSUME ~t.ok PROVE ~fits
    <3>1. CASE Damaged(files, paths)
      <4>1. PICK i \in 1 .. Len(paths) : ~files[paths[i]].body
        BY <3>1 DEF Damaged
      <4>2. paths[i] \in S
        BY <1>1 DEF N
      <4> QED BY <4>1, <4>2 DEF Sound
    <3>2. CASE Stuck(files, paths)
      <4> SUFFICES ASSUME fits PROVE FALSE
        OBVIOUS
      <4>1. \A p \in ToSet(paths) : \A x \in ToSet(files[p].imports) :
                \E q \in ToSet(paths) : files[q].module = x
        BY DEF Sound, S
      <4>2. \E p \in ToSet(paths) : p \in ReachIn(files, ToSet(paths), NeedsOf(files, ToSet(paths), p))
        BY ONLY <3>2, <4>1, paths \in Seq(P), StuckIsCircle
      <4> QED BY <4>2 DEF Sound, S
    <3> QED BY <2>4, <2>7, <3>1, <3>2
  <2>8. /\ t.ok \in BOOLEAN
        /\ t.ok <=> fits
    BY <2>5, <2>6, <2>7
  <2> QED BY ONLY <2>1, <2>4, <2>5, <2>6, <2>8 DEF r, S, N
<1> QED BY <1>2, <1>3

-----------------------------------------------------------------------------
(* The notice of a linked binary.                                          *)

\* The turns of build_notice.
LEMMA NoticeSteps ==
    ASSUME NEW X, NEW runtime \in X, NEW own \in X, NEW packages \in Seq(X)
    PROVE  \E f \in [0 .. Len(packages) -> Seq(X)] :
              /\ f[0] = <<runtime>>
              /\ \A n \in 1 .. Len(packages) : f[n] = AddPackage(f[n - 1], packages[n])
              /\ build_notice(runtime, own, packages) = Append(f[Len(packages)], own)
<1> DEFINE Turn(x, n) == AddPackage(x, packages[n])
           G == [z \in (Seq(X)) \X (1 .. Len(packages)) |-> Turn(z[1], z[2])]
           Loop(f) == f = [n \in 0 .. Len(packages) |-> IF n = 0 THEN <<runtime>> ELSE Turn(f[n - 1], n)]
           loop == CHOOSE f : Loop(f)
<1>1. Len(packages) \in Nat
  OBVIOUS
<1>2. <<runtime>> \in Seq(X)
  OBVIOUS
<1>3. \A x \in Seq(X) : \A n \in 1 .. Len(packages) : Turn(x, n) \in Seq(X)
  <2> TAKE x \in Seq(X)
  <2> TAKE n \in 1 .. Len(packages)
  <2>1. packages[n] \in X
    OBVIOUS
  <2>2. Append(x, packages[n]) \in Seq(X)
    BY ONLY <2>1, AppendFacts
  <2> QED BY <2>2 DEF AddPackage
<1>4. build_notice(runtime, own, packages) = Append(loop[Len(packages)], own)
  BY DEF build_notice
<1>5. Loop(loop) /\ loop \in [0 .. Len(packages) -> Seq(X)]
  <2> HIDE DEF Turn
  <2>1. G \in [(Seq(X)) \X (1 .. Len(packages)) -> Seq(X)]
    BY <1>3
  <2>2. PICK f : LoopOf(f, Seq(X), <<runtime>>, Len(packages), G)
    <3> HIDE DEF G
    <3> QED BY <1>1, <1>2, <2>1, LoopExists
  <2>3. \A n \in 1 .. Len(packages) : G[<<f[n - 1], n>>] = Turn(f[n - 1], n)
    <3> TAKE n \in 1 .. Len(packages)
    <3>1. n - 1 \in 0 .. Len(packages)
      BY <1>1
    <3>2. <<f[n - 1], n>> \in (Seq(X)) \X (1 .. Len(packages))
      BY <2>2, <3>1 DEF LoopOf
    <3> QED BY <3>2
  <2>4. Loop(f)
    <3> HIDE DEF G
    <3>1. \A n \in 0 .. Len(packages) : n # 0 => n \in 1 .. Len(packages)
      BY <1>1
    <3>2. \A n \in 0 .. Len(packages) : f[n] = IF n = 0 THEN <<runtime>> ELSE Turn(f[n - 1], n)
      BY <2>2, <2>3, <3>1 DEF LoopOf
    <3>3. f = [n \in 0 .. Len(packages) |-> f[n]]
      BY <2>2 DEF LoopOf
    <3> QED BY <3>2, <3>3
  <2>5. Loop(loop)
    BY <2>4
  <2> HIDE DEF loop, G
  <2>6. \A n \in 0 .. Len(packages) : loop[n] = IF n = 0 THEN <<runtime>> ELSE Turn(loop[n - 1], n)
    BY ONLY <2>5
  <2>7. 0 \in 0 .. Len(packages) /\ \A n \in 1 .. Len(packages) : n \in 0 .. Len(packages) /\ n # 0
    BY <1>1
  <2>8. loop[0] = <<runtime>> /\ \A n \in 1 .. Len(packages) : loop[n - 1] \in Seq(X) => loop[n] \in Seq(X)
    BY ONLY <1>3, <2>6, <2>7
  <2>9. loop = [n \in 0 .. Len(packages) |-> loop[n]]
    BY ONLY <2>5
  <2>10. loop \in [0 .. Len(packages) -> Seq(X)]
    BY ONLY <1>1, <1>2, <2>8, <2>9, LoopTyped
  <2> QED BY <2>5, <2>10
<1>6. \A n \in 0 .. Len(packages) : loop[n] = IF n = 0 THEN <<runtime>> ELSE Turn(loop[n - 1], n)
  <2> HIDE DEF loop, Turn
  <2> QED BY ONLY <1>5
<1>7. 0 \in 0 .. Len(packages) /\ \A n \in 1 .. Len(packages) : n \in 0 .. Len(packages) /\ n # 0
  BY <1>1
<1>8. loop[0] = <<runtime>> /\ \A n \in 1 .. Len(packages) : loop[n] = Turn(loop[n - 1], n)
  <2> HIDE DEF loop, Turn
  <2> QED BY ONLY <1>6, <1>7
<1> HIDE DEF loop
<1> QED BY <1>4, <1>5, <1>8

NamesApart(g) == \A i, j \in 1 .. Len(g) : g[i].name = g[j].name => i = j

NamesHeld(g, p) == \E i \in 1 .. Len(g) : g[i].name = p.name

\* The list has the runtime and every package of a library, each name once,
\* and the compiled module's own package at its end.
LEMMA NoticeListIs ==
    ASSUME NEW X, NEW runtime \in X, NEW own \in X, NEW packages \in Seq(X)
    PROVE  \E g \in Seq(X) :
              /\ build_notice(runtime, own, packages) = Append(g, own)
              /\ NamesApart(g) /\ NamesHeld(g, runtime)
              /\ \A k \in 1 .. Len(packages) : NamesHeld(g, packages[k])
<1>1. PICK f \in [0 .. Len(packages) -> Seq(X)] :
         /\ f[0] = <<runtime>>
         /\ \A n \in 1 .. Len(packages) : f[n] = AddPackage(f[n - 1], packages[n])
         /\ build_notice(runtime, own, packages) = Append(f[Len(packages)], own)
  <2>1. PICK u : u = build_notice(runtime, own, packages)
    OBVIOUS
  <2>2. \E f \in [0 .. Len(packages) -> Seq(X)] :
           /\ f[0] = <<runtime>>
           /\ \A n \in 1 .. Len(packages) : f[n] = AddPackage(f[n - 1], packages[n])
           /\ u = Append(f[Len(packages)], own)
    BY ONLY <2>1, runtime \in X, own \in X, packages \in Seq(X), NoticeSteps
  <2> QED BY <2>1, <2>2
<1> DEFINE N == Len(packages)
           Inv(g, k) == /\ NamesApart(g) /\ NamesHeld(g, runtime)
                        /\ \A j \in 1 .. k : NamesHeld(g, packages[j])
           T == {k \in 0 .. N : Inv(f[k], k)}
<1>2. N \in Nat /\ 0 \in 0 .. N /\ \A k \in 1 .. N : k - 1 \in 0 .. N /\ k \in 0 .. N
  OBVIOUS
<1>3. 0 \in T
  <2>1. Len(<<runtime>>) = 1 /\ <<runtime>>[1] = runtime
    OBVIOUS
  <2>2. Inv(<<runtime>>, 0)
    BY <2>1 DEF NamesApart, NamesHeld
  <2> QED BY <1>1, <1>2, <2>2
<1>4. ASSUME NEW k \in 1 .. N, k - 1 \in T PROVE k \in T
  <2> DEFINE g == f[k - 1]
             h == f[k]
             p == packages[k]
  <2>1. g \in Seq(X) /\ h = AddPackage(g, p) /\ p \in X
    <3>1. f \in [0 .. N -> Seq(X)] /\ \A n \in 1 .. N : f[n] = AddPackage(f[n - 1], packages[n])
      BY <1>1
    <3>2. packages[k] \in X
      OBVIOUS
    <3> HIDE DEF N
    <3> QED BY ONLY <1>2, <3>1, <3>2, k \in 1 .. N
  <2>2. Inv(g, k - 1)
    BY <1>4
  <2>9. \A j \in 1 .. k : j = k \/ j \in 1 .. k - 1
    BY <1>2
  <2> HIDE DEF g, h, N
  <2>3. CASE \E j \in DOMAIN g : g[j].name = p.name
    <3>1. h = g
      BY <2>1, <2>3 DEF AddPackage
    <3>2. NamesHeld(g, p)
      BY <2>1, <2>3, LenProperties DEF NamesHeld
    <3>3. Inv(h, k)
      BY <2>2, <2>9, <3>1, <3>2
    <3> QED BY <1>2, <3>3 DEF h
  <2>4. CASE ~\E j \in DOMAIN g : g[j].name = p.name
    <3>1. h = Append(g, p)
      BY <2>1, <2>4 DEF AddPackage
    <3>2. /\ Len(h) = Len(g) + 1 /\ h[Len(g) + 1] = p /\ Len(g) \in Nat /\ DOMAIN g = 1 .. Len(g)
          /\ \A j \in 1 .. Len(g) : h[j] = g[j]
      BY <2>1, <3>1, AppendFacts
    <3>3. /\ Len(g) + 1 \in 1 .. Len(h)
          /\ \A j \in 1 .. Len(h) : j = Len(g) + 1 \/ j \in 1 .. Len(g)
          /\ \A j \in 1 .. Len(g) : j \in 1 .. Len(h)
      BY ONLY <3>2
    <3>4. NamesApart(h)
      <4>1. \A j \in 1 .. Len(g) : g[j].name # p.name
        BY ONLY <2>4, <3>2
      <4>2. \A i, j \in 1 .. Len(g) : g[i].name = g[j].name => i = j
        BY ONLY <2>2 DEF NamesApart
      <4> QED BY ONLY <3>2, <3>3, <4>1, <4>2 DEF NamesApart
    <3>5. NamesHeld(h, p) /\ \A q : NamesHeld(g, q) => NamesHeld(h, q)
      BY ONLY <3>2, <3>3 DEF NamesHeld
    <3>6. Inv(h, k)
      BY <2>2, <2>9, <3>4, <3>5
    <3> QED BY <1>2, <3>6 DEF h
  <2> QED BY <2>3, <2>4
<1>5. T \in SUBSET (0 .. N)
  OBVIOUS
<1>6. \A k \in 1 .. N : k - 1 \in T => k \in T
  BY <1>4
<1>7. T = 0 .. N
  <2> HIDE DEF T, N
  <2> QED BY ONLY <1>2, <1>3, <1>5, <1>6, UpTo
<1>8. N \in T
  BY <1>2, <1>7
<1>9. Inv(f[N], N)
  <2> HIDE DEF Inv
  <2> QED BY <1>8
<1>10. f[N] \in Seq(X)
  BY <1>1, <1>2
<1> QED BY <1>1, <1>9, <1>10

\* a has the packages of S once each, and names their names.
Picks(list, S, names, a) ==
    /\ a \in Seq(S)
    /\ \A i \in S : \E k \in DOMAIN a : a[k] = i
    /\ \A j, k \in DOMAIN a : a[j] = a[k] => j = k
    /\ DOMAIN names = DOMAIN a
    /\ \A k \in DOMAIN a : names[k] = list[a[k]].name
    /\ Len(names) = Len(a) /\ DOMAIN a = 1 .. Len(a)

\* The names of a set of packages.
LEMMA NamesIs ==
    ASSUME NEW X, NEW list \in Seq(X), NEW S \in SUBSET (1 .. Len(list))
    PROVE  \E a : Picks(list, S, Names(list, S), a)
<1> DEFINE a == InOrder(S, Len(list))
<1>1. Len(list) \in Nat
  OBVIOUS
<1>2. /\ a \in Seq(S) /\ \A i \in S : \E k \in DOMAIN a : a[k] = i
      /\ \A j, k \in DOMAIN a : a[j] = a[k] => j = k
  BY <1>1, InOrderIs
<1>3. Names(list, S) = [k \in DOMAIN a |-> list[a[k]].name]
  BY DEF Names
<1> HIDE DEF a
<1>4. Len(a) \in Nat /\ DOMAIN a = 1 .. Len(a)
  BY ONLY <1>2, LenProperties
<1>5. Len(Names(list, S)) = Len(a)
  BY ONLY <1>3, <1>4
<1> QED BY <1>2, <1>3, <1>4, <1>5 DEF Picks

\* The first package of a name, and the first of a text.
LEMMA FirstOf ==
    ASSUME NEW n \in Nat, NEW S \in SUBSET (1 .. n), S # {}
    PROVE  \E i \in S : \A j \in 1 .. (i - 1) : j \notin S
<1>1. S \in SUBSET Nat
  OBVIOUS
<1>2. PICK i \in S : \A k \in S : i <= k
  BY ONLY <1>1, S # {}, LeastNat
<1> QED BY <1>2

\* The notice n names the package p once; it has the text of p with its name.
NamedOnce(n, p) == Cardinality({k \in DOMAIN n.packages : n.packages[k] = p.name}) = 1

TextShown(n, p) == \E t \in ToSet(n.texts) : t.text = p.text /\ Contains(t.names, p.name)

\* The notice names every package of the list once, and prints each text of
\* the first package of a name with that name.
LEMMA NoticeTextIs ==
    ASSUME NEW X, NEW g \in Seq(X), NEW own \in X, NamesApart(g),
           NEW list, list = Append(g, own), NEW i \in 1 .. Len(list)
    PROVE  /\ NamedOnce(notice_text(list), list[i])
           /\ list[i].text # "" /\ ~repeated(list, i) => TextShown(notice_text(list), list[i])
<1> DEFINE N == Len(list)
           n == notice_text(list)
<1>1. /\ list \in Seq(X) /\ Len(g) \in Nat /\ N = Len(g) + 1 /\ DOMAIN list = 1 .. N
      /\ \A j \in 1 .. Len(g) : list[j] = g[j]
  BY AppendFacts
<1>2. N \in Nat /\ \A j \in 1 .. N : j = N \/ j \in 1 .. Len(g)
  BY <1>1
<1>3. /\ Named(list) \in SUBSET (1 .. N) /\ Printed(list) \in SUBSET (1 .. N)
      /\ \A j : TextFor(list, j) \in SUBSET (1 .. N)
  BY <1>1 DEF Named, Printed, TextFor
<1>4. ASSUME NEW j \in 1 .. N, j # N PROVE j \in Named(list)
  <2>1. j \in 1 .. Len(g) /\ \A k \in 1 .. (j - 1) : k \in 1 .. Len(g) /\ k # j
    BY <1>1, <1>2, <1>4
  <2>2. \A k \in 1 .. (j - 1) : list[k].name # list[j].name
    BY <1>1, <2>1 DEF NamesApart
  <2> QED BY <1>1, <2>2 DEF Named, repeated
<1> HIDE DEF N, n
<1>5. Cardinality({k \in DOMAIN n.packages : n.packages[k] = list[i].name}) = 1
  <2>1. n.packages = Names(list, Named(list))
    BY DEF n, notice_text
  <2>2. PICK a \in Seq(Named(list)) :
           /\ \A j \in Named(list) : \E k \in DOMAIN a : a[k] = j
           /\ \A j, k \in DOMAIN a : a[j] = a[k] => j = k
           /\ DOMAIN Names(list, Named(list)) = DOMAIN a
           /\ \A k \in DOMAIN a : Names(list, Named(list))[k] = list[a[k]].name
    <3> DEFINE S == Named(list)
    <3>1. list \in Seq(X) /\ S \in SUBSET (1 .. Len(list))
      BY <1>1, <1>3 DEF N
    <3> HIDE DEF S
    <3>2. PICK a : Picks(list, S, Names(list, S), a)
      BY ONLY <3>1, NamesIs
    <3> QED BY <3>2 DEF Picks, S
  <2> DEFINE M == {j \in 1 .. N : list[j].name = list[i].name}
  <2>3. PICK j \in M : \A k \in 1 .. (j - 1) : k \notin M
    <3>1. i \in M /\ M \in SUBSET (1 .. N)
      BY DEF N
    <3> HIDE DEF M
    <3> QED BY ONLY <1>2, <3>1, FirstOf
  <2>4. \A k \in 1 .. (j - 1) : k \in 1 .. N
    BY <1>2
  <2>5. j \in Named(list) /\ list[j].name = list[i].name
    BY <1>1, <2>3, <2>4 DEF Named, repeated
  <2>6. \A k \in Named(list) : list[k].name = list[i].name => k = j
    <3> TAKE k \in Named(list)
    <3> HAVE list[k].name = list[i].name
    <3>1. k \in 1 .. N /\ k \in M /\ j \in 1 .. N
      BY <1>3
    <3>2. ~repeated(list, k) /\ ~repeated(list, j)
      BY <2>5 DEF Named
    <3>3. ~(j \in 1 .. (k - 1)) /\ ~(k \in 1 .. (j - 1))
      BY <2>5, <3>2 DEF repeated
    <3> QED BY ONLY <1>2, <3>1, <3>3
  <2>7. PICK k \in DOMAIN a : a[k] = j
    BY <2>2, <2>5
  <2>8. \A l \in DOMAIN a : a[l] \in Named(list)
    BY ONLY a \in Seq(Named(list)), LenProperties, ElementOfSeq
  <2>9. {l \in DOMAIN n.packages : n.packages[l] = list[i].name} = {k}
    <3>1. DOMAIN n.packages = DOMAIN a /\ \A l \in DOMAIN a : n.packages[l] = list[a[l]].name
      BY ONLY <2>1, <2>2
    <3>2. \A l \in DOMAIN a : list[a[l]].name = list[i].name => l = k
      BY ONLY <2>2, <2>6, <2>7, <2>8
    <3> QED BY ONLY <2>5, <2>7, <3>1, <3>2
  <2> QED BY ONLY <2>9, FS_Singleton
<1>6. ASSUME list[i].text # "", ~repeated(list, i)
      PROVE  \E t \in ToSet(n.texts) :
                t.text = list[i].text /\ Contains(t.names, list[i].name)
  <2> DEFINE M == {j \in 1 .. N : list[j].text = list[i].text}
  <2>1. PICK j \in M : \A k \in 1 .. (j - 1) : k \notin M
    <3>1. i \in M /\ M \in SUBSET (1 .. N)
      BY DEF N
    <3> HIDE DEF M
    <3> QED BY ONLY <1>2, <3>1, FirstOf
  <2>2. j <= i /\ i \in Named(list) /\ i \in 1 .. N
    <3>1. i \in 1 .. N /\ i \in M
      BY DEF N
    <3>2. ~(i \in 1 .. (j - 1))
      BY <2>1, <3>1
    <3>3. i \in Named(list)
      BY <1>1, <1>6, <3>1 DEF Named
    <3> QED BY ONLY <1>2, <2>1, <3>1, <3>2, <3>3
  <2>3. j \in Named(list)
    <3>1. CASE j = N
      <4>1. j = i
        BY <1>2, <2>2, <3>1
      <4> QED BY <2>2, <4>1
    <3>2. CASE j # N
      BY <1>4, <3>2
    <3> QED BY <3>1, <3>2
  <2>4. j \in Printed(list) /\ list[j].text = list[i].text
    <3>1. \A k \in 1 .. (j - 1) : k \in 1 .. N
      BY <1>2
    <3>2. \A k \in 1 .. (j - 1) : list[k].text # list[j].text
      BY <2>1, <3>1
    <3> QED BY <1>6, <2>3, <3>2 DEF Printed
  <2>5. i \in TextFor(list, j)
    BY <2>2, <2>4 DEF TextFor
  <2> DEFINE a == InOrder(Printed(list), Len(list))
             text(l) == [text |-> list[l].text, names |-> Names(list, TextFor(list, l))]
  <2>6. n.texts = [k \in DOMAIN a |-> text(a[k])]
    BY DEF n, notice_text
  <2>7. PICK k \in DOMAIN a : a[k] = j
    <3>1. Len(list) \in Nat /\ Printed(list) \in SUBSET (1 .. Len(list))
      BY <1>2, <1>3 DEF N
    <3> DEFINE S == Printed(list)
               c == InOrder(S, Len(list))
    <3>2. j \in S /\ Len(list) \in Nat /\ S \in SUBSET (1 .. Len(list))
      BY <2>4, <3>1
    <3> HIDE DEF S
    <3>3. \A i1 \in S : \E k \in DOMAIN c : c[k] = i1
      BY ONLY <3>2, InOrderIs
    <3> QED BY <3>2, <3>3 DEF S
  <2>8. text(j) \in ToSet(n.texts)
    <3> HIDE DEF a, text
    <3> QED BY <2>6, <2>7 DEF ToSet
  <2>9. Contains(text(j).names, list[i].name)
    <3>1. PICK b \in Seq(TextFor(list, j)) :
             /\ \A l \in TextFor(list, j) : \E m \in DOMAIN b : b[m] = l
             /\ \A m \in DOMAIN b : Names(list, TextFor(list, j))[m] = list[b[m]].name
             /\ Len(Names(list, TextFor(list, j))) = Len(b) /\ DOMAIN b = 1 .. Len(b)
      <4> DEFINE S == TextFor(list, j)
      <4>1. list \in Seq(X) /\ S \in SUBSET (1 .. Len(list))
        BY <1>1, <1>3 DEF N
      <4> HIDE DEF S
      <4>2. PICK b : Picks(list, S, Names(list, S), b)
        BY ONLY <4>1, NamesIs
      <4> QED BY <4>2 DEF Picks, S
    <3>2. PICK m \in DOMAIN b : b[m] = i
      BY <2>5, <3>1
    <3> DEFINE names == Names(list, TextFor(list, j))
    <3>3. names[m] = list[i].name /\ m \in 1 .. Len(names)
      BY <3>1, <3>2
    <3>4. text(j).names = names
      OBVIOUS
    <3> HIDE DEF names, text
    <3> QED BY ONLY <3>3, <3>4 DEF Contains
  <2>10. text(j).text = list[i].text
    BY <2>4
  <2> QED BY <2>8, <2>9, <2>10
<1> QED BY <1>5, <1>6 DEF n, NamedOnce, TextShown

\* The notice names every package once, and prints the text of every package
\* whose name stands for one text.
LEMMA NoticeIs ==
    ASSUME NEW X, NEW runtime \in X, NEW own \in X, NEW packages \in Seq(X),
           NEW A, A = {runtime, own} \cup ToSet(packages), NEW p \in A
    PROVE  LET n == notice_text(build_notice(runtime, own, packages)) IN
           /\ NamedOnce(n, p)
           /\ p.text # "" /\ (\A q \in A : q.name = p.name => q.text = p.text)
                 => TextShown(n, p)
<1>1. packages \in Seq(A) /\ runtime \in A /\ own \in A
  <2>1. packages \in Seq(ToSet(packages))
    <3>1. DOMAIN packages = 1 .. Len(packages) /\ Len(packages) \in Nat
      BY LenProperties
    <3> DEFINE Y == ToSet(packages)
    <3>2. packages \in [1 .. Len(packages) -> Y]
      BY <3>1 DEF ToSet
    <3> HIDE DEF Y
    <3>3. packages \in Seq(Y)
      BY ONLY <3>1, <3>2
    <3> QED BY <3>3 DEF Y
  <2> DEFINE Y == ToSet(packages)
  <2>2. Y \subseteq A /\ packages \in Seq(Y)
    BY <2>1
  <2> HIDE DEF Y
  <2>3. packages \in Seq(A)
    BY ONLY <2>2
  <2> QED BY <2>3
<1>2. PICK list : list = build_notice(runtime, own, packages)
  OBVIOUS
<1>3. PICK g \in Seq(A) :
         /\ list = Append(g, own)
         /\ NamesApart(g) /\ NamesHeld(g, runtime)
         /\ \A k \in 1 .. Len(packages) : NamesHeld(g, packages[k])
  <2>1. \E g \in Seq(A) :
         /\ build_notice(runtime, own, packages) = Append(g, own)
         /\ NamesApart(g) /\ NamesHeld(g, runtime)
         /\ \A k \in 1 .. Len(packages) : NamesHeld(g, packages[k])
    BY ONLY <1>1, NoticeListIs
  <2> QED BY ONLY <1>2, <2>1
<1> DEFINE N == Len(list)
           M == {i \in 1 .. N : list[i].name = p.name}
<1>4. /\ list \in Seq(A) /\ N \in Nat /\ N = Len(g) + 1 /\ Len(g) \in Nat
      /\ list[N] = own /\ \A j \in 1 .. Len(g) : list[j] = g[j]
      /\ \A i \in 1 .. N : list[i] \in A
  <2>1. /\ list \in Seq(A) /\ N = Len(g) + 1 /\ Len(g) \in Nat /\ list[Len(g) + 1] = own
        /\ \A j \in 1 .. Len(g) : list[j] = g[j]
    <3>1. DOMAIN g = 1 .. Len(g)
      BY ONLY <1>3, LenProperties
    <3> QED BY ONLY <1>1, <1>3, <3>1, AppendFacts
  <2> QED BY ONLY <2>1, ElementOfSeq
<1>5. M # {}
  <2>1. ASSUME NamesHeld(g, p) PROVE M # {}
    <3>1. PICK i \in 1 .. Len(g) : g[i].name = p.name
      BY <2>1 DEF NamesHeld
    <3>2. i \in 1 .. N /\ list[i].name = p.name
      BY <1>4, <3>1
    <3> QED BY <3>2
  <2>2. CASE p = own
    <3>1. N \in 1 .. N
      BY <1>4
    <3> QED BY <1>4, <2>2, <3>1
  <2>3. CASE p = runtime
    BY <1>3, <2>1, <2>3
  <2>4. CASE p \in ToSet(packages)
    <3>1. PICK k \in 1 .. Len(packages) : p = packages[k]
      BY <2>4, LenProperties DEF ToSet
    <3> QED BY <1>3, <2>1, <3>1
  <2> QED BY <2>2, <2>3, <2>4
<1>6. PICK i \in M : \A j \in 1 .. (i - 1) : j \notin M
  <2>1. M \in SUBSET (1 .. N) /\ N \in Nat
    BY <1>4
  <2> HIDE DEF M, N
  <2> QED BY ONLY <1>5, <2>1, FirstOf
<1>7. i \in 1 .. Len(list) /\ list[i].name = p.name /\ list[i] \in A
  BY <1>4, <1>6
<1>8. ~repeated(list, i)
  <2>1. \A j \in 1 .. (i - 1) : j \in 1 .. N
    BY <1>4, <1>7
  <2> QED BY <1>6, <1>7, <2>1 DEF repeated
<1>9. /\ NamedOnce(notice_text(list), list[i])
      /\ list[i].text # "" => TextShown(notice_text(list), list[i])
  <2>1. /\ g \in Seq(A) /\ own \in A /\ NamesApart(g) /\ list = Append(g, own)
        /\ i \in 1 .. Len(list)
    BY <1>1, <1>3, <1>7
  <2> HIDE DEF M, N
  <2> QED BY ONLY <1>8, <2>1, NoticeTextIs
<1>10. (\A q \in A : q.name = p.name => q.text = p.text) => list[i].text = p.text
  BY <1>7
<1> QED BY <1>2, <1>7, <1>9, <1>10 DEF NamedOnce, TextShown
=============================================================================
