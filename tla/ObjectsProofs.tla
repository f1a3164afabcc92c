--------------------------- MODULE ObjectsProofs ---------------------------
(***************************************************************************)
(* Ownership of memory under dup, destroy and delete, for any classes that *)
(* are Flat, any number of blocks and any depth of destruct bodies.        *)
(***************************************************************************)
EXTENDS Objects, FiniteSetTheorems, TLAPS

\* An own field of a live object that is not null.
Holds(p, f) ==
    /\ live(p) /\ table[p] # None
    /\ f \in chain_fields(table[p]) \cap owned
    /\ ptr[p][f] # None

TypeInv ==
    /\ made \subseteq Addresses
    /\ frees \in [Addresses -> Nat]
    /\ table \in [Addresses -> Classes \cup {None}]
    /\ extent \in [Addresses -> Classes \cup {None}]
    /\ bytes \in [Addresses -> Nat]
    /\ ptr \in [Addresses -> [Fields -> Addresses \cup {None}]]
    /\ len \in [Addresses -> [Fields -> Nat]]
    /\ held \subseteq Addresses
    /\ stack \in Seq(Frame)

\* A block that malloc has not given is untouched.
FreshOK ==
    \A a \in Addresses \ made :
        /\ frees[a] = 0 /\ table[a] = None /\ extent[a] = None
        /\ \A f \in Fields : ptr[a][f] = None

\* A live block without an object is not empty.
RawOK == \A a \in Addresses : live(a) /\ table[a] = None => bytes[a] > 0

\* What the program holds and what is being destroyed live and are whole.
NamedOK ==
    /\ \A a \in Named : live(a) /\ extent[a] = table[a]
    /\ \A a \in Torn : table[a] # None
    /\ held \cap Torn = {}
    /\ \A i, k \in DOMAIN stack : stack[i].object = stack[k].object => i = k

\* What an own field refers to lives, is whole, has the class of the field and
\* is neither held nor being destroyed.
RefOK ==
    \A p \in Addresses, f \in Fields : Holds(p, f) =>
        /\ live(ptr[p][f]) /\ ptr[p][f] \notin Named
        /\ Fits(f, ptr[p][f]) /\ extent[ptr[p][f]] = table[ptr[p][f]]
        /\ kind[f] = "slice" => len[p][f] > 0 /\ len[p][f] <= bytes[ptr[p][f]]

\* No two own fields refer to one block.
UniqueOK ==
    \A p, q \in Addresses, f, g \in Fields :
        Holds(p, f) /\ Holds(q, g) /\ ptr[p][f] = ptr[q][g] => p = q /\ f = g

\* A live block is held, being destroyed or in an own field.
KeptOK ==
    \A x \in Addresses : live(x) =>
        \/ x \in Named
        \/ \E p \in Addresses, f \in Fields : Holds(p, f) /\ ptr[p][f] = x

OwnInv ==
    /\ TypeInv /\ FreedOnce /\ FreshOK /\ RawOK /\ NamedOK /\ RefOK
    /\ UniqueOK /\ KeptOK

-----------------------------------------------------------------------------
(* Facts the steps share.                                                  *)

\* The fields of a chain are fields, and own_slots are the own ones.
LEMMA ChainFields ==
    ASSUME NEW c \in Classes
    PROVE  chain_fields(c) \subseteq Fields
<1>1. \A i \in DOMAIN ancestors[c] : declares[ancestors[c][i]] \subseteq Fields
  BY ObjectAssumption
<1> QED
  BY <1>1 DEF chain_fields

\* What a program can name is a live block.
LEMMA ReachableLive ==
    ASSUME OwnInv, NEW p \in Reachable
    PROVE  p \in Addresses /\ live(p)
<1>1. CASE p \in Named
  BY <1>1 DEF OwnInv, NamedOK, TypeInv, live
<1>2. CASE p \notin Named
  <2>1. PICK a \in Named : \E f \in own_slots(a) : ptr[a][f] = p
    BY <1>2 DEF Reachable
  <2>2. PICK f \in own_slots(a) : ptr[a][f] = p
    BY <2>1
  <2>3. p \in Addresses /\ p # None
    BY <1>2, ObjectAssumption DEF Reachable
  <2>4. live(a) /\ a \in Addresses
    BY DEF OwnInv, NamedOK, TypeInv, live
  <2>5. Holds(a, f) /\ f \in Fields
    BY <2>2, <2>3, <2>4, ObjectAssumption DEF Holds, own_slots
  <2> QED
    BY <2>2, <2>3, <2>4, <2>5 DEF OwnInv, RefOK
<1> QED
  BY <1>1, <1>2

\* What an own field refers to owns nothing itself.
LEMMA OwnedOwnsNothing ==
    ASSUME Flat, OwnInv, NEW p \in Addresses, NEW f \in Fields, Holds(p, f),
           NEW g \in Fields
    PROVE  ~ Holds(ptr[p][f], g)
<1>1. Fits(f, ptr[p][f]) /\ f \in owned
  BY DEF OwnInv, RefOK, Holds
<1> QED
  BY <1>1 DEF Fits, Flat, Holds

\* Every own field that is not null is copied.
LEMMA SizedSlots ==
    ASSUME Flat, OwnInv, NEW p \in Addresses, live(p), table[p] # None
    PROVE  /\ sized_slots(p) \subseteq Fields
           /\ \A f \in Fields : f \in sized_slots(p) <=> Holds(p, f)
<1>1. own_slots(p) = chain_fields(table[p]) \cap owned
  BY DEF own_slots
<1>2. \A f \in Fields : Holds(p, f) /\ kind[f] = "slice" => len[p][f] > 0
  BY DEF OwnInv, RefOK
<1>3. \A f \in owned : kind[f] \in {"ptr", "slice"} /\ f \in Fields
  BY ObjectAssumption
<1>4. \A f \in owned : kind[f] = "ptr" => descriptor[f] # None
  BY DEF Flat
<1> QED
  BY <1>1, <1>2, <1>3, <1>4 DEF sized_slots, Holds

-----------------------------------------------------------------------------
(* The steps.                                                              *)

LEMMA OwnInit == Init => OwnInv
<1> SUFFICES ASSUME Init PROVE OwnInv
  OBVIOUS
<1>1. TypeInv
  BY ObjectAssumption DEF Init, TypeInv
<1>2. FreedOnce /\ FreshOK /\ RawOK /\ RefOK /\ UniqueOK /\ KeptOK
  BY DEF Init, FreedOnce, FreshOK, RawOK, RefOK, UniqueOK, KeptOK, Holds, live
<1>3. Torn = {} /\ Named = {}
  BY DEF Init, Torn, Named
<1>4. NamedOK
  BY <1>3 DEF Init, NamedOK
<1> QED
  BY <1>1, <1>2, <1>4 DEF OwnInv

LEMMA AllocObjectStep ==
    ASSUME OwnInv, NEW a \in Addresses \ made, NEW c \in Allocated,
           AllocObject(a, c)
    PROVE  OwnInv'
<1> USE DEF AllocObject
<1>1. TypeInv'
  BY ObjectAssumption DEF OwnInv, TypeInv
<1>2. /\ frees[a] = 0 /\ \A f \in Fields : ptr[a][f] = None
      /\ a \notin Named /\ ~ live(a)
  BY DEF OwnInv, FreshOK, NamedOK, live
<1>3. Torn' = Torn /\ Named' = Named \cup {a}
  BY DEF Torn, Named
<1>4. \A x \in Addresses : live(x)' <=> (live(x) \/ x = a)
  BY <1>2 DEF live
<1>5. \A x \in Addresses : x # a => table'[x] = table[x] /\ extent'[x] = extent[x]
  BY DEF OwnInv, TypeInv
<1>6. table'[a] = c /\ extent'[a] = c /\ c # None
  BY ObjectAssumption DEF OwnInv, TypeInv
<1>7. \A p \in Addresses, f \in Fields : Holds(p, f)' <=> Holds(p, f)
  BY <1>2, <1>4, <1>5 DEF Holds
<1>8. \A p \in Addresses, f \in Fields : Holds(p, f) => ptr[p][f] # a
  BY <1>2 DEF OwnInv, RefOK
<1>9. FreedOnce' /\ FreshOK' /\ RawOK'
  BY <1>4, <1>5, <1>6 DEF OwnInv, FreedOnce, FreshOK, RawOK, TypeInv
<1>10. NamedOK'
  BY <1>2, <1>3, <1>4, <1>5, <1>6 DEF OwnInv, NamedOK, TypeInv, live, Named
<1>11. RefOK'
  <2> SUFFICES ASSUME NEW p \in Addresses, NEW f \in Fields, Holds(p, f)
               PROVE  /\ live(ptr[p][f])' /\ ptr[p][f] \notin Named'
                      /\ Fits(f, ptr[p][f])'
                      /\ extent'[ptr[p][f]] = table'[ptr[p][f]]
                      /\ kind[f] = "slice" => len[p][f] > 0 /\ len[p][f] <= bytes[ptr[p][f]]
    BY <1>7 DEF RefOK, Fits
  <2>1. ptr[p][f] \in Addresses /\ ptr[p][f] # a
    BY <1>8 DEF OwnInv, RefOK, TypeInv, live
  <2> QED
    BY <2>1, <1>3, <1>4, <1>5 DEF OwnInv, RefOK, Fits
<1>12. UniqueOK' /\ KeptOK'
  BY <1>3, <1>4, <1>7 DEF OwnInv, UniqueOK, KeptOK
<1> QED
  BY <1>1, <1>9, <1>10, <1>11, <1>12 DEF OwnInv

LEMMA AllocRawStep ==
    ASSUME Flat, OwnInv, NEW a \in Addresses \ made, NEW n \in RawSizes,
           AllocRaw(a, n)
    PROVE  OwnInv'
<1> USE DEF AllocRaw
<1>1. TypeInv'
  BY ObjectAssumption DEF OwnInv, TypeInv
<1>2. frees[a] = 0 /\ table[a] = None /\ a \notin Named /\ ~ live(a) /\ n > 0
  BY ObjectAssumption DEF OwnInv, FreshOK, NamedOK, live, Flat
<1>3. Torn' = Torn /\ Named' = Named \cup {a}
  BY DEF Torn, Named
<1>4. \A x \in Addresses : live(x)' <=> (live(x) \/ x = a)
  BY <1>2 DEF live
<1>5. bytes'[a] = n /\ \A x \in Addresses : x # a => bytes'[x] = bytes[x]
  BY DEF OwnInv, TypeInv
<1>6. extent[a] = None
  BY DEF OwnInv, FreshOK
<1>7. \A p \in Addresses, f \in Fields : Holds(p, f)' <=> Holds(p, f)
  BY <1>2, <1>4 DEF Holds
<1>8. \A p \in Addresses, f \in Fields : Holds(p, f) =>
         ptr[p][f] \in Addresses /\ ptr[p][f] # a
  BY <1>2 DEF OwnInv, RefOK, TypeInv, live
<1>9. FreedOnce' /\ FreshOK' /\ RawOK'
  BY <1>2, <1>4, <1>5 DEF OwnInv, FreedOnce, FreshOK, RawOK, TypeInv
<1>10. NamedOK'
  BY <1>2, <1>3, <1>4, <1>6 DEF OwnInv, NamedOK, TypeInv, live, Named
<1>11. RefOK'
  BY <1>3, <1>4, <1>5, <1>7, <1>8 DEF OwnInv, RefOK, Fits
<1>12. UniqueOK' /\ KeptOK'
  BY <1>3, <1>4, <1>7 DEF OwnInv, UniqueOK, KeptOK
<1> QED
  BY <1>1, <1>9, <1>10, <1>11, <1>12 DEF OwnInv

\* The program stores a block it holds: the field becomes its only owner.
LEMMA GiveOwnStep ==
    ASSUME Flat, OwnInv, NEW p \in Addresses, live(p), table[p] # None,
           NEW f \in chain_fields(table[p]), NEW q \in held, GiveOwn(p, f, q)
    PROVE  OwnInv'
<1> USE DEF GiveOwn, blockVars
<1>1. f \in Fields /\ q \in Addresses /\ live(q) /\ q \in Named /\ q # None
  BY ObjectAssumption DEF OwnInv, TypeInv, NamedOK, Named
<1>2. /\ ptr'[p][f] = q
      /\ \A x \in Addresses, g \in Fields : x # p \/ g # f => ptr'[x][g] = ptr[x][g]
  BY <1>1 DEF OwnInv, TypeInv
<1>3. /\ kind[f] = "slice" => len'[p][f] = bytes[q]
      /\ \A x \in Addresses, g \in Fields : x # p \/ g # f => len'[x][g] = len[x][g]
  <2>1. kind[f] = "slice" => width[f] = 1
    BY DEF Flat
  <2>2. \A n \in Nat : n \div 1 = n
    OBVIOUS
  <2> QED
    BY <1>1, <2>1, <2>2 DEF OwnInv, TypeInv
<1>4. TypeInv'
  <2>1. kind[f] = "slice" => bytes[q] \div width[f] \in Nat
    <3>1. kind[f] = "slice" => width[f] = 1
      BY DEF Flat
    <3>2. bytes[q] \in Nat /\ \A n \in Nat : n \div 1 \in Nat
      BY <1>1 DEF OwnInv, TypeInv
    <3> QED
      BY <3>1, <3>2
  <2> QED
    BY <1>1, <2>1 DEF OwnInv, TypeInv
<1>5. Torn' = Torn /\ Named' = Named \ {q}
  BY DEF Torn, Named, OwnInv, NamedOK
<1>6. \A x : live(x)' <=> live(x)
  BY DEF live
<1>7. /\ Holds(p, f)'
      /\ \A x \in Addresses, g \in Fields : x # p \/ g # f =>
            (Holds(x, g)' <=> Holds(x, g))
  BY <1>1, <1>2, <1>6 DEF Holds
<1>8. ~ Holds(p, f) /\ \A x \in Addresses, g \in Fields : Holds(x, g) => ptr[x][g] # q
  BY <1>1 DEF Holds, OwnInv, RefOK
<1>9. FreedOnce' /\ FreshOK' /\ RawOK'
  BY <1>2, <1>6 DEF OwnInv, FreedOnce, FreshOK, RawOK, live
<1>10. NamedOK'
  BY <1>5, <1>6 DEF OwnInv, NamedOK
<1>11. table[q] = None => bytes[q] > 0
  BY <1>1 DEF OwnInv, RawOK
<1>12. RefOK'
  <2>1. /\ live(q)' /\ q \notin Named' /\ Fits(f, q)' /\ extent'[q] = table'[q]
        /\ kind[f] = "slice" => len'[p][f] > 0 /\ len'[p][f] <= bytes'[q]
    BY <1>1, <1>3, <1>5, <1>6, <1>11 DEF Fits, OwnInv, NamedOK, TypeInv
  <2> QED
    BY <2>1, <1>2, <1>3, <1>5, <1>6, <1>7 DEF OwnInv, RefOK, Fits
<1>13. UniqueOK'
  BY <1>2, <1>7, <1>8 DEF OwnInv, UniqueOK
<1>14. KeptOK'
  <2> SUFFICES ASSUME NEW x \in Addresses, live(x)
               PROVE  \/ x \in Named'
                      \/ \E y \in Addresses, g \in Fields : Holds(y, g)' /\ ptr'[y][g] = x
    BY <1>6 DEF KeptOK
  <2>1. CASE x = q
    BY <2>1, <1>1, <1>2, <1>7
  <2>2. CASE x # q /\ x \in Named
    BY <2>2, <1>5
  <2>3. CASE x \notin Named
    <3>1. PICK y \in Addresses, g \in Fields : Holds(y, g) /\ ptr[y][g] = x
      BY <2>3 DEF OwnInv, KeptOK
    <3> QED
      BY <3>1, <1>2, <1>7, <1>8
  <2> QED
    BY <2>1, <2>2, <2>3
<1> QED
  BY <1>4, <1>9, <1>10, <1>12, <1>13, <1>14 DEF OwnInv

\* The program takes a block out of its field: it becomes its only owner.
LEMMA TakeOwnStep ==
    ASSUME OwnInv, NEW p \in Addresses, live(p), table[p] # None,
           NEW f \in chain_fields(table[p]), TakeOwn(p, f)
    PROVE  OwnInv'
<1> DEFINE q == ptr[p][f]
<1> USE DEF TakeOwn, blockVars
<1>1. f \in Fields /\ Holds(p, f)
  BY ObjectAssumption DEF Holds
<1>2. /\ q \in Addresses /\ live(q) /\ q \notin Named /\ extent[q] = table[q]
  BY <1>1 DEF OwnInv, RefOK, TypeInv, live
<1>3. /\ ptr'[p][f] = None
      /\ \A x \in Addresses, g \in Fields : x # p \/ g # f => ptr'[x][g] = ptr[x][g]
      /\ \A x \in Addresses, g \in Fields : x # p \/ g # f => len'[x][g] = len[x][g]
  BY <1>1 DEF OwnInv, TypeInv
<1>4. TypeInv'
  BY <1>1, <1>2 DEF OwnInv, TypeInv
<1>5. Torn' = Torn /\ Named' = Named \cup {q}
  BY DEF Torn, Named
<1>6. \A x : live(x)' <=> live(x)
  BY DEF live
<1>7. /\ ~ Holds(p, f)'
      /\ \A x \in Addresses, g \in Fields : x # p \/ g # f =>
            (Holds(x, g)' <=> Holds(x, g))
  BY <1>3, <1>6 DEF Holds
<1>8. \A x \in Addresses, g \in Fields : x # p \/ g # f =>
         (Holds(x, g) => ptr[x][g] # q)
  BY <1>1 DEF OwnInv, UniqueOK
<1>9. FreedOnce' /\ FreshOK' /\ RawOK'
  BY <1>3, <1>6 DEF OwnInv, FreedOnce, FreshOK, RawOK, live
<1>10. NamedOK'
  BY <1>2, <1>5, <1>6 DEF OwnInv, NamedOK, Named
<1>11. RefOK'
  <2> SUFFICES ASSUME NEW x \in Addresses, NEW g \in Fields, Holds(x, g)'
               PROVE  /\ live(ptr[x][g]) /\ ptr[x][g] \notin Named \cup {q}
                      /\ Fits(g, ptr[x][g]) /\ extent[ptr[x][g]] = table[ptr[x][g]]
                      /\ kind[g] = "slice" =>
                           len[x][g] > 0 /\ len[x][g] <= bytes[ptr[x][g]]
                      /\ ptr'[x][g] = ptr[x][g] /\ len'[x][g] = len[x][g]
    BY <1>5, <1>6 DEF RefOK, Fits
  <2> QED
    BY <1>3, <1>7, <1>8 DEF OwnInv, RefOK
<1>12. UniqueOK'
  BY <1>3, <1>7 DEF OwnInv, UniqueOK
<1>13. KeptOK'
  BY <1>3, <1>5, <1>6, <1>7 DEF OwnInv, KeptOK
<1> QED
  BY <1>4, <1>9, <1>10, <1>11, <1>12, <1>13 DEF OwnInv

\* A pointer that is not own changes nothing.
LEMMA BorrowStep ==
    ASSUME OwnInv, NEW p \in Addresses, live(p), NEW f \in Fields,
           NEW q \in Addresses, Borrow(p, f, q)
    PROVE  OwnInv'
<1> USE DEF Borrow, blockVars
<1>1. TypeInv'
  BY DEF OwnInv, TypeInv
<1>2. \A x \in Addresses, g \in Fields : x # p \/ g # f => ptr'[x][g] = ptr[x][g]
  BY DEF OwnInv, TypeInv
<1>3. Torn' = Torn /\ Named' = Named /\ \A x : live(x)' <=> live(x)
  BY DEF Torn, Named, live
<1>4. \A x \in Addresses, g \in Fields :
         /\ Holds(x, g)' <=> Holds(x, g)
         /\ Holds(x, g) => ptr'[x][g] = ptr[x][g]
  BY <1>2, <1>3 DEF Holds
<1>5. FreedOnce' /\ FreshOK' /\ RawOK' /\ NamedOK'
  BY <1>2, <1>3 DEF OwnInv, FreedOnce, FreshOK, RawOK, NamedOK, live
<1>6. RefOK' /\ UniqueOK' /\ KeptOK'
  BY <1>3, <1>4 DEF OwnInv, RefOK, UniqueOK, KeptOK, Fits
<1> QED
  BY <1>1, <1>5, <1>6 DEF OwnInv

\* Memory without an object is freed by the program that holds it.
LEMMA FreeRawStep ==
    ASSUME OwnInv, NEW p \in held, FreeRaw(p)
    PROVE  OwnInv'
<1> USE DEF FreeRaw, blockVars
<1>1. p \in Addresses /\ p \in Named /\ live(p)
  BY DEF OwnInv, TypeInv, NamedOK, Named
<1>2. TypeInv'
  BY <1>1 DEF OwnInv, TypeInv
<1>3. frees'[p] = 1 /\ \A x \in Addresses : x # p => frees'[x] = frees[x]
  BY <1>1 DEF OwnInv, TypeInv, live
<1>4. \A x \in Addresses : live(x)' <=> (live(x) /\ x # p)
  BY <1>3 DEF live
<1>5. Torn' = Torn /\ Named' = Named \ {p}
  BY DEF Torn, Named, OwnInv, NamedOK
<1>6. \A x \in Addresses, g \in Fields : Holds(x, g)' <=> Holds(x, g)
  BY <1>4 DEF Holds
<1>7. \A x \in Addresses, g \in Fields : Holds(x, g) =>
         ptr[x][g] # p /\ ptr[x][g] \in Addresses
  BY <1>1 DEF OwnInv, RefOK, TypeInv, live
<1>8. FreedOnce' /\ FreshOK' /\ RawOK'
  BY <1>1, <1>3, <1>4 DEF OwnInv, FreedOnce, FreshOK, RawOK, live
<1>9. NamedOK'
  BY <1>4, <1>5 DEF OwnInv, NamedOK, TypeInv, live
<1>10. RefOK' /\ UniqueOK' /\ KeptOK'
  BY <1>4, <1>5, <1>6, <1>7 DEF OwnInv, RefOK, UniqueOK, KeptOK, Fits
<1> QED
  BY <1>2, <1>8, <1>9, <1>10 DEF OwnInv

\* A call of destroy takes the object from the program.
LEMMA DestroyStep ==
    ASSUME OwnInv, NEW p \in held, NEW free \in BOOLEAN, destroy(p, free)
    PROVE  OwnInv'
<1> DEFINE frame == [object |-> p, left |-> Len(ancestors[table[p]]), free |-> free]
<1> USE DEF destroy, blockVars
<1>1. p \in Addresses /\ p \in Named /\ p \notin Torn /\ table[p] \in Classes
  BY DEF OwnInv, TypeInv, NamedOK, Named
<1>2. frame \in Frame
  BY <1>1, ObjectAssumption DEF Frame
<1>3. /\ stack' \in Seq(Frame)
      /\ DOMAIN stack' = DOMAIN stack \cup {Len(stack) + 1}
      /\ \A i \in DOMAIN stack : stack'[i] = stack[i]
      /\ stack'[Len(stack) + 1].object = p
  BY <1>2 DEF OwnInv, TypeInv
<1>4. TypeInv'
  BY <1>3 DEF OwnInv, TypeInv
<1>5. Torn' = Torn \cup {p} /\ Named' = Named
  BY <1>1, <1>3 DEF Torn, Named
<1>6. \A x : live(x)' <=> live(x)
  BY DEF live
<1>7. \A x \in Addresses, g \in Fields : Holds(x, g)' <=> Holds(x, g)
  BY <1>6 DEF Holds
<1>8. FreedOnce' /\ FreshOK' /\ RawOK'
  BY <1>6 DEF OwnInv, FreedOnce, FreshOK, RawOK
<1>9. NamedOK'
  <2>1. \A i \in DOMAIN stack : stack[i].object # p
    BY <1>1 DEF Torn
  <2>2. \A i, k \in DOMAIN stack' : stack'[i].object = stack'[k].object => i = k
    BY <1>3, <2>1 DEF OwnInv, NamedOK
  <2> QED
    BY <1>1, <1>5, <1>6, <2>2 DEF OwnInv, NamedOK
<1>10. RefOK' /\ UniqueOK' /\ KeptOK'
  BY <1>5, <1>6, <1>7 DEF OwnInv, RefOK, UniqueOK, KeptOK, Fits
<1> QED
  BY <1>4, <1>8, <1>9, <1>10 DEF OwnInv

\* The next destruct body starts.
LEMMA NextBodyStep ==
    ASSUME OwnInv, NextBody
    PROVE  OwnInv'
<1> USE DEF NextBody, blockVars, Top
<1>1. Len(stack) \in DOMAIN stack /\ stack[Len(stack)] \in Frame
  BY DEF OwnInv, TypeInv
<1>2. stack[Len(stack)].left - 1 \in Nat
  BY <1>1 DEF Frame
<1>3. /\ stack' \in Seq(Frame) /\ DOMAIN stack' = DOMAIN stack
      /\ \A i \in DOMAIN stack : stack'[i].object = stack[i].object
  <2> DEFINE frame == [stack[Len(stack)] EXCEPT !.left = @ - 1]
  <2>1. frame \in Frame /\ frame.object = stack[Len(stack)].object
    BY <1>1, <1>2 DEF Frame
  <2>2. stack' = [stack EXCEPT ![Len(stack)] = frame]
    OBVIOUS
  <2>3. \A n \in DOMAIN stack, e \in Frame : [stack EXCEPT ![n] = e] \in Seq(Frame)
    BY DEF OwnInv, TypeInv
  <2>4. DOMAIN stack' = DOMAIN stack
    BY <2>2
  <2>5. \A i \in DOMAIN stack :
           stack'[i] = IF i = Len(stack) THEN frame ELSE stack[i]
    BY <2>2
  <2> HIDE DEF frame
  <2> QED
    BY <1>1, <2>1, <2>2, <2>3, <2>4, <2>5
<1>4. TypeInv'
  BY <1>3 DEF OwnInv, TypeInv
<1>5. Torn' = Torn /\ Named' = Named
  BY <1>3 DEF Torn, Named
<1>6. \A x : live(x)' <=> live(x)
  BY DEF live
<1>7. \A x \in Addresses, g \in Fields : Holds(x, g)' <=> Holds(x, g)
  BY <1>6 DEF Holds
<1>8. FreedOnce' /\ FreshOK' /\ RawOK'
  BY <1>6 DEF OwnInv, FreedOnce, FreshOK, RawOK
<1>9. NamedOK'
  BY <1>3, <1>5, <1>6 DEF OwnInv, NamedOK
<1>10. RefOK' /\ UniqueOK' /\ KeptOK'
  BY <1>5, <1>6, <1>7 DEF OwnInv, RefOK, UniqueOK, KeptOK, Fits
<1> QED
  BY <1>4, <1>8, <1>9, <1>10 DEF OwnInv

\* The own fields of an object that refer to one block are none or one.
LEMMA FreedCount ==
    ASSUME OwnInv, NEW p \in Addresses, live(p), table[p] # None,
           NEW x \in Addresses
    PROVE  LET freed == {f \in own_slots(p) : ptr[p][f] = x}
           IN  IF \E f \in Fields : Holds(p, f) /\ ptr[p][f] = x
               THEN Cardinality(freed) = 1 ELSE Cardinality(freed) = 0
<1> DEFINE freed == {f \in own_slots(p) : ptr[p][f] = x}
<1>1. \A f : f \in freed <=> f \in Fields /\ Holds(p, f) /\ ptr[p][f] = x
  BY ObjectAssumption DEF own_slots, Holds
<1>2. CASE \E f \in Fields : Holds(p, f) /\ ptr[p][f] = x
  <2>1. PICK f \in Fields : Holds(p, f) /\ ptr[p][f] = x
    BY <1>2
  <2>2. \A g \in freed : g = f
    BY <1>1, <2>1 DEF OwnInv, UniqueOK
  <2>3. freed = {f}
    BY <1>1, <2>1, <2>2
  <2> QED
    BY <1>2, <2>3, FS_Singleton
<1>3. CASE ~ \E f \in Fields : Holds(p, f) /\ ptr[p][f] = x
  <2>1. freed = {}
    BY <1>1, <1>3
  <2> QED
    BY <1>3, <2>1, FS_EmptySet
<1> QED
  BY <1>2, <1>3

\* After the last body: what the object owned is freed, once, and nothing else
\* referred to it.
LEMMA FreeOwnedStep ==
    ASSUME Flat, OwnInv, FreeOwned
    PROVE  OwnInv'
<1> DEFINE p == Top.object
           kid(x) == \E f \in Fields : Holds(p, f) /\ ptr[p][f] = x
           gone(x) == kid(x) \/ (Top.free /\ x = p)
<1> USE DEF FreeOwned, blockVars
<1>1. /\ Len(stack) \in DOMAIN stack /\ stack[Len(stack)] \in Frame
      /\ p \in Torn /\ p \in Named
  BY DEF OwnInv, TypeInv, Top, Torn, Named
<1>2. p \in Addresses /\ live(p) /\ table[p] # None /\ Top.free \in BOOLEAN
  BY <1>1 DEF Frame, Top, OwnInv, NamedOK
<1>3. \A x \in Addresses : kid(x) => live(x) /\ x # p /\ x \notin Named
  BY <1>1, <1>2 DEF OwnInv, RefOK
<1>4. \A x \in Addresses : frees'[x] = IF gone(x) THEN frees[x] + 1 ELSE frees[x]
  <2> SUFFICES ASSUME NEW x \in Addresses
               PROVE  frees'[x] = IF gone(x) THEN frees[x] + 1 ELSE frees[x]
    OBVIOUS
  <2> DEFINE n == Cardinality({f \in own_slots(p) : ptr[p][f] = x})
  <2>1. frees'[x] = frees[x] + n + (IF Top.free /\ x = p THEN 1 ELSE 0)
    OBVIOUS
  <2>2. IF kid(x) THEN n = 1 ELSE n = 0
    BY <1>2, FreedCount
  <2>3. frees[x] \in Nat
    BY DEF OwnInv, TypeInv
  <2>4. kid(x) => x # p
    BY <1>3
  <2> HIDE DEF n, p, kid
  <2> QED
    BY <2>1, <2>2, <2>3, <2>4
<1>5. \A x \in Addresses : gone(x) => live(x)
  BY <1>2, <1>3
<1>6. \A x \in Addresses : live(x)' <=> (live(x) /\ ~ gone(x))
  <2>1. made' = made /\ \A x \in Addresses : frees[x] \in Nat
    BY DEF OwnInv, TypeInv
  <2> HIDE DEF gone, FreeOwned
  <2> QED
    BY <1>4, <2>1 DEF live
<1>7. /\ \A f \in own_slots(p) : ptr'[p][f] = None
      /\ \A f \in Fields : ptr'[p][f] = None \/ ptr'[p][f] = ptr[p][f]
      /\ \A x \in Addresses : x # p => ptr'[x] = ptr[x]
      /\ ptr' \in [Addresses -> [Fields -> Addresses \cup {None}]]
  <2>1. own_slots(p) \subseteq Fields
    BY ObjectAssumption DEF own_slots
  <2>2. p \in Addresses /\ ptr \in [Addresses -> [Fields -> Addresses \cup {None}]]
    BY <1>2 DEF OwnInv, TypeInv
  <2>3. ptr' = [ptr EXCEPT ![p] =
                  [f \in Fields |-> IF f \in own_slots(p) THEN None ELSE ptr[p][f]]]
    BY DEF cleared
  <2> HIDE DEF p
  <2> QED
    BY <2>1, <2>2, <2>3
<1>8. /\ stack' \in Seq(Frame)
      /\ DOMAIN stack' = DOMAIN stack \ {Len(stack)}
      /\ \A i \in DOMAIN stack' : stack'[i] = stack[i]
  BY <1>1 DEF OwnInv, TypeInv
<1>9. TypeInv'
  <2>1. frees' \in [Addresses -> Nat]
    <3>1. \A x \in Addresses : frees[x] \in Nat
      BY DEF OwnInv, TypeInv
    <3>2. \A x \in Addresses : frees'[x] \in Nat
      <4> HIDE DEF gone, FreeOwned
      <4> QED
        BY <1>4, <3>1
    <3>3. frees' = [x \in Addresses |-> frees'[x]]
      OBVIOUS
    <3> HIDE DEF gone, FreeOwned
    <3> QED
      BY <3>2, <3>3
  <2>2. held' \subseteq Addresses
    BY <1>2 DEF OwnInv, TypeInv
  <2> QED
    BY <1>7, <1>8, <2>1, <2>2 DEF OwnInv, TypeInv
<1>10. Torn' = Torn \ {p}
  <2>1. \A i \in DOMAIN stack : i # Len(stack) => stack[i].object # p
    BY <1>1 DEF OwnInv, NamedOK, Top
  <2>2. stack[Len(stack)].object = p
    BY DEF Top
  <2>3. Torn' = {stack[i].object : i \in DOMAIN stack \ {Len(stack)}}
    BY <1>8 DEF Torn
  <2> HIDE DEF p, FreeOwned
  <2> QED
    BY <1>1, <2>1, <2>2, <2>3 DEF Torn
<1>11. Named' = IF Top.free THEN Named \ {p} ELSE Named
  <2>1. p \notin held
    BY <1>1 DEF OwnInv, NamedOK
  <2> QED
    BY <1>1, <1>10, <2>1 DEF Named
<1>12. \A x \in Addresses, g \in Fields :
          /\ Holds(x, g)' <=> (Holds(x, g) /\ x # p)
          /\ Holds(x, g)' => ptr'[x][g] = ptr[x][g]
  <2> SUFFICES ASSUME NEW x \in Addresses, NEW g \in Fields
               PROVE  /\ Holds(x, g)' <=> (Holds(x, g) /\ x # p)
                      /\ Holds(x, g)' => ptr'[x][g] = ptr[x][g]
    OBVIOUS
  <2>1. CASE x = p
    <3>1. g \in chain_fields(table[p]) \cap owned => ptr'[p][g] = None
      BY <1>2, <1>7 DEF own_slots
    <3> QED
      BY <2>1, <3>1 DEF Holds
  <2>2. CASE x # p
    <3>1. ptr'[x] = ptr[x] /\ table' = table
      BY <2>2, <1>7
    <3>2. Holds(x, g) => ~ kid(x)
      BY OwnedOwnsNothing, <1>2
    <3>3. Holds(x, g) => live(x)'
      BY <1>6, <2>2, <3>2 DEF Holds
    <3>4. live(x)' => live(x)
      BY <1>6
    <3> HIDE DEF p, kid, gone
    <3> QED
      BY <2>2, <3>1, <3>3, <3>4 DEF Holds
  <2> QED
    BY <2>1, <2>2
<1>13. FreedOnce' /\ FreshOK' /\ RawOK'
  <2>1. \A x \in Addresses : gone(x) => x \in made /\ frees[x] = 0
    BY <1>5 DEF live
  <2>2. FreedOnce'
    <3> HIDE DEF gone, FreeOwned
    <3> QED
      BY <1>4, <2>1 DEF OwnInv, FreedOnce
  <2>3. p \in made
    BY <1>2 DEF live
  <2>4. FreshOK'
    <3>1. made' = made /\ table' = table /\ extent' = extent
      OBVIOUS
    <3> HIDE DEF gone, p, FreeOwned
    <3> QED
      BY <1>4, <1>7, <2>1, <2>3, <3>1 DEF OwnInv, FreshOK
  <2>5. RawOK'
    BY <1>6 DEF OwnInv, RawOK
  <2> QED
    BY <2>2, <2>4, <2>5
<1>14. NamedOK'
  <2>1. \A x \in Named' : x \in Addresses /\ live(x)' /\ extent[x] = table[x]
    <3> SUFFICES ASSUME NEW x \in Named'
                 PROVE  x \in Addresses /\ live(x)' /\ extent[x] = table[x]
      OBVIOUS
    <3>1. x \in Named /\ ~ (Top.free /\ x = p)
      BY <1>11
    <3>2. x \in Addresses /\ live(x) /\ extent[x] = table[x]
      BY <3>1 DEF OwnInv, NamedOK, TypeInv, live
    <3>3. ~ gone(x)
      BY <3>1, <3>2, <1>3
    <3> QED
      BY <3>2, <3>3, <1>6
  <2>2. held' \cap Torn' = {}
    BY <1>10 DEF OwnInv, NamedOK
  <2> QED
    BY <1>8, <1>10, <2>1, <2>2 DEF OwnInv, NamedOK
<1>15. RefOK'
  <2> SUFFICES ASSUME NEW x \in Addresses, NEW g \in Fields, Holds(x, g), x # p
               PROVE  live(ptr[x][g])' /\ ptr[x][g] \notin Named'
    BY <1>12 DEF OwnInv, RefOK, Fits
  <2>1. ptr[x][g] \in Addresses /\ live(ptr[x][g]) /\ ptr[x][g] \notin Named
    BY DEF OwnInv, RefOK, TypeInv, live
  <2>2. ~ kid(ptr[x][g])
    BY <1>2 DEF OwnInv, UniqueOK
  <2>3. ~ gone(ptr[x][g])
    BY <2>1, <2>2, <1>1
  <2>4. ptr[x][g] \notin Named'
    BY <2>1, <1>11
  <2>5. ptr'[x][g] = ptr[x][g]
    BY <1>12
  <2> HIDE DEF gone, p, FreeOwned
  <2> QED
    BY <2>1, <2>3, <2>4, <2>5, <1>6
<1>16. UniqueOK'
  BY <1>12 DEF OwnInv, UniqueOK
<1>17. KeptOK'
  <2> SUFFICES ASSUME NEW x \in Addresses, live(x), ~ gone(x)
               PROVE  \/ x \in Named'
                      \/ \E y \in Addresses, g \in Fields : Holds(y, g)' /\ ptr'[y][g] = x
    BY <1>6 DEF KeptOK
  <2>1. CASE x \in Named
    BY <2>1, <1>11
  <2>2. CASE x \notin Named
    <3>1. PICK y \in Addresses, g \in Fields : Holds(y, g) /\ ptr[y][g] = x
      BY <2>2 DEF OwnInv, KeptOK
    <3>2. y # p
      BY <3>1
    <3> QED
      BY <3>1, <3>2, <1>12
  <2> QED
    BY <2>1, <2>2
<1> QED
  BY <1>9, <1>13, <1>14, <1>15, <1>16, <1>17 DEF OwnInv

\* A copy: the object is the program's, its own fields refer to new blocks.
LEMMA DupStep ==
    ASSUME Flat, OwnInv, NEW p \in Addresses, live(p), table[p] # None,
           NEW a \in Addresses \ made, NEW slots \in SUBSET sized_slots(p),
           NEW at \in [slots -> Addresses \ (made \cup {a})], DupInto(p, a, at)
    PROVE  OwnInv'
<1> DEFINE copies == {at[f] : f \in slots}
           new(x) == x = a \/ x \in copies
<1>1. /\ DOMAIN at = slots
      /\ \A f \in slots : f \in Fields /\ Holds(p, f) /\ f \in owned
      /\ \A f \in slots : at[f] \in Addresses /\ at[f] \notin made /\ at[f] # a
      /\ \A f, g \in slots : at[f] = at[g] => f = g
  BY SizedSlots DEF DupInto, Holds
<1>2. \A f \in slots : SlotOf(at, at[f]) = f
  BY <1>1 DEF SlotOf
<1>3. \A f \in slots :
         /\ ptr[p][f] \in Addresses /\ live(ptr[p][f])
         /\ table[ptr[p][f]] = copied_extent(f)
         /\ kind[f] = "slice" => len[p][f] > 0
  BY <1>1 DEF OwnInv, RefOK, TypeInv, live, Fits, copied_extent
<1>4. /\ made' = made \cup {a} \cup copies /\ held' = held \cup {a}
      /\ frees' = frees /\ stack' = stack
  BY <1>1 DEF DupInto
<1>5. \A x \in Addresses : ~ new(x) =>
         /\ table'[x] = table[x] /\ extent'[x] = extent[x] /\ bytes'[x] = bytes[x]
         /\ ptr'[x] = ptr[x] /\ len'[x] = len[x]
  BY <1>1 DEF DupInto
<1>6. /\ table'[a] = table[p] /\ extent'[a] = table[p] /\ bytes'[a] = bytes[a]
      /\ ptr'[a] = [f \in Fields |-> copied_ptr(p, at, f)] /\ len'[a] = len[p]
  BY <1>1 DEF DupInto
<1>7. \A f \in slots :
         /\ table'[at[f]] = table[ptr[p][f]] /\ extent'[at[f]] = copied_extent(f)
         /\ bytes'[at[f]] = copied_bytes(p, f)
         /\ ptr'[at[f]] = ptr[ptr[p][f]] /\ len'[at[f]] = len[ptr[p][f]]
  BY <1>1, <1>2 DEF DupInto
<1>8. \A f \in Fields :
         /\ f \in slots => copied_ptr(p, at, f) = at[f]
         /\ f \notin slots =>
              copied_ptr(p, at, f) = IF Holds(p, f) THEN None ELSE ptr[p][f]
  BY <1>1, SizedSlots DEF copied_ptr
<1> HIDE DEF new
<1>9. \A x \in Addresses : new(x) <=> (x = a \/ \E f \in slots : x = at[f])
  BY DEF new
<1>10. TypeInv'
  <2>1. /\ table' = [x \in Addresses |-> table'[x]]
        /\ extent' = [x \in Addresses |-> extent'[x]]
        /\ bytes' = [x \in Addresses |-> bytes'[x]]
        /\ ptr' = [x \in Addresses |-> ptr'[x]]
        /\ len' = [x \in Addresses |-> len'[x]]
    BY DEF DupInto
  <2>2. \A f \in slots : /\ copied_extent(f) \in Classes \cup {None}
                         /\ copied_bytes(p, f) \in Nat
    BY <1>1, ObjectAssumption DEF copied_extent, copied_bytes, OwnInv, TypeInv
  <2>3. \A f \in Fields : copied_ptr(p, at, f) \in Addresses \cup {None}
    <3>1. \A f \in Fields : ptr[p][f] \in Addresses \cup {None}
      BY DEF OwnInv, TypeInv
    <3> QED
      BY <3>1, <1>1, <1>8
  <2>4. \A x \in Addresses :
           /\ table'[x] \in Classes \cup {None} /\ extent'[x] \in Classes \cup {None}
           /\ bytes'[x] \in Nat
           /\ ptr'[x] \in [Fields -> Addresses \cup {None}]
           /\ len'[x] \in [Fields -> Nat]
    <3> SUFFICES ASSUME NEW x \in Addresses
                 PROVE  /\ table'[x] \in Classes \cup {None}
                        /\ extent'[x] \in Classes \cup {None}
                        /\ bytes'[x] \in Nat
                        /\ ptr'[x] \in [Fields -> Addresses \cup {None}]
                        /\ len'[x] \in [Fields -> Nat]
      OBVIOUS
    <3>1. CASE ~ new(x)
      BY <3>1, <1>5 DEF OwnInv, TypeInv
    <3>2. CASE x = a
      BY <3>2, <1>6, <2>3 DEF OwnInv, TypeInv
    <3>3. CASE \E f \in slots : x = at[f]
      <4>1. PICK f \in slots : x = at[f]
        BY <3>3
      <4>2. ptr[p][f] \in Addresses
        BY <1>3
      <4> QED
        BY <4>1, <4>2, <1>7, <2>2 DEF OwnInv, TypeInv
    <3> QED
      BY <3>1, <3>2, <3>3, <1>9
  <2> QED
    BY <1>1, <1>4, <2>1, <2>4 DEF OwnInv, TypeInv
<1>11. \A x \in Addresses : new(x) => x \notin made /\ frees[x] = 0 /\ ~ live(x)
  BY <1>1, <1>9 DEF OwnInv, FreshOK, live
<1>12. \A x \in Addresses : live(x)' <=> (live(x) \/ new(x))
  BY <1>4, <1>11 DEF live, new
<1>13. Torn' = Torn /\ Named' = Named \cup {a}
  BY <1>4 DEF Torn, Named
<1>14. \A x \in Addresses, g \in Fields : ~ new(x) =>
          /\ Holds(x, g)' <=> Holds(x, g)
          /\ ptr'[x][g] = ptr[x][g] /\ len'[x][g] = len[x][g]
  BY <1>5, <1>12 DEF Holds
<1>15. \A f \in slots, g \in Fields : ~ Holds(at[f], g)'
  <2> SUFFICES ASSUME NEW f \in slots, NEW g \in Fields
               PROVE  ~ Holds(at[f], g)'
    OBVIOUS
  <2>1. table'[at[f]] = copied_extent(f) /\ f \in owned
    BY <1>1, <1>3, <1>7
  <2>2. copied_extent(f) # None => chain_fields(copied_extent(f)) \cap owned = {}
    BY <2>1 DEF copied_extent, Flat
  <2> QED
    BY <2>1, <2>2 DEF Holds
<1>16. \A g \in Fields :
          /\ Holds(a, g)' <=> g \in slots
          /\ g \in slots => ptr'[a][g] = at[g]
  <2> SUFFICES ASSUME NEW g \in Fields
               PROVE  /\ Holds(a, g)' <=> g \in slots
                      /\ g \in slots => ptr'[a][g] = at[g]
    OBVIOUS
  <2>1. ptr'[a][g] = copied_ptr(p, at, g) /\ table'[a] = table[p] /\ live(a)'
    BY <1>6, <1>9, <1>12
  <2>2. CASE g \in slots
    <3>1. ptr'[a][g] = at[g] /\ at[g] # None
      BY <2>1, <2>2, <1>1, <1>8, ObjectAssumption
    <3> QED
      BY <2>1, <2>2, <3>1, <1>1 DEF Holds
  <2>3. CASE g \notin slots
    BY <2>1, <2>3, <1>8 DEF Holds
  <2> QED
    BY <2>2, <2>3
<1>17. \A x \in Addresses, g \in Fields : Holds(x, g)' =>
          \/ ~ new(x) /\ Holds(x, g)
          \/ x = a /\ g \in slots
  BY <1>9, <1>14, <1>15, <1>16
<1>18. FreedOnce' /\ FreshOK'
  BY <1>4, <1>5 DEF OwnInv, FreedOnce, FreshOK, new
<1>19. \A f \in slots : table[ptr[p][f]] = None =>
          kind[f] = "slice" /\ copied_bytes(p, f) > 0
  BY <1>1, <1>3, ObjectAssumption DEF copied_extent, copied_bytes, Flat
<1>20. RawOK'
  <2> SUFFICES ASSUME NEW x \in Addresses, live(x)', table'[x] = None
               PROVE  bytes'[x] > 0
    BY DEF RawOK
  <2>1. CASE ~ new(x)
    BY <2>1, <1>5, <1>12 DEF OwnInv, RawOK
  <2>2. CASE x = a
    BY <2>2, <1>6
  <2>3. CASE \E f \in slots : x = at[f]
    BY <2>3, <1>7, <1>19
  <2> QED
    BY <2>1, <2>2, <2>3, <1>9
<1>21. NamedOK'
  <2>1. \A x \in Named : x \in Addresses /\ live(x) /\ extent[x] = table[x] /\ ~ new(x)
    BY <1>11 DEF OwnInv, NamedOK, TypeInv, live
  <2>2. a \notin Named /\ Torn \subseteq Named
    BY <2>1, <1>9 DEF Named
  <2>3. \A x \in Named' : live(x)' /\ extent'[x] = table'[x]
    BY <2>1, <1>5, <1>6, <1>9, <1>12, <1>13
  <2>4. \A x \in Torn' : table'[x] # None
    BY <2>1, <2>2, <1>5, <1>13 DEF OwnInv, NamedOK
  <2>5. held' \cap Torn' = {}
    BY <2>2, <1>4, <1>13 DEF OwnInv, NamedOK
  <2> QED
    BY <2>3, <2>4, <2>5, <1>4 DEF OwnInv, NamedOK
<1>22. \A x \in Addresses, g \in Fields : Holds(x, g) =>
          /\ ptr[x][g] \in Addresses /\ live(ptr[x][g]) /\ ~ new(ptr[x][g])
  BY <1>11 DEF OwnInv, RefOK, TypeInv, live
<1>23. RefOK'
  <2> SUFFICES ASSUME NEW x \in Addresses, NEW g \in Fields, Holds(x, g)'
               PROVE  /\ live(ptr[x][g])' /\ ptr'[x][g] \notin Named'
                      /\ Fits(g, ptr[x][g])' /\ extent'[ptr'[x][g]] = table'[ptr'[x][g]]
                      /\ kind[g] = "slice" =>
                           len'[x][g] > 0 /\ len'[x][g] <= bytes'[ptr'[x][g]]
    BY DEF RefOK
  <2>1. CASE ~ new(x) /\ Holds(x, g)
    <3> DEFINE q == ptr[x][g]
    <3>1. ptr'[x][g] = q /\ len'[x][g] = len[x][g]
      BY <2>1, <1>14
    <3>2. q \in Addresses /\ ~ new(q) /\ q # a
      BY <2>1, <1>9, <1>22
    <3>3. /\ live(q) /\ q \notin Named /\ Fits(g, q) /\ extent[q] = table[q]
          /\ kind[g] = "slice" => len[x][g] > 0 /\ len[x][g] <= bytes[q]
      BY <2>1 DEF OwnInv, RefOK
    <3>4. /\ table'[q] = table[q] /\ extent'[q] = extent[q] /\ bytes'[q] = bytes[q]
      BY <3>2, <1>5
    <3> HIDE DEF q
    <3> QED
      BY <3>1, <3>2, <3>3, <3>4, <1>12, <1>13 DEF Fits, live
  <2>2. CASE x = a /\ g \in slots
    <3>1. /\ ptr'[x][g] = at[g] /\ len'[x][g] = len[p][g]
      BY <2>2, <1>6, <1>16
    <3>2. at[g] \in Addresses /\ new(at[g]) /\ at[g] # a
      BY <2>2, <1>1, <1>9
    <3>3. at[g] \notin Named
      BY <3>2, <1>11 DEF OwnInv, NamedOK
    <3>4. at[g] \in made' /\ frees'[at[g]] = 0
      BY <3>2, <1>4, <1>11, <2>2
    <3>5. table'[at[g]] = copied_extent(g) /\ extent'[at[g]] = copied_extent(g)
      BY <2>2, <1>3, <1>7
    <3>6. kind[g] = "slice" => len[p][g] > 0 /\ bytes'[at[g]] = len[p][g]
      BY <2>2, <1>3, <1>7 DEF copied_bytes
    <3>7. len[p][g] \in Nat
      BY DEF OwnInv, TypeInv
    <3> QED
      BY <3>1, <3>2, <3>3, <3>4, <3>5, <3>6, <3>7, <1>13
         DEF Fits, live, copied_extent
  <2> QED
    BY <2>1, <2>2, <1>17
<1>24. UniqueOK'
  <2>1. \A x \in Addresses, g \in Fields, h \in slots :
           Holds(x, g) => ptr[x][g] # at[h]
    BY <1>1, <1>9, <1>22
  <2> SUFFICES ASSUME NEW x \in Addresses, NEW y \in Addresses,
                      NEW g \in Fields, NEW h \in Fields,
                      Holds(x, g)', Holds(y, h)', ptr'[x][g] = ptr'[y][h]
               PROVE  x = y /\ g = h
    BY DEF UniqueOK
  <2>2. CASE x = a /\ g \in slots /\ y = a /\ h \in slots
    BY <2>2, <1>1, <1>16
  <2>3. CASE ~ new(x) /\ Holds(x, g) /\ ~ new(y) /\ Holds(y, h)
    BY <2>3, <1>14 DEF OwnInv, UniqueOK
  <2> QED
    BY <2>1, <2>2, <2>3, <1>14, <1>16, <1>17
<1>25. KeptOK'
  <2> SUFFICES ASSUME NEW x \in Addresses, live(x)'
               PROVE  \/ x \in Named'
                      \/ \E y \in Addresses, g \in Fields : Holds(y, g)' /\ ptr'[y][g] = x
    BY DEF KeptOK
  <2>1. CASE live(x) /\ x \notin Named
    <3>1. PICK y \in Addresses, g \in Fields : Holds(y, g) /\ ptr[y][g] = x
      BY <2>1 DEF OwnInv, KeptOK
    <3>2. ~ new(y)
      BY <3>1, <1>11 DEF Holds
    <3> QED
      BY <3>1, <3>2, <1>14
  <2>2. CASE \E f \in slots : x = at[f]
    BY <2>2, <1>1, <1>16
  <2> QED
    BY <2>1, <2>2, <1>9, <1>12, <1>13
<1> QED
  BY <1>10, <1>18, <1>20, <1>21, <1>23, <1>24, <1>25 DEF OwnInv

LEMMA OwnNext ==
    ASSUME Flat, OwnInv, [Next]_vars
    PROVE  OwnInv'
<1>1. CASE ProgramStep
  <2>1. CASE \E a \in Addresses \ made : \/ \E c \in Allocated : AllocObject(a, c)
                                         \/ \E n \in RawSizes : AllocRaw(a, n)
    BY <2>1, AllocObjectStep, AllocRawStep
  <2>2. CASE \E p \in held : FreeRaw(p) \/ destroy(p, TRUE) \/ destroy(p, FALSE)
    BY <2>2, FreeRawStep, DestroyStep
  <2>3. ASSUME NEW p \in Reachable, table[p] # None,
               \/ dup(p)
               \/ \E f \in chain_fields(table[p]) :
                     \/ TakeOwn(p, f)
                     \/ \E q \in held : GiveOwn(p, f, q)
                     \/ \E q \in Reachable : Borrow(p, f, q)
        PROVE  OwnInv'
    <3>1. p \in Addresses /\ live(p)
      BY ReachableLive
    <3>2. chain_fields(table[p]) \subseteq Fields
      BY <2>3, <3>1, ChainFields DEF OwnInv, TypeInv
    <3>3. CASE dup(p)
      BY <2>3, <3>1, <3>3, DupStep DEF dup
    <3>4. ASSUME NEW f \in chain_fields(table[p]), TakeOwn(p, f)
          PROVE  OwnInv'
      BY <2>3, <3>1, <3>4, TakeOwnStep
    <3>5. ASSUME NEW f \in chain_fields(table[p]), NEW q \in held, GiveOwn(p, f, q)
          PROVE  OwnInv'
      BY <2>3, <3>1, <3>5, GiveOwnStep
    <3>6. ASSUME NEW f \in chain_fields(table[p]), NEW q \in Reachable, Borrow(p, f, q)
          PROVE  OwnInv'
      <4>1. q \in Addresses /\ f \in Fields
        BY <3>2, ReachableLive
      <4> QED
        BY <3>1, <3>6, <4>1, BorrowStep
    <3> QED
      BY <2>3, <3>3, <3>4, <3>5, <3>6
  <2> QED
    BY <1>1, <2>1, <2>2, <2>3 DEF ProgramStep
<1>2. CASE NextBody
  BY <1>2, NextBodyStep
<1>3. CASE FreeOwned
  BY <1>3, FreeOwnedStep
<1>4. CASE UNCHANGED vars
  <2>1. /\ TypeInv' = TypeInv /\ FreedOnce' = FreedOnce /\ FreshOK' = FreshOK
        /\ RawOK' = RawOK /\ KeptOK' = KeptOK /\ RefOK' = RefOK
        /\ UniqueOK' = UniqueOK /\ NamedOK' = NamedOK
    BY <1>4 DEF vars, blockVars, TypeInv, FreedOnce, FreshOK, RawOK, KeptOK, RefOK,
                UniqueOK, NamedOK, Holds, live, Named, Torn, Fits
  <2> QED
    BY <2>1 DEF OwnInv
<1> QED
  BY <1>1, <1>2, <1>3, <1>4 DEF Next

\* The inductive invariant holds in every reachable state.
LEMMA OwnInvariant ==
    ASSUME Flat
    PROVE  Spec => []OwnInv
<1>1. OwnInv /\ [Next]_vars => OwnInv'
  BY OwnNext
<1> QED
  BY OwnInit, <1>1, PTL DEF Spec

-----------------------------------------------------------------------------
(* What the properties say of OwnInv.                                      *)

\* The own references of the properties are the fields that Holds names.
LEMMA RefsAreHeld ==
    ASSUME OwnInv
    PROVE  /\ \A r \in OwnRefs : /\ r[1] \in Addresses /\ r[2] \in Fields
                                 /\ r = <<r[1], r[2]>> /\ Holds(r[1], r[2])
           /\ \A p \in Addresses, f \in Fields : Holds(p, f) => <<p, f>> \in OwnRefs
<1>1. made \subseteq Addresses /\ owned \subseteq Fields
  BY ObjectAssumption DEF OwnInv, TypeInv
<1> QED
  BY <1>1 DEF OwnRefs, Holds, live

\* No block has two owners: a copy shares no own memory with its original, and
\* what a call of destroy works on is nobody else's.
THEOREM SpecOneOwner ==
    ASSUME Flat
    PROVE  Spec => []OneOwner
<1>1. OwnInv => OneOwner
  <2> SUFFICES ASSUME OwnInv PROVE OneOwner
    OBVIOUS
  <2>1. \A r, s \in OwnRefs : ptr[r[1]][r[2]] = ptr[s[1]][s[2]] => r = s
    BY RefsAreHeld DEF OwnInv, UniqueOK
  <2>2. Owned \cap Named = {}
    BY RefsAreHeld DEF Owned, OwnInv, RefOK
  <2> QED
    BY <2>1, <2>2 DEF OneOwner, OwnInv, NamedOK
<1> QED
  BY OwnInvariant, <1>1, PTL

\* No block is freed twice by destroy and delete, whatever the destruct bodies
\* do with the objects they can name.
THEOREM SpecFreedOnce ==
    ASSUME Flat
    PROVE  Spec => []FreedOnce
<1>1. OwnInv => FreedOnce
  BY DEF OwnInv
<1> QED
  BY OwnInvariant, <1>1, PTL

\* No live block is without an owner: destroy and a failed malloc in copy lose
\* nothing.
THEOREM SpecNoLeak ==
    ASSUME Flat
    PROVE  Spec => []NoLeak
<1>1. OwnInv => NoLeak
  <2> SUFFICES ASSUME OwnInv, NEW x \in made, live(x), x \notin Named
               PROVE  x \in Owned
    BY DEF NoLeak
  <2>1. PICK p \in Addresses, f \in Fields : Holds(p, f) /\ ptr[p][f] = x
    BY DEF OwnInv, TypeInv, KeptOK
  <2>2. <<p, f>> \in OwnRefs
    BY <2>1, RefsAreHeld
  <2> QED
    BY <2>1, <2>2 DEF Owned
<1> QED
  BY OwnInvariant, <1>1, PTL

\* What is owned is live and has the size of its type: the program never reads
\* beyond a block that dup made.
THEOREM SpecOwnedIsWhole ==
    ASSUME Flat
    PROVE  Spec => []OwnedIsWhole
<1>1. OwnInv => OwnedIsWhole
  <2> SUFFICES ASSUME OwnInv PROVE OwnedIsWhole
    OBVIOUS
  <2>1. \A x \in Named : live(x) /\ extent[x] = table[x]
    BY DEF OwnInv, NamedOK
  <2>2. \A x \in Owned : live(x) /\ extent[x] = table[x]
    BY RefsAreHeld DEF Owned, OwnInv, RefOK
  <2>3. ASSUME NEW r \in OwnRefs, kind[r[2]] = "slice"
        PROVE  len[r[1]][r[2]] * width[r[2]] <= bytes[ptr[r[1]][r[2]]]
    <3> DEFINE n == len[r[1]][r[2]]
    <3>1. r[1] \in Addresses /\ r[2] \in Fields /\ Holds(r[1], r[2])
      BY RefsAreHeld
    <3>2. width[r[2]] = 1
      BY <2>3, <3>1 DEF Holds, Flat
    <3>3. n \in Nat /\ n <= bytes[ptr[r[1]][r[2]]]
      BY <2>3, <3>1 DEF OwnInv, TypeInv, RefOK
    <3> HIDE DEF n
    <3>4. n * 1 = n
      BY <3>3
    <3> QED
      BY <3>2, <3>3, <3>4 DEF n
  <2> QED
    BY <2>1, <2>2, <2>3 DEF OwnedIsWhole
<1> QED
  BY OwnInvariant, <1>1, PTL

=============================================================================
