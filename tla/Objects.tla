------------------------------- MODULE Objects -------------------------------
(***************************************************************************)
(* The objects of an Anti program and the memory they own, rt/object.c:    *)
(* `dup`, `destroy` and `delete`, called by main and, through the destruct *)
(* bodies that destroy calls, by each other.                               *)
(*                                                                         *)
(* A block is what one malloc gave.  An address is never given twice, so a *)
(* second free of it stays visible.  A pointer stands for the block it     *)
(* points into: anti_rt_object_of takes a pointer to an interface          *)
(* sub-object back to the start.  A program follows the rule of the        *)
(* language that ownership is a tree: it stores a block into an `own`      *)
(* field only when nothing else owns it.                                   *)
(***************************************************************************)
EXTENDS Integers, Sequences, FiniteSets

CONSTANTS
    Classes,     \* the classes of the program
    Allocated,   \* those it makes objects of
    ancestors,   \* [class -> its chain, the root first and itself last]
    declares,    \* [class -> the pointer and slice fields it declares itself]
    destructs,   \* the classes that declare a destruct body
    Fields,      \* those fields, one record of class_fields each
    kind,        \* [field -> "ptr" or "slice"]
    owned,       \* the fields with the own bit
    descriptor,  \* [field -> the class it names, None without one]
    width,       \* [field -> the size of one element], which no record holds
    Addresses,   \* bound: the blocks that malloc can give
    RawSizes,    \* the sizes of blocks that hold no object
    MaxDepth,    \* bound: how deep destruct bodies call destroy and delete
    None         \* the null pointer, the null descriptor

ASSUME ObjectAssumption ==
    /\ None \notin Addresses \cup Classes
    /\ Addresses \subseteq Nat
    /\ Allocated \subseteq Classes
    /\ ancestors \in [Classes -> Seq(Classes)]
    /\ declares \in [Classes -> SUBSET Fields]
    /\ IsFiniteSet(Fields)
    /\ kind \in [Fields -> {"ptr", "slice"}]
    /\ owned \subseteq Fields
    /\ descriptor \in [Fields -> Classes \cup {None}]
    /\ width \in [Fields -> Nat \ {0}]
    /\ RawSizes \subseteq Nat
    /\ MaxDepth \in Nat

VARIABLES
    made,    \* the blocks that malloc has given
    frees,   \* history: how often each of them was freed
    table,   \* the class of the object in a block, None for other memory
    extent,  \* the class whose size a block of an object has
    bytes,   \* the size of a block without an object
    ptr,     \* the pointer in each field of each block
    len,     \* the length beside it, for a slice
    held,    \* blocks the program has to free: no own field refers to them
    stack    \* the calls of anti_rt_destroy that have not returned

blockVars == <<made, table, extent, bytes>>
vars == <<blockVars, frees, ptr, len, held, stack>>

Frame == [object : Addresses, left : Nat, free : BOOLEAN]

-----------------------------------------------------------------------------
\* malloc gives blocks in the order of their numbers.
malloc(blocks) ==
    /\ blocks \subseteq Addresses \ made
    /\ \A x \in blocks, y \in Addresses \ (made \cup blocks) : x < y

live(a) == a \in made /\ frees[a] = 0

\* The fields of every level of the chain of a class.
chain_fields(c) ==
    UNION {declares[ancestors[c][i]] : i \in DOMAIN ancestors[c]}

\* Mutant: the fields of the bases are forgotten.
own_slots_concrete(a) ==
    IF table[a] = None THEN {} ELSE declares[table[a]] \cap owned

\* The own fields of an object, as the walks over d->parent meet them.
own_slots(a) ==
    IF table[a] = None THEN {} ELSE chain_fields(table[a]) \cap owned

\* The own fields whose memory anti_rt_Object_copy copies: those that are not
\* null and for which owned_at gives a size.
sized_slots(a) ==
    {f \in own_slots(a) :
        /\ ptr[a][f] # None
        /\ IF kind[f] = "ptr" THEN descriptor[f] # None ELSE len[a][f] > 0}

\* The objects that are being destroyed, and what the program can name: those,
\* what it holds, and what both own.
Torn      == {stack[i].object : i \in DOMAIN stack}
Named     == held \cup Torn
Reachable == Named \cup {x \in Addresses :
                \E a \in Named : \E f \in own_slots(a) : ptr[a][f] = x}

Top == stack[Len(stack)]

\* Program code runs: main, or the destruct body of a level.
InProgram ==
    stack # <<>> =>
        LET chain == ancestors[table[Top.object]]
        IN  Top.left < Len(chain) /\ chain[Top.left + 1] \in destructs

-----------------------------------------------------------------------------
(* What the program does itself.                                           *)

\* `alloc C { }`: malloc, then the literal with null in every pointer.
AllocObject(a, c) ==
    /\ malloc({a})
    /\ made' = made \cup {a}
    /\ table' = [table EXCEPT ![a] = c]
    /\ extent' = [extent EXCEPT ![a] = c]
    /\ held' = held \cup {a}
    /\ UNCHANGED <<frees, bytes, ptr, len, stack>>

\* `alloc(T, n)`: malloc of n elements.
AllocRaw(a, n) ==
    /\ malloc({a})
    /\ made' = made \cup {a}
    /\ bytes' = [bytes EXCEPT ![a] = n]
    /\ held' = held \cup {a}
    /\ UNCHANGED <<frees, table, extent, ptr, len, stack>>

\* A class pointer takes an object of the class it names, any other own field
\* takes memory without an object.
Fits(f, q) ==
    table[q] = IF kind[f] = "ptr" THEN descriptor[f] ELSE None

\* The program stores a block it holds into an own field that is null, and
\* not into a field of that block or of what it owns.
GiveOwn(p, f, q) ==
    /\ f \in owned /\ ptr[p][f] = None
    /\ q # p /\ Fits(f, q)
    /\ \A g \in own_slots(q) : ptr[q][g] # p
    /\ ptr' = [ptr EXCEPT ![p][f] = q]
    /\ len' = [len EXCEPT ![p][f] =
                 IF kind[f] = "slice" THEN bytes[q] \div width[f] ELSE 0]
    /\ held' = held \ {q}
    /\ UNCHANGED <<blockVars, frees, stack>>

\* The program takes the block out of an own field and writes null there.
TakeOwn(p, f) ==
    /\ f \in owned /\ ptr[p][f] # None
    /\ held' = held \cup {ptr[p][f]}
    /\ ptr' = [ptr EXCEPT ![p][f] = None]
    /\ len' = [len EXCEPT ![p][f] = 0]
    /\ UNCHANGED <<blockVars, frees, stack>>

\* The program stores an address into a pointer field that is not own.
Borrow(p, f, q) ==
    /\ f \notin owned /\ ptr[p][f] # q
    /\ table[q] = descriptor[f]
    /\ ptr' = [ptr EXCEPT ![p][f] = q]
    /\ UNCHANGED <<blockVars, frees, len, held, stack>>

\* `free(p)` of memory without an object.
FreeRaw(p) ==
    /\ table[p] = None
    /\ frees' = [frees EXCEPT ![p] = @ + 1]
    /\ held' = held \ {p}
    /\ UNCHANGED <<blockVars, ptr, len, stack>>

-----------------------------------------------------------------------------
(* The runtime.                                                            *)

\* Mutant: the pointer that memcpy copied stays when malloc fails.
copied_ptr_kept(p, at, f) == IF f \in DOMAIN at THEN at[f] ELSE ptr[p][f]

\* The pointers of a copy of p whose own fields got the blocks at: malloc
\* gives null where it fails.
copied_ptr(p, at, f) ==
    IF f \in DOMAIN at THEN at[f]
    ELSE IF f \in sized_slots(p) THEN None ELSE ptr[p][f]

\* Mutant: the bytes of a slice are counted from zero to the last one.
copied_bytes_short(p, f) == IF kind[f] = "slice" THEN len[p][f] - 1 ELSE 0

\* The size owned_at gives: the class of the field, or the length of the
\* slice taken as bytes.
copied_extent(f) == IF kind[f] = "ptr" THEN descriptor[f] ELSE None
copied_bytes(p, f) == IF kind[f] = "slice" THEN len[p][f] ELSE 0

\* The field of the object that the block x of a copy belongs to.
SlotOf(at, x) == CHOOSE f \in DOMAIN at : at[f] = x

\* anti_rt_dup with the copy entry of the root: a block of the size of the
\* class, all bytes of the object, then a block for each sized own field and
\* its bytes.  Each malloc of a field may fail; without memory for the object
\* dup gives null and does nothing.
DupInto(p, a, at) ==
    LET copies  == {at[f] : f \in DOMAIN at}
        from(x) == ptr[p][SlotOf(at, x)]
    IN
    /\ \A f, g \in DOMAIN at : at[f] = at[g] => f = g
    /\ malloc({a} \cup copies)
    /\ made' = made \cup {a} \cup copies
    /\ table' = [x \in Addresses |->
          IF x = a THEN table[p]
          ELSE IF x \in copies THEN table[from(x)] ELSE table[x]]
    /\ extent' = [x \in Addresses |->
          IF x = a THEN table[p]
          ELSE IF x \in copies THEN copied_extent(SlotOf(at, x)) ELSE extent[x]]
    /\ bytes' = [x \in Addresses |->
          IF x \in copies THEN copied_bytes(p, SlotOf(at, x)) ELSE bytes[x]]
    /\ ptr' = [x \in Addresses |->
          IF x = a THEN [f \in Fields |-> copied_ptr(p, at, f)]
          ELSE IF x \in copies THEN ptr[from(x)] ELSE ptr[x]]
    /\ len' = [x \in Addresses |->
          IF x = a THEN len[p]
          ELSE IF x \in copies THEN len[from(x)] ELSE len[x]]
    /\ held' = held \cup {a}
    /\ UNCHANGED <<frees, stack>>

dup(p) ==
    \E a \in Addresses \ made, slots \in SUBSET sized_slots(p) :
        \E at \in [slots -> Addresses \ (made \cup {a})] : DupInto(p, a, at)

\* destroy, and delete, which frees the object behind it, enter the loop over
\* the destruct bodies.
destroy(p, free) ==
    /\ Len(stack) < MaxDepth
    /\ table[p] # None
    /\ stack' = Append(stack, [object |-> p,
                               left |-> Len(ancestors[table[p]]), free |-> free])
    /\ held' = held \ {p}
    /\ UNCHANGED <<blockVars, frees, ptr, len>>

\* The body of the next level starts, the concrete one first.  The one before
\* it has returned.
NextBody ==
    /\ stack # <<>>
    /\ Top.left > 0
    /\ stack' = [stack EXCEPT ![Len(stack)].left = @ - 1]
    /\ UNCHANGED <<blockVars, frees, ptr, len, held>>

\* Mutant: the slot keeps its pointer after the free.
cleared_none(p) == ptr

\* The own fields are null after their memory is freed.
cleared(p) ==
    [ptr EXCEPT ![p] = [f \in Fields |-> IF f \in own_slots(p) THEN None ELSE @[f]]]

\* After the last body: free and clear each own field, then the object when
\* the call was delete.
FreeOwned ==
    /\ stack # <<>>
    /\ Top.left = 0
    /\ LET p == Top.object
           freed(x) == {f \in own_slots(p) : ptr[p][f] = x}
       IN  /\ frees' = [x \in Addresses |->
                 frees[x] + Cardinality(freed(x))
                   + (IF Top.free /\ x = p THEN 1 ELSE 0)]
           /\ ptr' = cleared(p)
           /\ held' = IF Top.free THEN held ELSE held \cup {p}
    /\ stack' = SubSeq(stack, 1, Len(stack) - 1)
    /\ UNCHANGED <<blockVars, len>>

-----------------------------------------------------------------------------
Init ==
    /\ made = {}
    /\ frees = [a \in Addresses |-> 0]
    /\ table = [a \in Addresses |-> None]
    /\ extent = [a \in Addresses |-> None]
    /\ bytes = [a \in Addresses |-> 0]
    /\ ptr = [a \in Addresses |-> [f \in Fields |-> None]]
    /\ len = [a \in Addresses |-> [f \in Fields |-> 0]]
    /\ held = {}
    /\ stack = <<>>

\* What program code can do: with a block malloc gives, with a block it holds,
\* or with an object it can name.
ProgramStep ==
    /\ InProgram
    /\ \/ \E a \in Addresses \ made : \/ \E c \in Allocated : AllocObject(a, c)
                                    \/ \E n \in RawSizes : AllocRaw(a, n)
       \/ \E p \in held : FreeRaw(p) \/ destroy(p, TRUE) \/ destroy(p, FALSE)
       \/ \E p \in {x \in Reachable : table[x] # None} :
             \/ dup(p)
             \/ \E f \in chain_fields(table[p]) :
                   \/ TakeOwn(p, f)
                   \/ \E q \in held : GiveOwn(p, f, q)
                   \/ \E q \in Reachable : Borrow(p, f, q)

Next == ProgramStep \/ NextBody \/ FreeOwned

Spec == Init /\ [][Next]_vars

-----------------------------------------------------------------------------
\* The classes the field list says enough of: an own class pointer names a
\* class without own fields, every other own field is a slice of bytes, and no
\* memory is empty.  Beyond them a copy is shared, cut or not deep.
Flat ==
    /\ 0 \notin RawSizes
    /\ \A f \in owned :
          IF kind[f] = "ptr"
          THEN descriptor[f] # None /\ chain_fields(descriptor[f]) \cap owned = {}
          ELSE width[f] = 1

\* The own fields of live objects that are not null.
OwnRefs == {r \in made \X owned :
              /\ live(r[1]) /\ table[r[1]] # None
              /\ r[2] \in chain_fields(table[r[1]])
              /\ ptr[r[1]][r[2]] # None}
Owned   == {ptr[r[1]][r[2]] : r \in OwnRefs}

\* Nothing has two owners: of the program, the calls of destroy and the own
\* fields of live objects, at most one is to free a block.  A copy by dup
\* would break it when it shared memory with its original.
OneOwner ==
    /\ \A r, s \in OwnRefs : ptr[r[1]][r[2]] = ptr[s[1]][s[2]] => r = s
    /\ Owned \cap Named = {}
    /\ held \cap Torn = {}
    /\ \A i, k \in DOMAIN stack : stack[i].object = stack[k].object => i = k

\* No block is freed twice, by whatever sequence of dup, destroy and delete,
\* from main and from destruct bodies.
FreedOnce == \A x \in Addresses : frees[x] <= 1

\* Every block that lives has an owner, so that a program that deletes all it
\* holds has freed all memory.
NoLeak == \A x \in made : live(x) => x \in Named \/ x \in Owned

\* What an own field or the program refers to lives and is as large as its
\* type says: an object all of its class, a slice all of its elements.  So a
\* destruct body reads what it owns, and a copy is read like its original.
OwnedIsWhole ==
    /\ \A x \in Named \cup Owned : live(x) /\ extent[x] = table[x]
    /\ \A r \in OwnRefs : kind[r[2]] = "slice" =>
          len[r[1]][r[2]] * width[r[2]] <= bytes[ptr[r[1]][r[2]]]

=============================================================================
