--------------------------- MODULE MemoryManager ---------------------------
(***************************************************************************)
(* malloc and free of DBVM (dbvm/vmm/mm.c): a linked list of regions whose *)
(* descriptors are placed in the memory they describe.  malloc runs inside *)
(* mallocCS; free is one store.  Sizes are in units of 4 bytes, to which   *)
(* malloc rounds up.                                                       *)
(*                                                                         *)
(* An allocation of a page or more skips memory up to the next page.  What *)
(* is skipped stays counted in the free region behind it, or is added to   *)
(* whatever region is before it in the list: "skipped" records that this   *)
(* has happened.  Out of memory, malloc leaves a descriptor whose base and *)
(* size were never set: "unset" records that.                              *)
(***************************************************************************)
EXTENDS Integers, TLC

CONSTANTS
    MM_Base,      \* BaseVirtualAddress
    MM_Size,      \* what InitializeMM is given
    MM_Desc,      \* sizeof(MemlistItem)
    MM_Page,      \* 4096 bytes
    MM_Slack,     \* the 16 bytes of findFreeRegion
    MM_Width,     \* 2^32: regionsize is an unsigned int
    MM_Sizes,     \* sizes that are asked for
    MM_MaxCalls   \* bound on the calls of malloc and free

ASSUME MMAssumption ==
    /\ MM_Base \in Nat \ {0} /\ MM_Desc \in Nat \ {0} /\ MM_Page \in Nat \ {0}
    /\ MM_Size > MM_Desc /\ MM_Sizes \subseteq Nat

VARIABLES
    item,         \* the descriptors, by their address
    memorylist,   \* the first of them
    pending,      \* the size malloc is to find for the descriptor it has made
    handed,       \* base and size of the allocations that were not freed
    skipped, unset,
    mmCalls

mmVars == <<item, memorylist, pending, handed, skipped, unset, mmCalls>>

Null == 0
NoMalloc == [at |-> 0, size |-> 0]
Free == 0
Used == 1

-----------------------------------------------------------------------------
\* The first descriptor in the order of the list that is in D, or Null
FirstOf(D) ==
    LET from[d \in DOMAIN item \cup {Null}] ==
            IF d = Null \/ d \in D THEN d ELSE from[item[d].next]
    IN  from[memorylist]

\* What is missing to the next page
ToPage(a) == (MM_Page - (a % MM_Page)) % MM_Page

\* The candidate is big enough once its base is on a page
FitsAligned(i, size) ==
    LET difference == ToPage(i.base)
        taken == IF difference < MM_Desc + MM_Slack THEN difference + MM_Page ELSE difference
    IN  (i.size - taken) % MM_Width >= size

Candidate(i, size) ==
    /\ i.type = Free /\ i.size >= size
    /\ size >= MM_Page => FitsAligned(i, size)

findFreeRegion(size) == FirstOf({d \in DOMAIN item : Candidate(item[d], size)})

-----------------------------------------------------------------------------
NewItem(base, size, type) ==
    [base |-> base, size |-> size, type |-> type, next |-> Null, previous |-> Null]

\* Descriptor n, with the contents i, is put into the list f before d
Insert(f, n, i, d) ==
    LET p == f[d].previous
    IN  [a \in DOMAIN f \cup {n} |->
            CASE a = n -> [i EXCEPT !.previous = p, !.next = d]
              [] a = d -> [f[d] EXCEPT !.previous = n]
              [] a = p -> [f[p] EXCEPT !.next = n]
              [] OTHER -> f[a]]

\* memorylist=newdescriptor, if there is none before it
FirstIs(n, d) == IF item[d].previous = Null THEN n ELSE memorylist

Counted == mmCalls < MM_MaxCalls /\ mmCalls' = mmCalls + 1

\* size+=(4 - (size % 4)) % 4; if (size==0) size=4
Rounded(size) == IF size = 0 THEN 1 ELSE size

-----------------------------------------------------------------------------
\* malloc finds no region that a descriptor could be placed in
MallocNoDescriptor ==
    /\ pending = NoMalloc /\ findFreeRegion(MM_Desc) = Null
    /\ Counted
    /\ UNCHANGED <<item, memorylist, pending, handed, skipped, unset>>

\* It places the descriptor at the start of the region, and the region starts later
MallocDescriptor(size) ==
    LET d == findFreeRegion(MM_Desc)
        n == item[d].base
        rest == [item EXCEPT ![d].base = @ + MM_Desc, ![d].size = @ - MM_Desc]
    IN  /\ pending = NoMalloc /\ d # Null
        /\ item' = Insert(rest, n, NewItem(0, 0, Used), d)
        /\ memorylist' = FirstIs(n, d)
        /\ pending' = [at |-> n, size |-> Rounded(size)]
        /\ Counted
        /\ UNCHANGED <<handed, skipped, unset>>

\* Mutant: region d keeps its size.
Given_unsized(f, n, d, base, size, totalsize) ==
    [f EXCEPT ![n].base = base, ![n].size = size, ![d].base = base + size]

\* Region d gives the memory to descriptor n
Given(f, n, d, base, size, totalsize) ==
    [f EXCEPT ![n].base = base, ![n].size = size, ![d].base = base + size, ![d].size = @ - totalsize]

Returned(base, size) ==
    /\ handed' = handed \cup {[base |-> base, size |-> size]}
    /\ pending' = NoMalloc
    /\ UNCHANGED <<unset, mmCalls>>

\* ... less than a page
MallocSmall ==
    LET n == pending.at
        d == findFreeRegion(pending.size)
    IN  /\ pending # NoMalloc /\ pending.size < MM_Page /\ d # Null
        /\ item' = Given(item, n, d, item[d].base, pending.size, pending.size)
        /\ Returned(item[d].base, pending.size)
        /\ UNCHANGED <<memorylist, skipped>>

\* ... a page or more, and what is skipped is too little for a descriptor: it is added
\* to the region before n in the list
MallocPageGives ==
    LET n == pending.at
        d == findFreeRegion(pending.size)
        difference == ToPage(item[d].base)
        p == item[n].previous
    IN  /\ pending # NoMalloc /\ pending.size >= MM_Page /\ d # Null
        /\ difference < 1 + MM_Desc
        /\ item' = Given(IF p = Null THEN item ELSE [item EXCEPT ![p].size = @ + difference],
                         n, d, item[d].base + difference, pending.size, pending.size + difference)
        /\ Returned(item[d].base + difference, pending.size)
        /\ skipped' = (skipped \/ difference > 0)
        /\ UNCHANGED memorylist

\* ... or it becomes a free region of its own, and is not taken off region d
MallocPageKeeps ==
    LET n == pending.at
        d == findFreeRegion(pending.size)
        base == item[d].base
        difference == ToPage(base)
    IN  /\ pending # NoMalloc /\ pending.size >= MM_Page /\ d # Null
        /\ difference >= 1 + MM_Desc
        /\ item' = Given(Insert(item, base, NewItem(base + MM_Desc, difference - MM_Desc, Free), n),
                         n, d, base + difference, pending.size, pending.size)
        /\ memorylist' = FirstIs(base, n)
        /\ Returned(base + difference, pending.size)
        /\ skipped' = TRUE

\* "!!!OUT OF MEMORY!!!"
MallocNoMemory ==
    /\ pending # NoMalloc /\ findFreeRegion(pending.size) = Null
    /\ pending' = NoMalloc
    /\ unset' = TRUE
    /\ UNCHANGED <<item, memorylist, handed, skipped, mmCalls>>

\* free: the first region with that base
FreeRegion(h) ==
    LET d == FirstOf({a \in DOMAIN item : item[a].base = h.base}) IN
    /\ item' = IF d = Null THEN item ELSE [item EXCEPT ![d].type = Free]
    /\ handed' = handed \ {h}
    /\ Counted
    /\ UNCHANGED <<memorylist, pending, skipped, unset>>

-----------------------------------------------------------------------------
\* InitializeMM
MM_Init ==
    /\ item = (MM_Base :> NewItem(MM_Base + MM_Desc, MM_Size - MM_Desc, Free))
    /\ memorylist = MM_Base
    /\ pending = NoMalloc /\ handed = {}
    /\ skipped = FALSE /\ unset = FALSE
    /\ mmCalls = 0

MM_Next ==
    \/ \E size \in MM_Sizes : MallocDescriptor(size)
    \/ MallocNoDescriptor \/ MallocSmall \/ MallocPageGives \/ MallocPageKeeps \/ MallocNoMemory
    \/ \E h \in handed : FreeRegion(h)

MM_Spec == MM_Init /\ [][MM_Next]_mmVars

-----------------------------------------------------------------------------
\* The state is of the declared types
MM_TypeOK ==
    /\ memorylist \in DOMAIN item
    /\ \A d \in DOMAIN item :
         /\ item[d].base \in Nat /\ item[d].type \in {Free, Used}
         /\ skipped \/ item[d].size \in Nat
         /\ {item[d].next, item[d].previous} \subseteq DOMAIN item \cup {Null}
    /\ pending = NoMalloc \/ pending.at \in DOMAIN item
    /\ skipped \in BOOLEAN /\ unset \in BOOLEAN

Span(base, size) == base..(base + size - 1)

\* Before memory is skipped, or runs out, the descriptors and the regions they describe
\* share no memory, and all the memory is one or the other: malloc hands out memory that
\* nobody has, and none is lost however it is freed and split.
MemoryIsPartitioned ==
    ~skipped /\ ~unset =>
        LET parts == {Span(d, MM_Desc) : d \in DOMAIN item}
                     \cup {Span(item[d].base, item[d].size) : d \in DOMAIN item}
        IN  /\ UNION parts = Span(MM_Base, MM_Size)
            /\ \A d, e \in DOMAIN item :
                  /\ d # e => Span(item[d].base, item[d].size) \cap Span(item[e].base, item[e].size) = {}
                  /\ d # e => Span(d, MM_Desc) \cap Span(e, MM_Desc) = {}
                  /\ Span(d, MM_Desc) \cap Span(item[e].base, item[e].size) = {}

\* What malloc returned and was not freed is a used region, of at least that size
HandedIsUsed ==
    ~skipped /\ ~unset =>
        \A h \in handed : \E d \in DOMAIN item :
            item[d].base = h.base /\ item[d].size >= h.size /\ item[d].type = Used

\* What was freed can be handed out again: a region is used only by what was not
\* freed.  It does not hold, and no run checks it ("don't call too often, it'll
\* eventually mess up your memory", mm.c:239): free marks the first region with that
\* base, which may be one before it in the list that malloc has used up.
FreedIsFree ==
    ~skipped /\ ~unset =>
        \A d \in DOMAIN item : item[d].type = Used /\ d # pending.at =>
            \E h \in handed : h.base = item[d].base

\* "if equal or bigger than 4096 bytes align on a page boundary"
PagesAligned == \A h \in handed : h.size >= MM_Page => h.base % MM_Page = 0

\* The list leads to every descriptor and back
ListIsLinked ==
    ~skipped /\ ~unset =>
        /\ item[memorylist].previous = Null
        /\ \A d \in DOMAIN item :
              /\ item[d].next # Null => item[item[d].next].previous = d
              /\ d # memorylist => item[d].previous # Null /\ item[item[d].previous].next = d

\* What malloc and free promise: memory is handed out once and none is lost, pages are
\* aligned, and the list that says so stays whole.
HeapIsSound == MemoryIsPartitioned /\ HandedIsUsed /\ PagesAligned /\ ListIsLinked
=============================================================================
