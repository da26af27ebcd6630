---------------------------- MODULE RegionQuery ----------------------------
(***************************************************************************)
(* VirtualQueryExFull and VirtualQueryEx of ceserver (ceserver/api.c) and  *)
(* the two commands that call them.  The memory map of a process is read   *)
(* from /proc line by line and, for VQE_PAGEDONLY, its pages a chunk at a  *)
(* time, while the process maps, unmaps, pages out, or ends.               *)
(*                                                                         *)
(* An address is a page.  What the kernel promises of the files is taken   *)
(* from how the code reads them: regions come in the order of their        *)
(* addresses, and one that is there all the time comes.                    *)
(***************************************************************************)
EXTENDS Integers, Sequences, FiniteSets, FiniteSetsExt

CONSTANTS
    RQ_Pages,         \* number of pages of the address space
    RQ_Regions,       \* regions the process may map: [start, stop, perm], perm \subseteq "wxs"
    RQ_Chunk,         \* pagemap entries that are read at once: 512
    RQ_InitMax,       \* initial length of the list: 64 or 128
    RQ_Flags,         \* flags of the calls: subsets of {"paged", "dirty", "noshared"}
    RQ_MaxChanges,    \* bound on the steps of the process
    RQ_MaxFails       \* bound on the preads that fail

Addresses == 0..(RQ_Pages - 1)
PagesOf(r) == r.start..(r.stop - 1)

ASSUME RQAssumption ==
    /\ RQ_Chunk \in Nat \ {0} /\ RQ_InitMax \in Nat \ {0}
    /\ \A r \in RQ_Regions : r.start < r.stop /\ PagesOf(r) \subseteq Addresses

VARIABLES
    map,         \* regions that the process has mapped
    present,     \* pages that are in memory
    dirtied,     \* regions with dirty pages
    exists,     \* the process has not ended
    full,        \* the call of VirtualQueryExFull
    entries,     \* pagemap_entries
    one,         \* the call of VirtualQueryEx
    ever,        \* pages that had a property at some time of the call
    always,      \* pages that had it all the time
    rqCount      \* changes of the process, and preads that failed

rqProcess == <<map, present, dirtied, exists>>
rqHistory == <<ever, always>>
rqVars == <<rqProcess, full, entries, one, rqHistory, rqCount>>

Unread == << >>
NoRegion == [start |-> 0, stop |-> 0, perm |-> {}, dirty |-> FALSE]

-----------------------------------------------------------------------------
\* ProtectionStringToType and ProtectionStringToProtection
Type(perm) == IF "s" \in perm THEN "MEM_MAPPED" ELSE "MEM_PRIVATE"
Protection(perm) == perm \cap {"w", "x"}

\* "some checks to see if it passed"
Passed(flags, r) ==
    /\ "noshared" \in flags => Type(r.perm) # "MEM_MAPPED"
    /\ "dirty" \in flags => r.dirty

Snapshot(r) == [start |-> r.start, stop |-> r.stop, perm |-> r.perm, dirty |-> r \in dirtied]

\* What the next line may be, after the file was read up to address a, with its info
\* lines; none at the end
NextLines(a) ==
    LET rest == {r \in map : exists /\ r.start >= a}
    IN  IF rest = {} THEN {NoRegion}
        ELSE {Snapshot(r) : r \in {q \in rest : \A p \in rest : q.start <= p.start}}

-----------------------------------------------------------------------------
\* What the call would list of the process as it is: the pages of its regions that
\* pass; one that starts at address 0 is taken for none
Mapped(m, d, flags) ==
    UNION {PagesOf(r) : r \in {q \in m : q.start # 0 /\
                                 Passed(flags, [perm |-> q.perm, dirty |-> q \in d])}}
InMemory(p, flags) == IF "paged" \in flags THEN p ELSE Addresses

\* The history of the call, with the process as it becomes
Remember ==
    LET m == IF exists' THEN Mapped(map', dirtied', full.flags) ELSE {}
        p == InMemory(present', full.flags)
    IN  /\ ever' = [mapped |-> ever.mapped \cup m, present |-> ever.present \cup p,
                    any |-> ever.any \cup UNION {PagesOf(r) : r \in map'}]
        /\ always' = [mapped |-> always.mapped \cap m, present |-> always.present \cap p,
                      any |-> always.any \cap UNION {PagesOf(r) : r \in map'}]

\* The history of a call that begins
BeginHistory(flags) ==
    LET h == [mapped |-> Mapped(map, dirtied, flags), present |-> InMemory(present, flags),
              any |-> UNION {PagesOf(r) : r \in map}]
    IN  ever' = h /\ always' = h

-----------------------------------------------------------------------------
\* The process goes on during a call; what it did before is in RQ_Init
Changes ==
    /\ full.at \in {"lines", "pages"} \/ one.at = "lines"
    /\ exists /\ rqCount.changes < RQ_MaxChanges
    /\ rqCount' = [rqCount EXCEPT !.changes = @ + 1]
    /\ Remember
    /\ UNCHANGED <<full, entries, one>>

Map(r) ==
    /\ \A q \in map : PagesOf(q) \cap PagesOf(r) = {}
    /\ map' = map \cup {r}
    /\ UNCHANGED <<present, dirtied, exists>>
    /\ Changes

Unmap(r) ==
    /\ map' = map \ {r} /\ dirtied' = dirtied \ {r}
    /\ present' = present \ PagesOf(r)
    /\ UNCHANGED exists
    /\ Changes

\* A page comes in, by a write or not, or goes out
PageIn(r, p, write) ==
    /\ p \in PagesOf(r) \ present
    /\ present' = present \cup {p}
    /\ dirtied' = IF write THEN dirtied \cup {r} ELSE dirtied
    /\ UNCHANGED <<map, exists>>
    /\ Changes

PageOut(p) ==
    /\ present' = present \ {p}
    /\ UNCHANGED <<map, dirtied, exists>>
    /\ Changes

Ends ==
    /\ exists' = FALSE /\ map' = {} /\ present' = {} /\ dirtied' = {}
    /\ Changes

EndsBefore ==
    /\ full.at = "idle" /\ one.at = "idle" /\ exists
    /\ exists' = FALSE /\ map' = {} /\ present' = {} /\ dirtied' = {}
    /\ UNCHANGED <<full, entries, one, rqHistory, rqCount>>

-----------------------------------------------------------------------------

\* AddToRegionList: the list has room for one more when it returns
AddToRegionList(q, e) ==
    LET pos == Len(q.list) + 1
    IN  [q EXCEPT !.list = Append(@, e), !.max = IF pos >= @ THEN 2 * @ ELSE @]

Entry(base, size, r) ==
    [base |-> base, size |-> size, type |-> Type(r.perm), protection |-> Protection(r.perm)]

\* fopen of smaps, and open of pagemap if the flags ask for it; no answer is sent when
\* it fails
VirtualQueryExFull(flags) ==
    /\ full.at = "idle" /\ one.at = "idle"
    /\ full' = [at |-> IF exists THEN "lines" ELSE "failed", flags |-> flags, from |-> 0,
                block |-> NoRegion, next |-> NoRegion, current |-> 0, list |-> << >>,
                max |-> RQ_InitMax]
    /\ BeginHistory(flags)
    /\ UNCHANGED <<rqProcess, entries, one, rqCount>>

\* The block was dealt with; the next one is "a new clean block"
NextBlock(q, n) ==
    [q EXCEPT !.at = IF n = NoRegion THEN "listed" ELSE "lines", !.block = n, !.next = n,
              !.from = n.stop, !.current = 0]

\* A line that begins a region, or the end of the file: the block before it is complete
ReadLine ==
    /\ full.at = "lines"
    /\ \E n \in NextLines(full.from) :
          LET b == full.block IN
          full' = IF b.start = 0 \/ ~Passed(full.flags, b) THEN NextBlock(full, n)
                  ELSE IF "paged" \in full.flags
                  THEN [full EXCEPT !.at = "pages", !.current = b.start, !.next = n]
                  ELSE NextBlock(AddToRegionList(full, Entry(b.start, b.stop - b.start, b)), n)
    /\ UNCHANGED <<rqProcess, entries, one, rqHistory, rqCount>>

\* Mutant: the run that the chunk ends with is not added.
RunsOf_open(e, n) ==
    LET first(i) == e[i] /\ (i = 1 \/ ~e[i - 1]) /\ \E j \in i..n : ~e[j]
        last(i) == Min({j \in i..(n - 1) : ~e[j + 1]})
        starts == SelectSeq([i \in 1..n |-> i], first)
    IN  [k \in 1..Len(starts) |-> [at |-> starts[k] - 1, size |-> last(starts[k]) - starts[k] + 1]]

\* The runs of present pages among the first n entries, as the loop over them finds them
RunsOf(e, n) ==
    LET first(i) == e[i] /\ (i = 1 \/ ~e[i - 1])
        last(i) == Min({j \in i..n : j = n \/ ~e[j + 1]})
        starts == SelectSeq([i \in 1..n |-> i], first)
    IN  [k \in 1..Len(starts) |-> [at |-> starts[k] - 1, size |-> last(starts[k]) - starts[k] + 1]]

\* ... each added to the list
AddRuns(runs) ==
    LET run(k) == Entry(full.current + runs[k].at, runs[k].size, full.block)
        added[k \in 0..Len(runs)] ==
            IF k = 0 THEN full ELSE AddToRegionList(added[k - 1], run(k))
    IN  added[Len(runs)]

\* The entries that one pread asks for
ChunkSize == Min({full.block.stop - full.current, RQ_Chunk})

\* current+=pagecount*pagesize
Advance(q, n) ==
    IF q.current + n < q.block.stop THEN [q EXCEPT !.current = @ + n] ELSE NextBlock(q, q.next)

\* pread: a process that has ended has no entries, and then those of before are looked
\* at, or whatever malloc returned
ReadPagemap ==
    LET new == IF exists THEN 1..ChunkSize ELSE {} IN
    /\ full.at = "pages"
    /\ entries' \in {e \in [1..RQ_Chunk -> BOOLEAN] : \A i \in 1..RQ_Chunk :
                       IF i \in new THEN e[i] <=> full.current + i - 1 \in present
                       ELSE entries # Unread => e[i] = entries[i]}
    /\ full' = Advance(AddRuns(RunsOf(entries', ChunkSize)), ChunkSize)
    /\ UNCHANGED <<rqProcess, one, rqHistory, rqCount>>

\* pread returns -1: "current" stays, and the loop tries again
ReadPagemapFails ==
    /\ full.at = "pages" /\ rqCount.fails < RQ_MaxFails
    /\ rqCount' = [rqCount EXCEPT !.fails = @ + 1]
    /\ UNCHANGED <<rqProcess, full, entries, one, rqHistory>>

\* CMD_VIRTUALQUERYEXFULL sends the list
SendList ==
    /\ full.at = "listed"
    /\ full' = [full EXCEPT !.at = "sent"]
    /\ UNCHANGED <<rqProcess, entries, one, rqHistory, rqCount>>

-----------------------------------------------------------------------------
\* fopen of maps
VirtualQueryEx(a) ==
    /\ full.at = "idle" /\ one.at = "idle"
    /\ one' = [at |-> IF exists THEN "lines" ELSE "sent", base |-> a, from |-> 0, found |-> FALSE,
               size |-> 0, free |-> FALSE, type |-> "none", protection |-> {}]
    /\ BeginHistory({})
    /\ UNCHANGED <<rqProcess, full, entries, rqCount>>

\* One line of it, until the region that ends after the address
ReadMapsLine ==
    /\ one.at = "lines"
    /\ \E n \in NextLines(one.from) :
          one' = IF n = NoRegion THEN [one EXCEPT !.at = "sent"]
                 ELSE IF n.stop <= one.base THEN [one EXCEPT !.from = n.stop]
                 ELSE IF n.start <= one.base
                 THEN [one EXCEPT !.at = "sent", !.found = TRUE, !.size = n.stop - one.base,
                                  !.type = Type(n.perm), !.protection = Protection(n.perm)]
                 ELSE [one EXCEPT !.at = "sent", !.found = TRUE, !.size = n.start - one.base,
                                  !.free = TRUE]
    /\ UNCHANGED <<rqProcess, full, entries, rqHistory, rqCount>>

-----------------------------------------------------------------------------
RQ_Init ==
    /\ map \in {m \in SUBSET RQ_Regions :
                   \A q, r \in m : q = r \/ PagesOf(q) \cap PagesOf(r) = {}}
    /\ present \in SUBSET UNION {PagesOf(r) : r \in map}
    /\ dirtied = {r \in map : PagesOf(r) \cap present # {} /\ "w" \in r.perm}
    /\ exists = TRUE
    /\ full = [at |-> "idle", flags |-> {}, from |-> 0, block |-> NoRegion, next |-> NoRegion,
               current |-> 0, list |-> << >>, max |-> RQ_InitMax]
    /\ entries = Unread
    /\ one = [at |-> "idle", base |-> 0, from |-> 0, found |-> FALSE, size |-> 0, free |-> FALSE,
              type |-> "none", protection |-> {}]
    /\ ever = [mapped |-> {}, present |-> {}, any |-> {}]
    /\ always = ever
    /\ rqCount = [changes |-> 0, fails |-> 0]

QueryStep == ReadLine \/ ReadPagemap \/ SendList \/ ReadMapsLine

ProcessStep ==
    \/ \E r \in RQ_Regions : Map(r)
    \/ \E r \in map : Unmap(r) \/ \E p \in PagesOf(r) : \E w \in BOOLEAN : PageIn(r, p, w)
    \/ \E p \in present : PageOut(p)
    \/ Ends \/ EndsBefore

RQ_Next ==
    \/ \E flags \in RQ_Flags : VirtualQueryExFull(flags)
    \/ \E a \in Addresses : VirtualQueryEx(a)
    \/ QueryStep \/ ReadPagemapFails \/ ProcessStep

RQ_Spec == RQ_Init /\ [][RQ_Next]_rqVars

-----------------------------------------------------------------------------
\* The state is of the declared types
RQ_TypeOK ==
    /\ map \subseteq RQ_Regions /\ dirtied \subseteq map /\ present \subseteq Addresses
    /\ exists \in BOOLEAN
    /\ full.at \in {"idle", "lines", "pages", "listed", "sent", "failed"}
    /\ full.flags \subseteq {"paged", "dirty", "noshared"}
    /\ full.from \in 0..RQ_Pages /\ full.current \in 0..RQ_Pages
    /\ entries \in [1..RQ_Chunk -> BOOLEAN] \cup {Unread}
    /\ one.at \in {"idle", "lines", "sent"} /\ one.size \in Nat

Listed == {full.list[k] : k \in DOMAIN full.list}
ListedPages == UNION {e.base..(e.base + e.size - 1) : e \in Listed}

\* AddToRegionList writes inside the list, also after a chunk that adds several
RegionListHasRoom == Len(full.list) < full.max

\* The list is in the order of the addresses and no two entries overlap, whatever the
\* process maps and unmaps meanwhile
ListAscends ==
    \A k \in 1..(Len(full.list) - 1) :
        full.list[k].base + full.list[k].size <= full.list[k + 1].base

\* The list is complete: a page that the flags ask for throughout the call is in it.  It
\* is sound: a page in it was mapped and in memory at some time of the call.
ListIsRight ==
    full.at \in {"listed", "sent"} /\ exists =>
        /\ always.mapped \cap always.present \subseteq ListedPages
        /\ ListedPages \subseteq ever.mapped \cap ever.present

\* VirtualQueryEx moves on: who continues at base + size comes to an end.  Memory it
\* says is free was not mapped all the time, and the other way around.
AnswerIsRight ==
    one.at = "sent" /\ one.found =>
        /\ one.size > 0
        /\ LET range == one.base..(one.base + one.size - 1)
           IN  IF one.free THEN range \cap always.any = {} ELSE range \subseteq ever.any

\* A query ends, and its list is sent, if pread does not fail for ever
QueryEnds ==
    /\ []<>(full.at \notin {"lines", "pages", "listed"})
    /\ []<>(one.at # "lines")

\* The list VirtualQueryExFull sends is that of the process, although the process
\* changes while it is read: in order, without overlaps, sound and complete.
ListingIsRight == ListIsRight /\ ListAscends /\ RegionListHasRoom

\* Both queries of the memory map are answered rightly while the process changes
QueriesAreRight == ListingIsRight /\ AnswerIsRight
=============================================================================
