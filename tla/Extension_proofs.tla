------------------------- MODULE Extension_proofs -------------------------
(***************************************************************************)
(* Proofs about the calls of the library ceserver loads into a target      *)
(* (Extension): an answer is the answer of the call that reads it, and the *)
(* library knows the blocks it has given out, each once.                   *)
(***************************************************************************)
EXTENDS Extension, TLAPS

Places == EX_Addresses \cup {EX_Failed}

Callers == [at : {"idle", "load", "inject", "open", "loaded", "lock", "send", "recv", "dead"},
            call : Nat, cmd : Commands \cup {"none"}, block : Places, size : 0 .. 2, got : Nat]

Entries == [address : Places, size : {1, 2}]

EX_Types ==
    /\ process \in [alive : BOOLEAN, listening : BOOLEAN]
    /\ pdata \in [loaded : BOOLEAN, fd : BOOLEAN, mutex : EX_Clients \cup {EX_Nobody}]
    /\ caller \in [EX_Clients -> Callers]
    /\ toExt \in Seq(Callers) /\ fromExt \in Seq([call : Nat, block : Places])
    /\ allocList \in [list : Seq(Entries), max : Nat]
    /\ mapped \subseteq Blocks /\ held \subseteq Blocks
    /\ exCount \in [calls : Nat, opened : Nat]
    /\ \A c \in EX_Clients : /\ caller[c].cmd = "ALLOC" => caller[c].size \in {1, 2}
                             /\ caller[c].cmd = "FREE" => caller[c].block \in EX_Addresses

\* One command or the words of its answer are under way, for the holder of the mutex
EX_Exchange ==
    /\ \A c \in EX_Clients :
          /\ caller[c].at \in {"inject", "open", "send", "recv"} => pdata.mutex = c
          /\ caller[c].at # "recv" => caller[c].got = 0
    /\ ~process.alive => toExt = <<>>
    /\ toExt # <<>> => /\ fromExt = <<>>
                       /\ \E c \in EX_Clients : /\ caller[c].at = "recv" /\ caller[c].got = 0
                                                /\ toExt = <<[caller[c] EXCEPT !.at = "send"]>>
    /\ fromExt # <<>> => \E c \in EX_Clients : caller[c].at = "recv"
    /\ \A c \in EX_Clients : caller[c].at = "recv" =>
          /\ toExt = <<>> => caller[c].got + Len(fromExt) <= AnswerSize(caller[c].cmd)
          /\ \A k \in 1 .. Len(fromExt) : fromExt[k].call = caller[c].call

\* Who may open the connection has found none open
EX_Opened ==
    /\ exCount.opened <= 1
    /\ exCount.opened = 1 => pdata.loaded
    /\ \A c \in EX_Clients : caller[c].at \in {"inject", "open"} => exCount.opened = 0

\* The list has the mapped blocks, each once, and entries for MAP_FAILED
EX_Listed ==
    /\ allocList.max = 0 => Len(allocList.list) = 0
    /\ allocList.max > 0 => Len(allocList.list) < allocList.max
    /\ \A j, k \in 1 .. Len(allocList.list) :
          /\ allocList.list[j].address = allocList.list[k].address
          /\ allocList.list[j].address # EX_Failed
          => j = k
    /\ \A j \in 1 .. Len(allocList.list) :
          allocList.list[j].address # EX_Failed => allocList.list[j] \in mapped
    /\ \A b \in mapped : \E j \in 1 .. Len(allocList.list) : allocList.list[j] = b

\* The library has not got to the command
FreePending(c) ==
    /\ caller[c].cmd = "FREE"
    /\ \/ caller[c].at \in {"load", "inject", "open", "loaded", "lock", "send"}
       \/ caller[c].at = "recv" /\ toExt # <<>>

\* A block is held by the clients, being given out or being given back, never two of these
EX_Given ==
    process.alive =>
       /\ held \subseteq mapped
       /\ \A c \in EX_Clients : FreePending(c) =>
             \E b \in mapped \ held :
                b.address = caller[c].block /\ caller[c].size \in {0, b.size}
       /\ \A c, d \in EX_Clients : FreePending(c) /\ FreePending(d) /\ c # d =>
             caller[c].block # caller[d].block
       /\ \A c \in EX_Clients : caller[c].at = "recv" /\ caller[c].cmd = "ALLOC" =>
             \A k \in 1 .. Len(fromExt) : fromExt[k].block # EX_Failed =>
                /\ [address |-> fromExt[k].block, size |-> caller[c].size] \in mapped \ held
                /\ \A d \in EX_Clients : FreePending(d) => caller[d].block # fromExt[k].block

EX_Inv == EX_Types /\ EX_Exchange /\ EX_Opened /\ EX_Listed /\ EX_Given

-----------------------------------------------------------------------------
\* What is known of sequences
LEMMA EX_ElementOf ==
    ASSUME NEW S, NEW s \in Seq(S), NEW n \in 1 .. Len(s)
    PROVE  s[n] \in S
  OBVIOUS

\* The empty sequence is one over every set, and the others have elements
LEMMA EX_EmptySeq ==
    ASSUME NEW S
    PROVE  /\ <<>> \in Seq(S) /\ Len(<<>>) = 0
           /\ \A s \in Seq(S) : s # <<>> => Len(s) \in Nat \ {0}
  OBVIOUS

\* The elements of a concatenation
LEMMA EX_Concat ==
    ASSUME NEW S, NEW s \in Seq(S), NEW u \in Seq(S)
    PROVE  /\ s \o u \in Seq(S) /\ Len(s \o u) = Len(s) + Len(u)
           /\ \A k \in 1 .. Len(s) + Len(u) :
                 (s \o u)[k] = IF k <= Len(s) THEN s[k] ELSE u[k - Len(s)]
  OBVIOUS

\* The empty sequence adds nothing
LEMMA EX_ConcatEmpty ==
    ASSUME NEW S, NEW s \in Seq(S)
    PROVE  s \o <<>> = s /\ <<>> \o s = s
  OBVIOUS

\* The elements of a sequence that one is added to
LEMMA EX_Append ==
    ASSUME NEW S, NEW s \in Seq(S), NEW e \in S
    PROVE  /\ Append(s, e) \in Seq(S) /\ Len(Append(s, e)) = Len(s) + 1
           /\ Append(s, e)[Len(s) + 1] = e /\ \A k \in 1 .. Len(s) : Append(s, e)[k] = s[k]
  OBVIOUS

\* The elements of a sequence without its first
LEMMA EX_HeadTail ==
    ASSUME NEW S, NEW s \in Seq(S), s # <<>>
    PROVE  /\ Head(s) \in S /\ Tail(s) \in Seq(S) /\ Len(Tail(s)) = Len(s) - 1
           /\ \A k \in 1 .. Len(Tail(s)) : Tail(s)[k] = s[k + 1]
  OBVIOUS

\* No connection has loaded the extension yet
LEMMA EX_InitInv == EX_Init => EX_Inv
  BY EXAssumption DEF EX_Init, EX_Inv, EX_Types, EX_Exchange, EX_Opened, EX_Listed, EX_Given,
       FreePending, Callers, Places, Idle, Commands

\* What the caller's record may become
LEMMA EX_CallerUpdate ==
    ASSUME NEW x \in Callers, NEW at \in {"idle", "load", "inject", "open", "loaded", "lock", "send",
                                          "recv", "dead"}, NEW n \in Nat
    PROVE  [x EXCEPT !.at = at] \in Callers /\ [x EXCEPT !.got = n] \in Callers
  BY DEF Callers

\* A caller that begins to wait for its answer was about to send
LEMMA EX_SendAgain ==
    ASSUME NEW x \in Callers, x.at = "send"
    PROVE  [[x EXCEPT !.at = "recv"] EXCEPT !.at = "send"] = x
  BY Zenon DEF Callers

\* A caller at rest, and one whose connection has ended
LEMMA EX_IdleType == Idle \in Callers /\ [Idle EXCEPT !.at = "dead"] \in Callers
                     /\ Idle.at = "idle" /\ Idle.cmd = "none" /\ [Idle EXCEPT !.at = "dead"].at = "dead"
                     /\ [Idle EXCEPT !.at = "dead"].cmd = "none"
                     /\ Idle.got = 0 /\ [Idle EXCEPT !.at = "dead"].got = 0
  BY DEF Callers, Idle, Places

\* The parts of an answer all belong to the call
LEMMA EX_AnswerType ==
    ASSUME NEW m \in Callers, NEW b \in Places
    PROVE  /\ Answer(m, b) \in Seq([call : Nat, block : Places])
           /\ Len(Answer(m, b)) = AnswerSize(m.cmd)
           /\ \A k \in 1 .. Len(Answer(m, b)) : Answer(m, b)[k] = [call |-> m.call, block |-> b]
<1>1. AnswerSize(m.cmd) \in {1, 2}
  BY DEF AnswerSize
<1>2. m.call \in Nat
  BY DEF Callers
<1> DEFINE n == AnswerSize(m.cmd)
           r == [call |-> m.call, block |-> b]
<1>3. r \in [call : Nat, block : Places]
  BY <1>2
<1>4. Answer(m, b) = [k \in 1 .. n |-> r]
  BY DEF Answer
<1> HIDE DEF n, r
<1>5. n \in Nat
  BY <1>1 DEF n
<1>6. [k \in 1 .. n |-> r] \in Seq([call : Nat, block : Places]) /\ Len([k \in 1 .. n |-> r]) = n
  BY <1>3, <1>5
<1> QED BY <1>4, <1>5, <1>6 DEF n, r

\* The entries after a removal
LEMMA EX_Without ==
    ASSUME NEW S, NEW l \in Seq(S), NEW e \in 1 .. Len(l)
    PROVE  LET w == SubSeq(l, 1, e - 1) \o SubSeq(l, e + 1, Len(l))
           IN  /\ w \in Seq(S) /\ Len(w) = Len(l) - 1
               /\ \A k \in 1 .. Len(w) : w[k] = IF k < e THEN l[k] ELSE l[k + 1]
<1> DEFINE a == SubSeq(l, 1, e - 1)
           z == SubSeq(l, e + 1, Len(l))
<1>1. a \in Seq(S) /\ Len(a) = e - 1 /\ \A k \in 1 .. Len(a) : a[k] = l[k]
  OBVIOUS
<1>2. z \in Seq(S) /\ Len(z) = Len(l) - e /\ \A k \in 1 .. Len(z) : z[k] = l[e + k]
  OBVIOUS
<1> HIDE DEF a, z
<1> DEFINE w == a \o z
<1>3. /\ w \in Seq(S) /\ Len(w) = Len(a) + Len(z)
      /\ \A k \in 1 .. Len(a) + Len(z) : w[k] = IF k <= Len(a) THEN a[k] ELSE z[k - Len(a)]
  BY Zenon, <1>1, <1>2, EX_Concat
<1> HIDE DEF w
<1>4. \A k \in 1 .. Len(w) : w[k] = IF k < e THEN l[k] ELSE l[k + 1]
  <2> TAKE k \in 1 .. Len(w)
  <2>0. Len(l) \in Nat /\ e \in 1 .. Len(l) /\ k \in 1 .. Len(a) + Len(z)
    BY <1>3
  <2>1. CASE k < e
    BY <2>0, <2>1, <1>1, <1>3
  <2>2. CASE ~(k < e)
    <3>1. k - Len(a) \in 1 .. Len(z) /\ e + (k - Len(a)) = k + 1 /\ ~(k <= Len(a))
      BY <2>0, <2>2, <1>1, <1>2
    <3>2. w[k] = z[k - Len(a)]
      BY <2>0, <3>1, <1>3
    <3> QED BY Zenon, <2>2, <3>1, <3>2, <1>2
  <2> QED BY <2>1, <2>2
<1>5. Len(w) = Len(l) - 1
  BY <1>1, <1>2, <1>3
<1> QED BY Zenon, <1>3, <1>4, <1>5 DEF a, z, w

\* A mapped block is found in the list, with its size
LEMMA EX_Found ==
    ASSUME EX_Types, EX_Listed, NEW b \in mapped
    PROVE  /\ EntryOf(b.address) \in 1 .. Len(allocList.list)
           /\ allocList.list[EntryOf(b.address)] = b
           /\ allocListFind(b.address) = b.size
<1>1. PICK e \in 1 .. Len(allocList.list) : allocList.list[e] = b
  BY DEF EX_Listed
<1>2. b.address # EX_Failed
  BY EXAssumption DEF EX_Types, Blocks
<1> DEFINE found == {k \in 1 .. Len(allocList.list) : allocList.list[k].address = b.address}
<1>3. found = {e}
  BY <1>1, <1>2 DEF EX_Listed
<1>4. EntryOf(b.address) = e
  <2>1. EntryOf(b.address) = IF found = {} THEN 0 ELSE CHOOSE k \in found : \A j \in found : k <= j
    BY DEF EntryOf
  <2> HIDE DEF found
  <2>2. (CHOOSE k \in found : \A j \in found : k <= j) = e
    BY <1>3
  <2> QED BY <1>3, <2>1, <2>2
<1> QED BY <1>1, <1>4 DEF allocListFind

\* What the library takes is the command of the holder of the mutex
LEMMA EX_Head ==
    ASSUME EX_Types, EX_Exchange, toExt # <<>>
    PROVE  /\ Tail(toExt) = <<>> /\ fromExt = <<>>
           /\ Head(toExt) \in Callers
           /\ \E c \in EX_Clients :
                 /\ caller[c].at = "recv" /\ caller[c].got = 0 /\ pdata.mutex = c
                 /\ Head(toExt).cmd = caller[c].cmd /\ Head(toExt).block = caller[c].block
                 /\ Head(toExt).size = caller[c].size /\ Head(toExt).call = caller[c].call
<1>1. PICK c \in EX_Clients : /\ caller[c].at = "recv" /\ caller[c].got = 0
                              /\ toExt = <<[caller[c] EXCEPT !.at = "send"]>>
  BY DEF EX_Exchange
<1> DEFINE x == [caller[c] EXCEPT !.at = "send"]
<1>2. x \in Callers
  BY Zenon, EX_CallerUpdate DEF EX_Types
<1>3. /\ x.cmd = caller[c].cmd /\ x.block = caller[c].block
      /\ x.size = caller[c].size /\ x.call = caller[c].call
  BY DEF EX_Types, Callers
<1> HIDE DEF x
<1>4. Head(toExt) = x /\ Tail(toExt) = <<>>
  BY <1>1, <1>2 DEF x
<1> QED BY <1>1, <1>2, <1>3, <1>4 DEF EX_Exchange

\* What it frees is mapped, listed with its size, and nobody's any more
LEMMA EX_Freed ==
    ASSUME EX_Inv, Dispatch("FREE")
    PROVE  \E c \in EX_Clients, b \in mapped \ held :
              /\ caller[c].at = "recv" /\ pdata.mutex = c /\ FreePending(c)
              /\ caller[c].block = b.address /\ Head(toExt).block = b.address
              /\ Head(toExt).size \in {0, b.size}
              /\ EntryOf(b.address) \in 1 .. Len(allocList.list)
              /\ allocList.list[EntryOf(b.address)] = b
              /\ allocListFind(b.address) = b.size
<1>1. toExt # <<>> /\ process.alive /\ Head(toExt).cmd = "FREE"
  BY DEF Dispatch
<1>2. PICK c \in EX_Clients :
         /\ caller[c].at = "recv" /\ pdata.mutex = c
         /\ Head(toExt).cmd = caller[c].cmd /\ Head(toExt).block = caller[c].block
         /\ Head(toExt).size = caller[c].size
  BY <1>1, EX_Head DEF EX_Inv
<1>3. FreePending(c)
  BY <1>1, <1>2 DEF FreePending
<1>4. PICK b \in mapped \ held : b.address = caller[c].block /\ caller[c].size \in {0, b.size}
  BY <1>1, <1>3 DEF EX_Inv, EX_Given
<1>5. /\ EntryOf(b.address) \in 1 .. Len(allocList.list)
      /\ allocList.list[EntryOf(b.address)] = b
      /\ allocListFind(b.address) = b.size
  BY <1>4, EX_Found DEF EX_Inv
<1> QED BY <1>1, <1>2, <1>3, <1>4, <1>5

\* munmap gets the size of the block, from the caller or from the list
LEMMA EX_FreedIs ==
    ASSUME EX_Inv, DispatchFree, NEW b \in mapped,
           Head(toExt).block = b.address, Head(toExt).size \in {0, b.size},
           allocListFind(b.address) = b.size
    PROVE  mapped' = mapped \ {b}
<1>1. b \in Blocks
  BY DEF EX_Inv, EX_Types
<1>2. b = [address |-> b.address, size |-> b.size]
  BY <1>1 DEF Blocks
<1>3. (IF Head(toExt).size = 0 THEN allocListFind(Head(toExt).block) ELSE Head(toExt).size) = b.size
  OBVIOUS
<1> QED BY <1>2, <1>3 DEF DispatchFree

\* The types, through every step
LEMMA EX_TypeStep ==
    ASSUME EX_Inv, EX_Next
    PROVE  EX_Types'
<1>0. EX_Types /\ EX_Exchange
  BY DEF EX_Inv
<1> USE <1>0, EXAssumption DEF EX_Types, library
<1>b. ASSUME NEW c \in EX_Clients, NEW cmd \in Commands, NEW block \in Places, NEW size \in 0 .. 2,
             cmd = "ALLOC" => size \in {1, 2}, cmd = "FREE" => block \in EX_Addresses,
             Begin(c, cmd, block, size), held' \subseteq Blocks
      PROVE  EX_Types'
  <2> DEFINE x == [at |-> IF pdata.loaded THEN "lock" ELSE "load",
                   call |-> exCount.calls + 1, cmd |-> cmd, block |-> block,
                   size |-> size, got |-> 0]
  <2>1. x \in Callers /\ x.cmd = cmd /\ x.block = block /\ x.size = size
    BY DEF Callers
  <2>2. caller' = [caller EXCEPT ![c] = x] /\ UNCHANGED <<process, pdata, toExt, fromExt, allocList, mapped>>
    BY <1>b DEF Begin
  <2> HIDE DEF x
  <2>3. exCount' \in [calls : Nat, opened : Nat]
    <3>1. exCount.calls + 1 \in Nat
      OBVIOUS
    <3> DEFINE n == exCount.calls + 1
    <3>2. exCount' = [exCount EXCEPT !.calls = n]
      BY <1>b DEF Begin
    <3> HIDE DEF n
    <3> QED BY Zenon, <3>1, <3>2 DEF n
  <2>4. caller' \in [EX_Clients -> Callers]
    BY <2>1, <2>2
  <2>5. \A d \in EX_Clients : /\ caller'[d].cmd = "ALLOC" => caller'[d].size \in {1, 2}
                              /\ caller'[d].cmd = "FREE" => caller'[d].block \in EX_Addresses
    BY <1>b, <2>1, <2>2
  <2> QED BY <1>b, <2>2, <2>3, <2>4, <2>5
<1>1. ASSUME NEW c \in EX_Clients, NewCall(c) PROVE EX_Types'
  <2>0. held \subseteq Blocks
    OBVIOUS
  <2>b. ASSUME NEW cmd \in Commands \ {"ALLOC", "FREE"}, Begin(c, cmd, EX_Failed, 0), UNCHANGED held
        PROVE  EX_Types'
    <3> HIDE DEF EX_Types
    <3>1. EX_Failed \in Places /\ 0 \in 0 .. 2 /\ cmd # "ALLOC" /\ cmd # "FREE" /\ cmd \in Commands
      BY DEF Places
    <3>2. held' \subseteq Blocks
      BY <2>b, <2>0
    <3> QED BY <2>b, <3>1, <3>2, <1>b
  <2>1. ASSUME NEW size \in {1, 2}, ext_alloc(c, size) PROVE EX_Types'
    <3> HIDE DEF EX_Types
    <3>1. EX_Failed \in Places /\ size \in 0 .. 2 /\ "ALLOC" # "FREE" /\ "ALLOC" \in Commands
      BY DEF Places, Commands
    <3>2. held' \subseteq Blocks /\ Begin(c, "ALLOC", EX_Failed, size)
      BY <2>1, <2>0 DEF ext_alloc
    <3> QED BY <3>1, <3>2, <1>b
  <2>2. CASE ext_free(c)
    <3>1. PICK b \in held, size \in {0, 1} : Begin(c, "FREE", b.address, size * b.size) /\ held' = held \ {b}
      BY <2>2 DEF ext_free
    <3>2. b.address \in EX_Addresses /\ b.size \in {1, 2}
      BY DEF Blocks
    <3>3. size * b.size \in 0 .. 2
      BY <3>2
    <3>4. held' \subseteq Blocks
      BY <2>0, <3>1
    <3> HIDE DEF EX_Types
    <3>5. b.address \in Places /\ "FREE" \in Commands /\ "FREE" # "ALLOC"
      BY <3>2 DEF Places, Commands
    <3> QED BY <3>1, <3>2, <3>3, <3>4, <3>5, <1>b
  <2> HIDE DEF EX_Types
  <2>3. CASE ext_createThread(c)
    BY <2>3, <2>b DEF ext_createThread, Commands
  <2>4. CASE ext_loadModule(c)
    BY <2>4, <2>b DEF ext_loadModule, Commands
  <2>5. CASE ext_speedhack_setSpeed(c)
    BY <2>5, <2>b DEF ext_speedhack_setSpeed, Commands
  <2> QED BY <1>1, <2>1, <2>2, <2>3, <2>4, <2>5 DEF NewCall
<1> DEFINE CallersOK == /\ caller' \in [EX_Clients -> Callers]
                        /\ \A d \in EX_Clients :
                              /\ caller'[d].cmd = "ALLOC" => caller'[d].size \in {1, 2}
                              /\ caller'[d].cmd = "FREE" => caller'[d].block \in EX_Addresses
           PData == [loaded : BOOLEAN, fd : BOOLEAN, mutex : EX_Clients \cup {EX_Nobody}]
           Words == [call : Nat, block : Places]
<1>u. ASSUME NEW c \in EX_Clients, NEW x \in Callers, caller' = [caller EXCEPT ![c] = x],
             x.cmd = "ALLOC" => x.size \in {1, 2}, x.cmd = "FREE" => x.block \in EX_Addresses
      PROVE  CallersOK
  BY <1>u
<1>g. ASSUME NEW c \in EX_Clients, NEW from,
             NEW to \in {"idle", "load", "inject", "open", "loaded", "lock", "send", "recv", "dead"},
             CallerGoes(c, from, to)
      PROVE  CallersOK
  <2> DEFINE x == [caller[c] EXCEPT !.at = to]
  <2>1. x \in Callers
    BY Zenon, EX_CallerUpdate
  <2>2. x.cmd = caller[c].cmd /\ x.size = caller[c].size /\ x.block = caller[c].block
    BY DEF Callers
  <2>3. caller' = [caller EXCEPT ![c] = x]
    BY <1>g DEF CallerGoes
  <2> HIDE DEF x
  <2> QED BY <2>1, <2>2, <2>3, <1>u
<1>i. ASSUME NEW c \in EX_Clients, caller' = [caller EXCEPT ![c] = Idle]
      PROVE  CallersOK
  BY <1>i, <1>u, EX_IdleType
<1>m. ASSUME NEW m \in EX_Clients \cup {EX_Nobody}
      PROVE  [pdata EXCEPT !.mutex = m] \in PData
  BY Zenon
<1>c. ASSUME CallersOK, pdata' \in PData,
             UNCHANGED <<process, toExt, fromExt, allocList, mapped, held, exCount>>
      PROVE  EX_Types'
  BY <1>c
<1>2. ASSUME NEW c \in EX_Clients, CallStep(c) PROVE EX_Types'
  <2>1. CASE LoadLock(c)
    BY <2>1, <1>g, <1>m, <1>c DEF LoadLock
  <2>2. CASE loadExtension(c)
    <3>1. PICK works \in BOOLEAN, result \in BOOLEAN :
             /\ process' = [process EXCEPT !.listening = @ \/ (works /\ process.alive)]
             /\ pdata' = [pdata EXCEPT !.loaded = result]
      BY Zenon, <2>2 DEF loadExtension
    <3>2. pdata' \in PData
      BY Zenon, <3>1
    <3>3. process' \in [alive : BOOLEAN, listening : BOOLEAN]
      <4> DEFINE b == process.listening \/ (works /\ process.alive)
      <4>1. b \in BOOLEAN
        BY Zenon
      <4>2. process' = [process EXCEPT !.listening = b]
        BY <3>1
      <4> HIDE DEF b
      <4> QED BY Zenon, <4>1, <4>2
    <3> QED BY <2>2, <3>2, <3>3, <1>g DEF loadExtension
  <2>3. CASE openExtension(c)
    <3> DEFINE b == pdata.loaded /\ process.listening
    <3>1. b \in BOOLEAN /\ (pdata.fd \/ b) \in BOOLEAN
      BY Zenon
    <3>2. pdata' \in PData
      BY <2>3, <3>1 DEF openExtension
    <3>3. exCount' \in [calls : Nat, opened : Nat]
      <4> DEFINE n == IF b THEN exCount.opened + 1 ELSE exCount.opened
      <4>1. n \in Nat
        OBVIOUS
      <4>2. exCount' = [exCount EXCEPT !.opened = n]
        BY <2>3 DEF openExtension
      <4> HIDE DEF n
      <4> QED BY <4>1, <4>2
    <3> QED BY <2>3, <3>2, <3>3, <1>g DEF openExtension
  <2>4. CASE LoadReturns(c)
    <3>1. CASE pdata.loaded
      BY Zenon, <2>4, <3>1, <1>g, <1>c DEF LoadReturns, CallerGoes
    <3>2. CASE ~pdata.loaded
      BY Zenon, <2>4, <3>2, <1>i, <1>c DEF LoadReturns
    <3> QED BY SMTT(30), <3>1, <3>2
  <2>5. CASE LockForCommand(c)
    BY <2>5, <1>g, <1>m, <1>c DEF LockForCommand
  <2>6. CASE SendCommand(c)
    <3>1. CASE pdata.fd
      <4>1. toExt' \in Seq(Callers)
        <5>1. toExt' = Append(toExt, caller[c]) /\ caller[c] \in Callers /\ toExt \in Seq(Callers)
          BY <2>6, <3>1 DEF SendCommand
        <5> QED BY <5>1, EX_Append
      <4> QED BY <2>6, <3>1, <4>1, <1>g DEF SendCommand
    <3>2. CASE ~pdata.fd
      BY ZenonT(40), <2>6, <3>2, <1>i, <1>m, <1>c DEF SendCommand, Return
    <3> QED BY SMTT(30), <3>1, <3>2
  <2>7. CASE ServerDies(c)
    <3>1. CallersOK
      BY Zenon, <2>7, EX_IdleType DEF ServerDies
    <3> QED BY Zenon, <2>7, <3>1, <1>c DEF ServerDies
  <2>8. CASE RecvWord(c)
    <3>0. Head(fromExt) \in Words /\ Tail(fromExt) \in Seq(Words)
      <4>1. fromExt \in Seq(Words) /\ fromExt # <<>>
        BY <2>8 DEF RecvWord
      <4> HIDE DEF Words
      <4> QED BY <4>1, EX_HeadTail
    <3>1. CASE caller[c].got + 1 = ResultSize(caller[c].cmd)
      <4>1. held' \subseteq Blocks
        <5>1. Head(fromExt).block \in Places
          BY <3>0
        <5>2. CASE caller[c].cmd = "ALLOC" /\ Head(fromExt).block # EX_Failed
          <6>1. [address |-> Head(fromExt).block, size |-> caller[c].size] \in Blocks
            BY <5>1, <5>2 DEF Places, Blocks
          <6> HIDE DEF EX_Types
          <6> QED BY <2>8, <3>1, <5>2, <6>1 DEF RecvWord, EX_Types
        <5>3. CASE ~(caller[c].cmd = "ALLOC" /\ Head(fromExt).block # EX_Failed)
          BY <2>8, <3>1, <5>3 DEF RecvWord
        <5> QED BY <5>2, <5>3
      <4>2. CallersOK /\ pdata' \in PData
        BY ZenonT(40), <2>8, <3>1, <1>i, <1>m DEF RecvWord, Return
      <4> QED BY SMTT(30), <2>8, <3>0, <4>1, <4>2 DEF RecvWord
    <3>2. CASE caller[c].got + 1 # ResultSize(caller[c].cmd)
      <4> DEFINE x == [caller[c] EXCEPT !.got = caller[c].got + 1]
      <4>1. caller[c].got + 1 \in Nat
        BY DEF Callers
      <4>2. x \in Callers
        BY Zenon, <4>1, EX_CallerUpdate
      <4>3. x.cmd = caller[c].cmd /\ x.size = caller[c].size /\ x.block = caller[c].block
        BY DEF Callers
      <4>4. caller' = [caller EXCEPT ![c] = x]
        BY SMTT(30), <2>8, <3>2 DEF RecvWord
      <4> HIDE DEF x
      <4>5. CallersOK
        BY <4>2, <4>3, <4>4, <1>u
      <4> QED BY SMTT(30), <2>8, <3>0, <3>2, <4>5 DEF RecvWord
    <3> QED BY SMTT(30), <3>1, <3>2
  <2>9. CASE RecvClosed(c)
    BY Zenon, <2>9, <1>i, <1>m, <1>c DEF RecvClosed, Return
  <2> QED BY ZenonT(40), <1>2, <2>1, <2>2, <2>3, <2>4, <2>5, <2>6, <2>7, <2>8, <2>9 DEF CallStep
<1>d. ASSUME NEW cmd \in Commands, Dispatch(cmd)
      PROVE  /\ Head(toExt) \in Callers /\ Head(toExt).cmd = cmd
             /\ cmd = "ALLOC" => Head(toExt).size \in {1, 2}
             /\ Tail(toExt) = <<>> /\ fromExt = <<>>
             /\ Head(toExt).block \in Places
  <2>1. toExt # <<>> /\ Head(toExt).cmd = cmd
    BY <1>d DEF Dispatch
  <2>2. PICK c \in EX_Clients : Head(toExt).cmd = caller[c].cmd /\ Head(toExt).size = caller[c].size
    BY <2>1, EX_Head
  <2>3. Tail(toExt) = <<>> /\ fromExt = <<>> /\ Head(toExt) \in Callers
    BY ZenonT(40), <2>1, EX_Head
  <2>4. Head(toExt).block \in Places
    BY <2>3 DEF Callers
  <2>5. cmd = "ALLOC" => Head(toExt).size \in {1, 2}
    BY <2>1, <2>2
  <2> QED BY <2>1, <2>3, <2>4, <2>5
<1>w. ASSUME NEW m \in Callers, NEW b \in Places, fromExt = <<>>
      PROVE  fromExt \o Answer(m, b) \in Seq(Words)
  <2>1. Answer(m, b) \in Seq(Words)
    BY Zenon, EX_AnswerType
  <2> HIDE DEF Words
  <2> QED BY <1>w, <2>1, EX_ConcatEmpty
<1>3. CASE DispatchAlloc
  <2> DEFINE m == Head(toExt)
  <2>0. "ALLOC" \in Commands /\ Dispatch("ALLOC")
    BY <1>3 DEF DispatchAlloc, Commands
  <2>1. /\ m \in Callers /\ m.size \in {1, 2} /\ Tail(toExt) = <<>> /\ fromExt = <<>>
    BY <2>0, <1>d
  <2>2. PICK a \in Places :
          /\ mapped' = IF a = EX_Failed THEN mapped ELSE mapped \cup {[address |-> a, size |-> m.size]}
          /\ allocList' = allocListAdd(a, m.size)
          /\ fromExt' = fromExt \o Answer(m, a)
    BY Zenon, <1>3 DEF DispatchAlloc, Places
  <2>3. fromExt' \in Seq(Words)
    BY Zenon, <2>1, <2>2, <1>w
  <2> HIDE DEF m
  <2>4. mapped' \subseteq Blocks
    BY <2>1, <2>2 DEF Blocks, Places
  <2>5. allocList' \in [list : Seq(Entries), max : Nat]
    <3>1. [address |-> a, size |-> m.size] \in Entries
      BY <2>1 DEF Entries
    <3> DEFINE l == Append(allocList.list, [address |-> a, size |-> m.size])
               x == IF allocList.max = 0 THEN EX_InitMax ELSE allocList.max
    <3>2. l \in Seq(Entries) /\ Len(l) \in Nat
      BY <3>1
    <3>3. x \in Nat
      OBVIOUS
    <3>4. allocList' = [list |-> l, max |-> IF Len(l) = x THEN 2 * x ELSE x]
      BY <2>2 DEF allocListAdd
    <3> HIDE DEF l, x
    <3> QED BY <3>2, <3>3, <3>4
  <2> QED BY <2>0, <2>1, <2>3, <2>4, <2>5 DEF Dispatch
<1>4. CASE DispatchFree
  <2>0. "FREE" \in Commands /\ Dispatch("FREE")
    BY <1>4 DEF DispatchFree, Commands
  <2>1. Head(toExt) \in Callers /\ Head(toExt).block \in Places /\ Tail(toExt) = <<>> /\ fromExt = <<>>
    BY SMTT(30), <2>0, <1>d
  <2>2. fromExt' \in Seq(Words)
    BY Zenon, <1>4, <2>1, <1>w DEF DispatchFree
  <2>3. mapped' \subseteq Blocks
    BY <1>4 DEF DispatchFree
  <2>4. allocList' \in [list : Seq(Entries), max : Nat]
    <3> DEFINE e == EntryOf(Head(toExt).block)
               l == allocList.list
               w == SubSeq(l, 1, e - 1) \o SubSeq(l, e + 1, Len(l))
    <3>1. e \in 1 .. Len(l)
      BY <2>0, EX_Freed
    <3>2. allocList' = IF e = 0 THEN allocList ELSE [allocList EXCEPT !.list = w]
      BY <1>4 DEF DispatchFree, allocListRemove
    <3> HIDE DEF e
    <3>3. e # 0 => w \in Seq(Entries)
      BY <3>1, EX_Without
    <3> HIDE DEF w
    <3> QED BY Zenon, <3>2, <3>3
  <2> QED BY <2>0, <2>1, <2>2, <2>3, <2>4 DEF Dispatch
<1>5. CASE DispatchOther
  <2>0. PICK cmd \in Commands : Dispatch(cmd)
    BY <1>5 DEF DispatchOther, Commands
  <2>1. Head(toExt) \in Callers /\ EX_Failed \in Places /\ Tail(toExt) = <<>> /\ fromExt = <<>>
    BY SMTT(30), <2>0, <1>d DEF Places
  <2>2. fromExt' \in Seq(Words)
    BY Zenon, <1>5, <2>1, <1>w DEF DispatchOther
  <2> QED BY <1>5, <2>0, <2>1, <2>2 DEF Dispatch, DispatchOther
<1>6. CASE ProcessEnds
  <2>1. process' \in [alive : BOOLEAN, listening : BOOLEAN]
    BY <1>6, Zenon DEF ProcessEnds
  <2> QED BY <1>6, <2>1 DEF ProcessEnds
<1> QED BY Zenon, EX_Next, <1>1, <1>2, <1>3, <1>4, <1>5, <1>6 DEF EX_Next, LibraryStep

\* What CallerGoes and Return do to the records
LEMMA EX_CallerGoes ==
    ASSUME EX_Types, NEW c \in EX_Clients, NEW from, NEW to, CallerGoes(c, from, to)
    PROVE  /\ caller[c].at = from /\ caller'[c].at = to
           /\ \A d \in EX_Clients :
                 /\ caller'[d].call = caller[d].call /\ caller'[d].cmd = caller[d].cmd
                 /\ caller'[d].block = caller[d].block /\ caller'[d].size = caller[d].size
                 /\ caller'[d].got = caller[d].got
                 /\ d # c => caller'[d] = caller[d]
<1>1. /\ caller[c].at = from /\ caller' = [caller EXCEPT ![c].at = to]
      /\ caller \in [EX_Clients -> Callers]
  BY Zenon DEF EX_Types, CallerGoes
<1>2. caller'[c] = [caller[c] EXCEPT !.at = to] /\ caller[c] \in Callers
  BY <1>1, Zenon
<1>3. \A d \in EX_Clients : d # c => caller'[d] = caller[d]
  BY <1>1, Zenon
<1>4. /\ caller'[c].at = to /\ caller'[c].call = caller[c].call /\ caller'[c].cmd = caller[c].cmd
      /\ caller'[c].block = caller[c].block /\ caller'[c].size = caller[c].size
      /\ caller'[c].got = caller[c].got
  BY SMTT(30), <1>2 DEF Callers
<1> QED BY <1>1, <1>3, <1>4, Zenon

\* One caller changes and the others do not
LEMMA EX_CallerSet ==
    ASSUME EX_Types, NEW c \in EX_Clients, NEW x, caller' = [caller EXCEPT ![c] = x]
    PROVE  caller'[c] = x /\ \A d \in EX_Clients : d # c => caller'[d] = caller[d]
  BY DEF EX_Types

\* Commands and answers
LEMMA EX_ExchangeStep ==
    ASSUME EX_Inv, EX_Next
    PROVE  EX_Exchange'
<1>0. EX_Types /\ EX_Exchange
  BY DEF EX_Inv
<1> USE <1>0, EXAssumption DEF EX_Exchange, library
<1>w. fromExt \in Seq([call : Nat, block : Places]) /\ Len(fromExt) \in Nat
  BY DEF EX_Types
<1>1. ASSUME NEW c \in EX_Clients, NEW cmd, NEW block, NEW size, Begin(c, cmd, block, size)
      PROVE  EX_Exchange'
  <2>1. caller'[c].at \in {"lock", "load"} /\ caller[c].at = "idle" /\ caller'[c].got = 0
    BY <1>1, EX_CallerSet DEF Begin, EX_Types
  <2>2. \A d \in EX_Clients : d # c => caller'[d] = caller[d]
    BY <1>1, EX_CallerSet DEF Begin
  <2>3. UNCHANGED <<process, pdata, toExt, fromExt>>
    BY <1>1 DEF Begin
  <2> QED BY <2>1, <2>2, <2>3
<1>g. ASSUME NEW c \in EX_Clients, NEW from \in {"load", "inject", "open", "loaded", "lock"},
             NEW to \in {"inject", "open", "loaded", "lock", "send"},
             CallerGoes(c, from, to), process'.alive = process.alive, UNCHANGED <<toExt, fromExt>>,
             pdata'.mutex = pdata.mutex \/ pdata.mutex \in {c, EX_Nobody},
             to \in {"inject", "open", "send"} => pdata'.mutex = c
      PROVE  EX_Exchange'
  <2>1. /\ caller[c].at = from /\ caller'[c].at = to /\ caller'[c].got = caller[c].got
        /\ \A d \in EX_Clients : d # c => caller'[d] = caller[d]
    BY <1>g, EX_CallerGoes
  <2> QED BY SMTT(30), <1>g, <2>1
<1>2. ASSUME NEW c \in EX_Clients, CallStep(c) PROVE EX_Exchange'
  <2>1. CASE LoadLock(c)
    <3>1. CASE pdata.loaded
      <4>1. CallerGoes(c, "load", "loaded") /\ UNCHANGED <<process, pdata, toExt, fromExt>>
        BY <2>1, <3>1 DEF LoadLock
      <4> HIDE DEF EX_Exchange
      <4> QED BY <4>1, <1>g
    <3>2. CASE ~pdata.loaded
      <4>1. pdata'.mutex = c /\ pdata.mutex = EX_Nobody
        BY <2>1, <3>2 DEF LoadLock, Unlocked, EX_Types
      <4>2. CallerGoes(c, "load", "inject") /\ UNCHANGED <<process, toExt, fromExt>>
        BY <2>1, <3>2 DEF LoadLock
      <4> HIDE DEF EX_Exchange
      <4> QED BY <4>1, <4>2, <1>g
    <3> QED BY <3>1, <3>2
  <2>2. CASE loadExtension(c)
    <3>1. caller[c].at = "inject" /\ CallerGoes(c, "inject", "open") /\ UNCHANGED <<toExt, fromExt>>
      BY <2>2 DEF loadExtension, CallerGoes
    <3>2. pdata'.mutex = pdata.mutex /\ process'.alive = process.alive
      BY <2>2 DEF loadExtension, EX_Types
    <3>3. pdata.mutex = c
      BY <3>1
    <3> HIDE DEF EX_Exchange
    <3> QED BY <3>1, <3>2, <3>3, <1>g
  <2>3. CASE openExtension(c)
    <3>1. caller[c].at = "open" /\ CallerGoes(c, "open", "loaded") /\ UNCHANGED <<process, toExt, fromExt>>
      BY <2>3 DEF openExtension, CallerGoes
    <3>3. pdata.mutex = c
      BY <3>1
    <3> HIDE DEF EX_Exchange
    <3> QED BY <3>1, <3>3, <1>g
  <2>4. CASE LoadReturns(c)
    <3>1. caller'[c].at \in {"lock", "idle"} /\ caller[c].at = "loaded" /\ caller'[c].got = 0
      <4>1. CASE pdata.loaded
        BY <2>4, <4>1 DEF LoadReturns, EX_Types, Callers
      <4>2. CASE ~pdata.loaded
        BY <2>4, <4>2, EX_IdleType DEF LoadReturns, EX_Types
      <4> QED BY <4>1, <4>2
    <3>2. \A d \in EX_Clients : d # c => caller'[d] = caller[d]
      BY <2>4, EX_CallerSet DEF LoadReturns
    <3>3. UNCHANGED <<process, pdata, toExt, fromExt>>
      BY <2>4 DEF LoadReturns
    <3> QED BY <3>1, <3>2, <3>3
  <2>5. CASE LockForCommand(c)
    BY SMTT(30), <2>5, EX_CallerGoes DEF LockForCommand, Unlocked, EX_Types
  <2>6. CASE SendCommand(c)
    <3>0. caller[c].at = "send" /\ pdata.mutex = c
      BY <2>6 DEF SendCommand
    <3>1. \A d \in EX_Clients : caller[d].at # "recv"
      BY <3>0
    <3>2. toExt = <<>> /\ fromExt = <<>>
      BY <3>1
    <3>3. CASE pdata.fd
      <4>1. CallerGoes(c, "send", "recv")
        BY <2>6, <3>3 DEF SendCommand
      <4>2. process.alive /\ UNCHANGED <<process, pdata, fromExt>>
        BY <2>6, <3>3 DEF SendCommand
      <4>3. caller[c] \in Callers /\ [caller'[c] EXCEPT !.at = "send"] = caller[c]
        <5>1. caller'[c] = [caller[c] EXCEPT !.at = "recv"] /\ caller[c] \in Callers
          BY <4>1 DEF CallerGoes, EX_Types
        <5>2. caller[c].at = "send"
          BY <3>0
        <5> HIDE <1>0
        <5> QED BY Zenon, <5>1, <5>2, EX_SendAgain
      <4>4. toExt' = <<caller[c]>>
        BY <2>6, <3>2, <3>3, <4>3 DEF SendCommand
      <4>5. caller'[c].at = "recv" /\ \A d \in EX_Clients : d # c => caller'[d] = caller[d]
        BY <4>1, EX_CallerGoes
      <4>6. caller'[c].got = 0
        BY <4>1, <3>0, EX_CallerGoes
      <4>7. toExt' # <<>> /\ toExt' = <<[caller'[c] EXCEPT !.at = "send"]>>
        BY <4>3, <4>4
      <4> QED BY <3>0, <3>1, <3>2, <4>2, <4>5, <4>6, <4>7
    <3>4. CASE ~pdata.fd
      <4>1. caller'[c] = Idle /\ \A d \in EX_Clients : d # c => caller'[d] = caller[d]
        BY ZenonT(40), <2>6, <3>4, EX_CallerSet DEF SendCommand, Return
      <4>2. UNCHANGED <<process, toExt, fromExt>> /\ pdata' = [pdata EXCEPT !.mutex = EX_Nobody]
        BY <2>6, <3>4 DEF SendCommand, Return
      <4> QED BY <3>0, <3>1, <3>2, <4>1, <4>2, EX_IdleType
    <3> QED BY <3>3, <3>4
  <2>7. CASE ServerDies(c)
    BY Zenon, <2>7, EX_IdleType DEF ServerDies
  <2>8. CASE RecvWord(c)
    <3>0. /\ caller[c].at = "recv" /\ pdata.mutex = c /\ fromExt # <<>> /\ toExt = <<>>
          /\ fromExt' = Tail(fromExt) /\ UNCHANGED <<process, toExt>>
      BY <2>8 DEF RecvWord
    <3>1. \A d \in EX_Clients : d # c => caller[d].at \notin {"inject", "open", "send", "recv"}
      BY <3>0
    <3>2. /\ Len(fromExt') = Len(fromExt) - 1 /\ Len(fromExt) >= 1
          /\ fromExt' \in Seq([call : Nat, block : Places])
          /\ \A k \in 1 .. Len(fromExt') : fromExt'[k] = fromExt[k + 1]
      <4> DEFINE W == [call : Nat, block : Places]
      <4> HIDE DEF W
      <4>1. fromExt \in Seq(W)
        BY <1>w DEF W
      <4>2. fromExt' \in Seq(W) /\ Len(fromExt') = Len(fromExt) - 1
            /\ \A k \in 1 .. Len(fromExt') : fromExt'[k] = fromExt[k + 1]
        BY <4>1, <3>0, EX_HeadTail
      <4>3. Len(fromExt) >= 1
        BY <4>1, <3>0, EX_EmptySeq, <1>w
      <4> QED BY <4>2, <4>3 DEF W
    <3>3. caller[c].got \in Nat /\ caller[c].got + Len(fromExt) <= AnswerSize(caller[c].cmd)
      BY <3>0 DEF EX_Types, Callers
    <3>4. CASE caller[c].got + 1 = ResultSize(caller[c].cmd)
      <4>1. Len(fromExt') = 0
        <5>1. AnswerSize(caller[c].cmd) <= ResultSize(caller[c].cmd) /\ AnswerSize(caller[c].cmd) \in Nat
              /\ ResultSize(caller[c].cmd) \in Nat
          BY DEF AnswerSize, ResultSize
        <5>2. Len(fromExt) <= 1 /\ Len(fromExt) \in Nat
          <6> HIDE <1>0
          <6> QED BY SMTT(30), <5>1, <3>3, <3>4, <1>w
        <5> HIDE <1>0
        <5> QED BY <5>2, <3>2
      <4>2. fromExt' = <<>>
        BY <4>1, <3>2, EX_EmptySeq
      <4>3. caller'[c] = Idle /\ \A d \in EX_Clients : d # c => caller'[d] = caller[d]
        <5>1. caller' = [caller EXCEPT ![c] = Idle]
          BY <2>8, <3>4 DEF RecvWord, Return
        <5> QED BY Zenon, <5>1, EX_CallerSet
      <4> QED BY <3>0, <3>1, <4>2, <4>3, EX_IdleType
    <3>5. CASE caller[c].got + 1 # ResultSize(caller[c].cmd)
      <4>1. /\ caller' = [caller EXCEPT ![c] = [caller[c] EXCEPT !.got = caller[c].got + 1]]
            /\ pdata' = pdata
        BY <2>8, <3>5 DEF RecvWord
      <4>2. \A d \in EX_Clients : d # c => caller'[d] = caller[d]
        BY <4>1, EX_CallerSet
      <4>3. /\ caller'[c].at = "recv" /\ caller'[c].got = caller[c].got + 1
            /\ caller'[c].cmd = caller[c].cmd /\ caller'[c].call = caller[c].call
        BY <3>0, <4>1 DEF EX_Types, Callers
      <4>4. caller'[c].got + Len(fromExt') <= AnswerSize(caller'[c].cmd)
        BY SMTT(30), <3>2, <3>3, <4>3, <1>w DEF AnswerSize
      <4>5. \A k \in 1 .. Len(fromExt') : fromExt'[k].call = caller'[c].call
        BY SMTT(30), <3>0, <3>2, <4>3, <1>w
      <4> QED BY <3>0, <3>1, <4>1, <4>2, <4>3, <4>4, <4>5
    <3> QED BY <3>4, <3>5
  <2>9. CASE RecvClosed(c)
    BY <2>9, EX_CallerSet, EX_IdleType DEF RecvClosed, Return, EX_Types
  <2> QED BY <1>2, <2>1, <2>2, <2>3, <2>4, <2>5, <2>6, <2>7, <2>8, <2>9 DEF CallStep
<1>3. CASE LibraryStep
  <2>0. toExt # <<>> /\ process.alive /\ toExt' = Tail(toExt) /\ UNCHANGED <<process, pdata, caller>>
    BY <1>3 DEF LibraryStep, DispatchAlloc, DispatchFree, DispatchOther, Dispatch
  <2>1. PICK c \in EX_Clients : /\ caller[c].at = "recv" /\ caller[c].got = 0 /\ pdata.mutex = c
                                /\ Head(toExt).cmd = caller[c].cmd /\ Head(toExt).call = caller[c].call
    BY <2>0, EX_Head
  <2>2. toExt' = <<>> /\ fromExt = <<>> /\ Head(toExt) \in Callers
    BY <2>0, EX_Head
  <2>3. PICK b \in Places : fromExt' = fromExt \o Answer(Head(toExt), b)
    <3>1. EX_Failed \in Places /\ Head(toExt).block \in Places
      BY <2>2 DEF Places, Callers
    <3> QED BY Zenon, <1>3, <3>1 DEF LibraryStep, DispatchAlloc, DispatchFree, DispatchOther, Places
  <2>4. fromExt' = Answer(Head(toExt), b)
    BY <2>2, <2>3, EX_AnswerType, EX_ConcatEmpty
  <2>5. /\ Len(fromExt') = AnswerSize(caller[c].cmd)
        /\ \A k \in 1 .. Len(fromExt') : fromExt'[k].call = caller[c].call
    <3> DEFINE A == Answer(Head(toExt), b)
    <3>1. /\ Len(A) = AnswerSize(Head(toExt).cmd)
          /\ \A k \in 1 .. Len(A) : A[k] = [call |-> Head(toExt).call, block |-> b]
      BY <2>2, EX_AnswerType
    <3> HIDE <1>0 DEF A
    <3>2. fromExt' = A
      BY <2>4 DEF A
    <3> QED BY <2>1, <3>1, <3>2
  <2>6. \A d \in EX_Clients : caller[d].at = "recv" => d = c
    BY <2>1
  <2> HIDE <1>0 DEF EX_Exchange
  <2>7. \A d \in EX_Clients :
          /\ caller[d].at \in {"inject", "open", "send", "recv"} => pdata.mutex = d
          /\ caller[d].at # "recv" => caller[d].got = 0
    BY <1>0 DEF EX_Exchange
  <2>8. caller[c].got + Len(fromExt') <= AnswerSize(caller[c].cmd)
    BY <2>1, <2>5 DEF AnswerSize
  <2> QED BY SMTT(30), <2>0, <2>1, <2>2, <2>5, <2>6, <2>7, <2>8 DEF EX_Exchange
<1>6. CASE ProcessEnds
  BY <1>6, <1>w DEF ProcessEnds, AnswerSize
<1> QED BY EX_Next, <1>1, <1>2, <1>3, <1>6
        DEF EX_Next, NewCall, ext_alloc, ext_free, ext_createThread, ext_loadModule, ext_speedhack_setSpeed

\* The connection is opened once
LEMMA EX_OpenedStep ==
    ASSUME EX_Inv, EX_Next
    PROVE  EX_Opened'
<1>0. EX_Types /\ EX_Exchange /\ EX_Opened
  BY DEF EX_Inv
<1>m. \A c \in EX_Clients : caller[c].at \in {"inject", "open"} => pdata.mutex = c
  BY <1>0 DEF EX_Exchange
<1>t. exCount.opened \in Nat /\ pdata.loaded \in BOOLEAN
  BY <1>0 DEF EX_Types
<1> USE <1>0, <1>t DEF EX_Opened, library
<1>1. ASSUME NEW c \in EX_Clients, NEW cmd, NEW block, NEW size, Begin(c, cmd, block, size)
      PROVE  EX_Opened'
  <2>1. caller'[c].at \in {"lock", "load"}
    BY <1>1 DEF Begin, EX_Types
  <2>2. \A d \in EX_Clients : d # c => caller'[d] = caller[d]
    BY <1>1, EX_CallerSet DEF Begin
  <2>3. exCount'.opened = exCount.opened /\ pdata' = pdata
    BY <1>1 DEF Begin, EX_Types
  <2> QED BY <2>1, <2>2, <2>3
<1>2. ASSUME NEW c \in EX_Clients, CallStep(c) PROVE EX_Opened'
  <2>1. CASE LoadLock(c)
    <3>1. pdata'.loaded = pdata.loaded
      BY <2>1 DEF LoadLock, EX_Types
    <3>2. caller'[c].at = "inject" => ~pdata.loaded
      BY <2>1, EX_CallerGoes DEF LoadLock
    <3>3. \A d \in EX_Clients : d # c => caller'[d] = caller[d]
      BY <2>1, EX_CallerGoes DEF LoadLock
    <3>4. caller'[c].at # "open" /\ exCount' = exCount
      BY <2>1, EX_CallerGoes DEF LoadLock
    <3> QED BY <3>1, <3>2, <3>3, <3>4
  <2>2. CASE loadExtension(c)
    <3>1. /\ caller[c].at = "inject" /\ caller'[c].at = "open"
          /\ \A d \in EX_Clients : d # c => caller'[d] = caller[d]
      BY <2>2, EX_CallerGoes DEF loadExtension
    <3>2. exCount' = exCount
      BY <2>2 DEF loadExtension
    <3> QED BY <3>1, <3>2
  <2>3. CASE openExtension(c)
    <3>1. /\ caller[c].at = "open" /\ caller'[c].at = "loaded"
          /\ \A d \in EX_Clients : d # c => caller'[d] = caller[d]
      BY <2>3, EX_CallerGoes DEF openExtension
    <3>2. \A d \in EX_Clients : caller'[d].at \notin {"inject", "open"}
      BY <3>1, <1>m
    <3>3. exCount'.opened = IF pdata.loaded /\ process.listening THEN 1 ELSE 0
      BY <2>3, <3>1 DEF openExtension, EX_Types
    <3>4. pdata'.loaded = (pdata.loaded /\ process.listening)
      BY <2>3 DEF openExtension
    <3> QED BY <3>2, <3>3, <3>4
  <2>4. CASE LoadReturns(c)
    <3>1. caller'[c].at \in {"lock", "idle"}
      <4>1. CASE pdata.loaded
        BY <2>4, <4>1 DEF LoadReturns, EX_Types, Callers
      <4>2. CASE ~pdata.loaded
        BY <2>4, <4>2, EX_IdleType DEF LoadReturns, EX_Types
      <4> QED BY <4>1, <4>2
    <3>2. \A d \in EX_Clients : d # c => caller'[d] = caller[d]
      BY <2>4, EX_CallerSet DEF LoadReturns
    <3> QED BY <2>4, <3>1, <3>2 DEF LoadReturns
  <2>5. CASE LockForCommand(c)
    <3>1. caller'[c].at = "send" /\ \A d \in EX_Clients : d # c => caller'[d] = caller[d]
      BY <2>5, EX_CallerGoes DEF LockForCommand
    <3>2. pdata'.loaded = pdata.loaded /\ exCount' = exCount
      BY <2>5 DEF LockForCommand, EX_Types
    <3> QED BY <3>1, <3>2
  <2>6. ASSUME Return(c), exCount' = exCount PROVE EX_Opened'
    <3>1. caller'[c].at = "idle" /\ \A d \in EX_Clients : d # c => caller'[d] = caller[d]
      BY Zenon, <2>6, EX_CallerSet, EX_IdleType DEF Return
    <3>2. pdata'.loaded = pdata.loaded
      BY <2>6 DEF Return, EX_Types
    <3> QED BY <2>6, <3>1, <3>2
  <2>7. CASE SendCommand(c)
    <3>1. CASE pdata.fd
      <4>1. caller'[c].at = "recv" /\ \A d \in EX_Clients : d # c => caller'[d] = caller[d]
        BY <2>7, <3>1, EX_CallerGoes DEF SendCommand
      <4> QED BY <2>7, <3>1, <4>1 DEF SendCommand
    <3> QED BY <2>7, <2>6, <3>1 DEF SendCommand
  <2>8. CASE ServerDies(c)
    BY Zenon, <2>8, EX_IdleType DEF ServerDies
  <2>9. CASE RecvWord(c)
    <3>1. CASE caller[c].got + 1 # ResultSize(caller[c].cmd)
      <4>1. caller'[c].at = caller[c].at /\ \A d \in EX_Clients : d # c => caller'[d] = caller[d]
        BY SMTT(30), <2>9, <3>1 DEF RecvWord, EX_Types, Callers
      <4> QED BY <2>9, <3>1, <4>1 DEF RecvWord
    <3> QED BY <2>9, <2>6, <3>1 DEF RecvWord
  <2>10. CASE RecvClosed(c)
    BY <2>10, <2>6 DEF RecvClosed
  <2> QED BY <1>2, <2>1, <2>2, <2>3, <2>4, <2>5, <2>7, <2>8, <2>9, <2>10 DEF CallStep
<1>3. CASE LibraryStep \/ ProcessEnds
  BY <1>3 DEF LibraryStep, DispatchAlloc, DispatchFree, DispatchOther, Dispatch, ProcessEnds
<1> QED BY EX_Next, <1>1, <1>2, <1>3
        DEF EX_Next, NewCall, ext_alloc, ext_free, ext_createThread, ext_loadModule, ext_speedhack_setSpeed

\* The list and the mapped blocks
LEMMA EX_ListedStep ==
    ASSUME EX_Inv, EX_Next
    PROVE  EX_Listed'
<1>0. EX_Types /\ EX_Listed
  BY DEF EX_Inv
<1>l. /\ allocList.list \in Seq(Entries) /\ allocList.max \in Nat /\ Len(allocList.list) \in Nat
      /\ \A k \in 1 .. Len(allocList.list) : allocList.list[k] \in Entries
  BY <1>0, EX_ElementOf DEF EX_Types
<1>1. CASE UNCHANGED <<allocList, mapped>>
  BY <1>0, <1>1 DEF EX_Listed
<1>2. CASE DispatchAlloc
  <2> DEFINE m == Head(toExt)
             l == allocList.list
  <2>0. toExt # <<>> /\ m.cmd = "ALLOC"
    BY <1>2 DEF DispatchAlloc, Dispatch
  <2>1. m.size \in {1, 2}
    BY <2>0, EX_Head DEF EX_Inv, EX_Types
  <2>2. PICK a \in (EX_Addresses \ {b.address : b \in mapped}) \cup {EX_Failed} :
          /\ mapped' = IF a = EX_Failed THEN mapped ELSE mapped \cup {[address |-> a, size |-> m.size]}
          /\ allocList' = allocListAdd(a, m.size)
    BY Zenon, <1>2 DEF DispatchAlloc
  <2> DEFINE e == [address |-> a, size |-> m.size]
             x == IF allocList.max = 0 THEN EX_InitMax ELSE allocList.max
             n == Append(l, e)
  <2>3. e \in Entries /\ e.address = a
    BY <2>1 DEF Entries, Places
  <2>4. /\ n \in Seq(Entries) /\ Len(n) = Len(l) + 1 /\ n[Len(l) + 1] = e
        /\ \A k \in 1 .. Len(l) : n[k] = l[k]
    <3> HIDE DEF e
    <3> QED BY <1>l, <2>3, EX_Append
  <2>5. allocList'.list = n /\ allocList'.max = IF Len(n) = x THEN 2 * x ELSE x
    BY <2>2 DEF allocListAdd
  <2>6. mapped' = IF a = EX_Failed THEN mapped ELSE mapped \cup {e}
    BY <2>2
  <2> HIDE DEF e, n, l
  <2>7. /\ allocList'.max = 0 => Len(allocList'.list) = 0
        /\ allocList'.max > 0 => Len(allocList'.list) < allocList'.max
    BY <1>0, <1>l, <2>4, <2>5, EXAssumption DEF EX_Listed, l
  <2>8. \A k \in 1 .. Len(l) : l[k].address # EX_Failed => l[k].address # a
    BY <1>0, <2>2 DEF EX_Listed, l
  <2>9. \A k \in 1 .. Len(n) : (k \in 1 .. Len(l) /\ n[k] = l[k]) \/ (k = Len(l) + 1 /\ n[k] = e)
    BY <1>l, <2>4 DEF l
  <2>10. \A j, k \in 1 .. Len(n) : n[j].address = n[k].address /\ n[j].address # EX_Failed => j = k
    BY Zenon, <1>0, <2>3, <2>8, <2>9 DEF EX_Listed, l
  <2>11. \A k \in 1 .. Len(n) : n[k].address # EX_Failed => n[k] \in mapped'
    BY <1>0, <2>3, <2>6, <2>9 DEF EX_Listed, l
  <2>12. \A b \in mapped' : \E k \in 1 .. Len(n) : n[k] = b
    <3> TAKE b \in mapped'
    <3>1. CASE b \in mapped
      <4>1. PICK k \in 1 .. Len(l) : l[k] = b
        BY <1>0, <3>1 DEF EX_Listed, l
      <4> QED BY <1>l, <2>4, <4>1 DEF l
    <3>2. CASE b = e
      <4>1. Len(l) + 1 \in 1 .. Len(n)
        BY <1>l, <2>4 DEF l
      <4> QED BY <2>4, <3>2, <4>1
    <3> QED BY <2>6, <3>1, <3>2
  <2> QED BY <2>5, <2>7, <2>10, <2>11, <2>12 DEF EX_Listed
<1>3. CASE DispatchFree
  <2>1. PICK b \in mapped \ held :
           /\ Head(toExt).block = b.address /\ Head(toExt).size \in {0, b.size}
           /\ EntryOf(b.address) \in 1 .. Len(allocList.list)
           /\ allocList.list[EntryOf(b.address)] = b
           /\ allocListFind(b.address) = b.size
    BY <1>3, EX_Freed DEF DispatchFree
  <2>2. mapped' = mapped \ {b}
    BY <1>3, <2>1, EX_FreedIs
  <2> DEFINE l == allocList.list
             e == EntryOf(b.address)
             w == SubSeq(l, 1, e - 1) \o SubSeq(l, e + 1, Len(l))
  <2>3. allocList'.list = w /\ allocList'.max = allocList.max
    <3>1. allocList' = allocListRemove(b.address) /\ e # 0
      BY <1>3, <2>1 DEF DispatchFree
    <3>2. allocList' = [allocList EXCEPT !.list = w]
      BY <3>1 DEF allocListRemove
    <3> HIDE DEF w
    <3> QED BY <1>0, <3>2 DEF EX_Types
  <2> HIDE DEF e
  <2>4. /\ w \in Seq(Entries) /\ Len(w) = Len(l) - 1
        /\ \A k \in 1 .. Len(w) : w[k] = IF k < e THEN l[k] ELSE l[k + 1]
    BY Zenon, <1>l, <2>1, EX_Without DEF e
  <2> HIDE DEF w, l
  <2>5. e \in 1 .. Len(l) /\ l[e] = b /\ Len(l) \in Nat /\ e \in Nat
    BY <1>l, <2>1 DEF e, l
  <2> DEFINE up(k) == IF k < e THEN k ELSE k + 1
  <2>6. \A k \in 1 .. Len(w) : up(k) \in 1 .. Len(l) /\ up(k) # e /\ w[k] = l[up(k)]
    BY <2>4, <2>5
  <2>7. \A j, k \in 1 .. Len(w) : up(j) = up(k) => j = k
    BY <2>4, <2>5
  <2>8. \A k \in 1 .. Len(l) : k # e => \E j \in 1 .. Len(w) : w[j] = l[k]
    <3> TAKE k \in 1 .. Len(l)
    <3> HAVE k # e
    <3> DEFINE j == IF k < e THEN k ELSE k - 1
    <3>1. j \in 1 .. Len(w) /\ up(j) = k
      BY <2>4, <2>5
    <3> HIDE DEF j, up
    <3> QED BY <3>1, <2>6
  <2> HIDE DEF up
  <2>9. \A j, k \in 1 .. Len(w) : w[j].address = w[k].address /\ w[j].address # EX_Failed => j = k
    <3> SUFFICES ASSUME NEW j \in 1 .. Len(w), NEW k \in 1 .. Len(w),
                        w[j].address = w[k].address, w[j].address # EX_Failed
                 PROVE  j = k
      OBVIOUS
    <3>1. /\ up(j) \in 1 .. Len(l) /\ w[j] = l[up(j)]
          /\ up(k) \in 1 .. Len(l) /\ w[k] = l[up(k)]
      BY <2>6
    <3>2. up(j) = up(k)
      BY SMTT(30), <1>0, <3>1 DEF EX_Listed, l
    <3> QED BY <3>2, <2>7
  <2>10. \A k \in 1 .. Len(w) : w[k].address # EX_Failed => w[k] \in mapped'
    <3> SUFFICES ASSUME NEW k \in 1 .. Len(w), w[k].address # EX_Failed
                 PROVE  w[k] \in mapped /\ w[k] # b
      BY <2>2
    <3>1. up(k) \in 1 .. Len(l) /\ up(k) # e /\ w[k] = l[up(k)]
      BY <2>6
    <3>2. w[k] \in mapped
      BY <1>0, <3>1 DEF EX_Listed, l
    <3>3. w[k].address # l[e].address
      BY SMTT(30), <1>0, <2>5, <3>1 DEF EX_Listed, l
    <3> QED BY <2>5, <3>2, <3>3
  <2>11. \A d \in mapped' : \E k \in 1 .. Len(w) : w[k] = d
    BY SMTT(30), <1>0, <2>2, <2>5, <2>8 DEF EX_Listed, l
  <2>12. /\ allocList'.max = 0 => Len(allocList'.list) = 0
         /\ allocList'.max > 0 => Len(allocList'.list) < allocList'.max
    BY <1>0, <1>l, <2>3, <2>4, <2>5 DEF EX_Listed, l
  <2> QED BY <2>3, <2>9, <2>10, <2>11, <2>12 DEF EX_Listed
<1>4. CASE ProcessEnds
  BY <1>4 DEF ProcessEnds, EX_Listed
<1> QED BY Zenon, EX_Next, <1>1, <1>2, <1>3, <1>4
        DEF EX_Next, LibraryStep, DispatchOther, NewCall, ext_alloc, ext_free, ext_createThread,
            ext_loadModule, ext_speedhack_setSpeed, Begin, CallStep, LoadLock, loadExtension,
            openExtension, LoadReturns, LockForCommand, SendCommand, ServerDies, RecvWord, RecvClosed, library

\* An address is mapped once
LEMMA EX_MappedOnce ==
    ASSUME EX_Types, EX_Listed, NEW b \in mapped, NEW d \in mapped, b.address = d.address
    PROVE  b = d
<1>1. PICK j \in 1 .. Len(allocList.list) : allocList.list[j] = b
  BY DEF EX_Listed
<1>2. PICK k \in 1 .. Len(allocList.list) : allocList.list[k] = d
  BY DEF EX_Listed
<1>3. b.address # EX_Failed
  BY EXAssumption DEF EX_Types, Blocks
<1>4. j = k
  BY <1>1, <1>2, <1>3 DEF EX_Listed
<1> QED BY <1>1, <1>2, <1>4

\* Who has which block
LEMMA EX_GivenStep ==
    ASSUME EX_Inv, EX_Next
    PROVE  EX_Given'
<1>0. EX_Types /\ EX_Exchange /\ EX_Listed /\ EX_Given
  BY DEF EX_Inv
<1>m. \A c \in EX_Clients : caller[c].at \in {"inject", "open", "send", "recv"} => pdata.mutex = c
  BY <1>0 DEF EX_Exchange
<1>a. CASE ~process'.alive
  BY <1>a DEF EX_Given
<1> SUFFICES ASSUME process'.alive PROVE EX_Given'
  BY <1>a
<1>p. process.alive
  <2>1. process \in [alive : BOOLEAN, listening : BOOLEAN]
    BY <1>0 DEF EX_Types
  <2> QED BY ZenonT(60), EX_Next, <2>1 
        DEF EX_Next, LibraryStep, DispatchAlloc, DispatchFree, DispatchOther, Dispatch, NewCall, ext_alloc, ext_free,
            ext_createThread, ext_loadModule, ext_speedhack_setSpeed, Begin, CallStep, LoadLock, loadExtension,
            openExtension, LoadReturns, LockForCommand, SendCommand, ServerDies, RecvWord, RecvClosed, ProcessEnds, library
<1>v. /\ held \subseteq mapped
      /\ \A c \in EX_Clients : FreePending(c) =>
            \E b \in mapped \ held :
               b.address = caller[c].block /\ caller[c].size \in {0, b.size}
      /\ \A c, d \in EX_Clients : FreePending(c) /\ FreePending(d) /\ c # d =>
            caller[c].block # caller[d].block
      /\ \A c \in EX_Clients : caller[c].at = "recv" /\ caller[c].cmd = "ALLOC" =>
            \A k \in 1 .. Len(fromExt) : fromExt[k].block # EX_Failed =>
               /\ [address |-> fromExt[k].block, size |-> caller[c].size] \in mapped \ held
               /\ \A d \in EX_Clients : FreePending(d) => caller[d].block # fromExt[k].block
  BY <1>0, <1>p DEF EX_Given
\* A call that is not one of ext_free begins, goes on to where nothing is sent, or ends
<1>g. ASSUME NEW c \in EX_Clients, UNCHANGED <<toExt, fromExt, mapped, held>>,
             \A d \in EX_Clients : d # c => caller'[d] = caller[d],
             caller'[c].at # "recv",
             FreePending(c)' => /\ FreePending(c) /\ caller'[c].block = caller[c].block
                                /\ caller'[c].size = caller[c].size
      PROVE  EX_Given'
  <2>1. \A d \in EX_Clients : FreePending(d)' => /\ FreePending(d) /\ caller'[d].block = caller[d].block
                                                 /\ caller'[d].size = caller[d].size
    BY <1>g DEF FreePending
  <2>2. \A d \in EX_Clients : caller'[d].at = "recv" => caller'[d] = caller[d]
    BY <1>g
  <2>3. \A d \in EX_Clients : caller'[d].at = "recv" /\ caller'[d].cmd = "ALLOC" =>
            caller[d].at = "recv" /\ caller[d].cmd = "ALLOC" /\ caller'[d].size = caller[d].size
    BY <2>2
  <2>4. /\ held' \subseteq mapped'
        /\ \A d \in EX_Clients : FreePending(d)' =>
              \E b \in mapped' \ held' :
                 b.address = caller'[d].block /\ caller'[d].size \in {0, b.size}
    BY <1>g, <1>v, <2>1
  <2>5. \A d, f \in EX_Clients : FreePending(d)' /\ FreePending(f)' /\ d # f =>
            caller'[d].block # caller'[f].block
    BY SMTT(30), <1>v, <2>1
  <2>6. \A d \in EX_Clients : caller'[d].at = "recv" /\ caller'[d].cmd = "ALLOC" =>
            \A k \in 1 .. Len(fromExt') : fromExt'[k].block # EX_Failed =>
               /\ [address |-> fromExt'[k].block, size |-> caller'[d].size] \in mapped' \ held'
               /\ \A f \in EX_Clients : FreePending(f)' => caller'[f].block # fromExt'[k].block
    BY <1>g, <1>v, <2>1, <2>3
  <2> QED BY <2>4, <2>5, <2>6 DEF EX_Given
<1>1. ASSUME NEW c \in EX_Clients, NEW cmd, NEW block, NEW size, cmd # "FREE", Begin(c, cmd, block, size),
             UNCHANGED held
      PROVE  EX_Given'
  <2>1. caller'[c].at \in {"lock", "load"} /\ caller'[c].cmd = cmd
    BY <1>0, <1>1 DEF Begin, EX_Types
  <2>2. \A d \in EX_Clients : d # c => caller'[d] = caller[d]
    BY <1>0, <1>1, EX_CallerSet DEF Begin
  <2>3. UNCHANGED <<toExt, fromExt, mapped, held>>
    BY <1>1 DEF Begin, library
  <2>4. ~FreePending(c)'
    BY <1>1, <2>1 DEF FreePending
  <2> QED BY <2>1, <2>2, <2>3, <2>4, <1>g
<1>2. ASSUME NEW c \in EX_Clients, ext_free(c) PROVE EX_Given'
  <2>1. PICK b \in held, size \in {0, 1} : Begin(c, "FREE", b.address, size * b.size) /\ held' = held \ {b}
    BY <1>2 DEF ext_free
  <2>2. caller'[c].at \in {"lock", "load"} /\ caller'[c].cmd = "FREE" /\ caller'[c].block = b.address
        /\ caller'[c].size = size * b.size
    BY <1>0, <2>1 DEF Begin, EX_Types
  <2>3. /\ \A d \in EX_Clients : d # c => caller'[d] = caller[d]
        /\ caller[c].at = "idle"
    BY <1>0, <2>1, EX_CallerSet DEF Begin
  <2>4. UNCHANGED <<toExt, fromExt, mapped>>
    BY <2>1 DEF Begin, library
  <2>5. size * b.size \in {0, b.size}
    <3>1. b.size \in {1, 2}
      BY <1>0 DEF EX_Types, Blocks
    <3> QED BY <3>1
  <2>6. \A d \in EX_Clients : d # c => FreePending(d)' = FreePending(d)
    BY <2>3, <2>4 DEF FreePending
  <2>7. b \in mapped /\ \A x \in mapped \ held : x.address # b.address
    BY <1>0, <1>v, EX_MappedOnce
  <2>8. held' \subseteq mapped'
    BY SMTT(30), <1>v, <2>1, <2>4
  <2>9. \A d \in EX_Clients : FreePending(d)' =>
            \E x \in mapped' \ held' : x.address = caller'[d].block /\ caller'[d].size \in {0, x.size}
    BY SMTT(30), <1>v, <2>1, <2>2, <2>3, <2>4, <2>5, <2>6, <2>7
  <2>10. \A d, f \in EX_Clients : FreePending(d)' /\ FreePending(f)' /\ d # f =>
            caller'[d].block # caller'[f].block
    BY SMTT(30), <1>v, <2>2, <2>3, <2>6, <2>7
  <2>11. \A d \in EX_Clients : caller'[d].at = "recv" /\ caller'[d].cmd = "ALLOC" =>
            \A k \in 1 .. Len(fromExt') : fromExt'[k].block # EX_Failed =>
               /\ [address |-> fromExt'[k].block, size |-> caller'[d].size] \in mapped' \ held'
               /\ \A f \in EX_Clients : FreePending(f)' => caller'[f].block # fromExt'[k].block
    BY SMTT(30), <1>v, <2>1, <2>2, <2>3, <2>4, <2>6, <2>7
  <2> QED BY <2>8, <2>9, <2>10, <2>11 DEF EX_Given
<1>3. ASSUME NEW c \in EX_Clients, NEW from, NEW to \in {"inject", "open", "loaded", "lock", "send"},
             from \in {"load", "inject", "open", "loaded", "lock"},
             CallerGoes(c, from, to), UNCHANGED <<toExt, fromExt, mapped, held>>
      PROVE  EX_Given'
  <2>1. /\ caller[c].at = from /\ caller'[c].at = to /\ caller'[c].cmd = caller[c].cmd
        /\ caller'[c].block = caller[c].block /\ caller'[c].size = caller[c].size
        /\ \A d \in EX_Clients : d # c => caller'[d] = caller[d]
    BY <1>0, <1>3, EX_CallerGoes
  <2>2. FreePending(c)' => FreePending(c)
    BY <1>3, <2>1 DEF FreePending
  <2> QED BY <1>3, <2>1, <2>2, <1>g
<1>4. ASSUME NEW c \in EX_Clients, caller' = [caller EXCEPT ![c] = Idle],
             UNCHANGED <<toExt, fromExt, mapped, held>>
      PROVE  EX_Given'
  <2>1. caller'[c] = Idle /\ \A d \in EX_Clients : d # c => caller'[d] = caller[d]
    BY Zenon, <1>0, <1>4, EX_CallerSet
  <2>2. ~FreePending(c)' /\ caller'[c].at # "recv"
    BY SMTT(30), <2>1, EX_IdleType DEF FreePending
  <2> QED BY <1>4, <2>1, <2>2, <1>g
<1>5. ASSUME NEW c \in EX_Clients, SendCommand(c), pdata.fd PROVE EX_Given'
  <2>0. CallerGoes(c, "send", "recv") /\ UNCHANGED <<fromExt, mapped, held>> /\ toExt' = Append(toExt, caller[c])
    BY <1>5 DEF SendCommand
  <2>1. /\ caller[c].at = "send" /\ caller'[c].at = "recv" /\ caller'[c].cmd = caller[c].cmd
        /\ caller'[c].block = caller[c].block /\ caller'[c].size = caller[c].size
        /\ \A d \in EX_Clients : d # c => caller'[d] = caller[d]
    BY <1>0, <2>0, EX_CallerGoes
  <2>2. \A d \in EX_Clients : caller[d].at # "recv"
    BY <2>1, <1>m
  <2>3. fromExt = <<>>
    BY <1>0, <2>2 DEF EX_Exchange
  <2>4. Len(fromExt') = 0
    BY <2>0, <2>3
  <2>5. \A d \in EX_Clients : FreePending(d)' => /\ FreePending(d) /\ caller'[d].block = caller[d].block
                                                 /\ caller'[d].size = caller[d].size
    BY <2>1, <2>2 DEF FreePending
  <2>6. 1 .. Len(fromExt') = {}
    BY <2>4
  <2> QED BY SMTT(30), <1>v, <2>0, <2>5, <2>6 DEF EX_Given
<1>6. ASSUME NEW c \in EX_Clients, ServerDies(c) PROVE EX_Given'
  <2>1. \A d \in EX_Clients : ~FreePending(d)' /\ caller'[d].at # "recv"
    BY <1>6, EX_IdleType DEF ServerDies, FreePending
  <2> QED BY <1>6, <1>v, <2>1 DEF ServerDies, EX_Given, library
<1>7. ASSUME NEW c \in EX_Clients, RecvWord(c) PROVE EX_Given'
  <2>0. /\ caller[c].at = "recv" /\ fromExt # <<>> /\ fromExt' = Tail(fromExt)
        /\ UNCHANGED <<toExt, mapped>>
    BY <1>7 DEF RecvWord
  <2>1. toExt = <<>>
    BY <1>0, <2>0 DEF EX_Exchange
  <2>2. \A d \in EX_Clients : d # c => caller[d].at # "recv"
    BY <1>m, <2>0
  <2>3. /\ Len(fromExt') = Len(fromExt) - 1 /\ Len(fromExt) \in Nat /\ Len(fromExt) >= 1
        /\ \A k \in 1 .. Len(fromExt') : fromExt'[k] = fromExt[k + 1]
        /\ Head(fromExt) = fromExt[1]
    <3> DEFINE W == [call : Nat, block : Places]
    <3>1. fromExt \in Seq(W)
      BY <1>0 DEF EX_Types
    <3> HIDE DEF W
    <3>2. Len(fromExt) \in Nat \ {0}
      BY <3>1, <2>0, EX_EmptySeq
    <3> QED BY <3>1, <3>2, <2>0, EX_HeadTail
  <2>4. CASE caller[c].got + 1 = ResultSize(caller[c].cmd)
    <3>1. caller'[c] = Idle /\ \A d \in EX_Clients : d # c => caller'[d] = caller[d]
      <4>1. caller' = [caller EXCEPT ![c] = Idle]
        BY <1>7, <2>4 DEF RecvWord, Return
      <4> QED BY Zenon, <1>0, <4>1, EX_CallerSet
    <3>2. \A d \in EX_Clients : caller'[d].at # "recv"
      BY <2>2, <3>1, EX_IdleType
    <3>3. \A d \in EX_Clients : FreePending(d)' => FreePending(d) /\ caller'[d] = caller[d]
      BY SMTT(30), <2>2, <3>1, EX_IdleType DEF FreePending
    <3>4. CASE held' = held
      BY SMTT(30), <1>v, <2>0, <3>2, <3>3, <3>4 DEF EX_Given
    <3>5. CASE caller[c].cmd = "ALLOC" /\ Head(fromExt).block # EX_Failed
      <4> DEFINE x == [address |-> Head(fromExt).block, size |-> caller[c].size]
      <4>1. held' = held \cup {x}
        BY <1>7, <2>4, <3>5 DEF RecvWord
      <4>2. 1 \in 1 .. Len(fromExt)
        BY SMTT(30), <2>3
      <4>3. /\ x \in mapped \ held
            /\ \A d \in EX_Clients : FreePending(d) => caller[d].block # x.address
        BY <1>v, <2>0, <2>3, <3>5, <4>2
      <4> HIDE DEF x
      <4>4. \A d \in EX_Clients : FreePending(d)' =>
               \E b \in mapped' \ held' : b.address = caller'[d].block /\ caller'[d].size \in {0, b.size}
        BY SMTT(30), <1>v, <2>0, <3>3, <4>1, <4>3
      <4> QED BY <1>v, <2>0, <3>2, <3>3, <4>1, <4>3, <4>4 DEF EX_Given
    <3> QED BY <1>7, <2>4, <3>4, <3>5 DEF RecvWord
  <2>5. CASE caller[c].got + 1 # ResultSize(caller[c].cmd)
    <3>1. /\ caller'[c].at = "recv" /\ caller'[c].cmd = caller[c].cmd /\ caller'[c].size = caller[c].size
          /\ \A d \in EX_Clients : d # c => caller'[d] = caller[d]
          /\ held' = held
      BY SMTT(30), <1>0, <1>7, <2>0, <2>5 DEF RecvWord, EX_Types, Callers
    <3>2. \A d \in EX_Clients : FreePending(d)' => FreePending(d) /\ caller'[d] = caller[d]
      BY <2>0, <2>1, <3>1 DEF FreePending
    <3>3. \A d \in EX_Clients : caller'[d].at = "recv" => d = c
      BY <2>2, <3>1
    <3>4. \A k \in 1 .. Len(fromExt') : k + 1 \in 1 .. Len(fromExt) /\ fromExt'[k] = fromExt[k + 1]
      BY <2>3
    <3> QED BY <1>v, <2>0, <3>1, <3>2, <3>3, <3>4 DEF EX_Given
  <2> QED BY <2>4, <2>5
<1>8. CASE LibraryStep
  <2>0. toExt # <<>> /\ toExt' = Tail(toExt) /\ UNCHANGED <<caller, held>>
    BY <1>8 DEF LibraryStep, DispatchAlloc, DispatchFree, DispatchOther, Dispatch
  <2>1. PICK c \in EX_Clients : /\ caller[c].at = "recv" /\ pdata.mutex = c
                                /\ Head(toExt).cmd = caller[c].cmd /\ Head(toExt).size = caller[c].size
    BY <1>0, <2>0, EX_Head
  <2>2. toExt' = <<>> /\ fromExt = <<>> /\ Head(toExt) \in Callers
    BY <1>0, <2>0, EX_Head
  <2>3. \A d \in EX_Clients : caller[d].at = "recv" => d = c
    BY <1>m, <2>1
  <2>4. \A d \in EX_Clients : FreePending(d)' => FreePending(d) /\ d # c
    BY SMTT(30), <2>0, <2>1, <2>2 DEF FreePending
  <2>5. CASE DispatchAlloc
    <3>1. PICK a \in (EX_Addresses \ {b.address : b \in mapped}) \cup {EX_Failed} :
             /\ mapped' = IF a = EX_Failed THEN mapped
                          ELSE mapped \cup {[address |-> a, size |-> Head(toExt).size]}
             /\ fromExt' = fromExt \o Answer(Head(toExt), a)
      BY Zenon, <2>5 DEF DispatchAlloc
    <3>2. a \in Places
      BY <3>1 DEF Places
    <3> DEFINE A == Answer(Head(toExt), a)
    <3>3. fromExt' = A
      BY <2>2, <3>1, <3>2, EX_AnswerType, EX_ConcatEmpty
    <3>4. \A k \in 1 .. Len(A) : A[k].block = a
      <4>1. \A k \in 1 .. Len(A) : A[k] = [call |-> Head(toExt).call, block |-> a]
        BY <2>2, <3>2, EX_AnswerType
      <4> HIDE DEF A
      <4> QED BY <4>1
    <3> HIDE DEF A
    <3> DEFINE x == [address |-> a, size |-> caller[c].size]
    <3>5. \A k \in 1 .. Len(fromExt') : fromExt'[k].block = a
      BY <3>3, <3>4
    <3>6. \A b \in mapped : b.address # a
      <4>1. \A b \in mapped : b.address \in EX_Addresses
        BY <1>0 DEF EX_Types, Blocks
      <4> QED BY <3>1, <4>1, EXAssumption
    <3>7. mapped' = IF a = EX_Failed THEN mapped ELSE mapped \cup {x}
      BY Zenon, <2>1, <3>1
    <3>8. x.address = a
      OBVIOUS
    <3>9. a # EX_Failed => x \in mapped' \ held' /\ \A d \in EX_Clients : FreePending(d) => caller[d].block # a
      <4> HIDE DEF x
      <4> QED BY SMTT(30), <1>v, <2>0, <3>6, <3>7, <3>8
    <3>10. \A d \in EX_Clients : caller'[d].at = "recv" /\ caller'[d].cmd = "ALLOC" =>
              \A k \in 1 .. Len(fromExt') : fromExt'[k].block # EX_Failed =>
                 /\ [address |-> fromExt'[k].block, size |-> caller'[d].size] \in mapped' \ held'
                 /\ \A f \in EX_Clients : FreePending(f)' => caller'[f].block # fromExt'[k].block
      BY <2>0, <2>3, <2>4, <3>5, <3>9
    <3> HIDE DEF x
    <3>11. mapped \subseteq mapped'
      BY SMTT(30), <3>7
    <3> QED BY <1>v, <2>0, <2>4, <3>10, <3>11 DEF EX_Given
  <2>6. CASE DispatchFree
    <3>0. Dispatch("FREE") /\ Head(toExt).cmd = "FREE"
      BY SMTT(30), <2>6 DEF DispatchFree, Dispatch
    <3>1. PICK f \in EX_Clients, b \in mapped \ held :
             /\ caller[f].at = "recv" /\ FreePending(f) /\ caller[f].block = b.address
             /\ Head(toExt).block = b.address /\ Head(toExt).size \in {0, b.size}
             /\ allocListFind(b.address) = b.size
      BY <3>0, EX_Freed
    <3>2. mapped' = mapped \ {b}
      BY ZenonT(40), <2>6, <3>1, EX_FreedIs
    <3>3. f = c
      BY SMTT(30), <2>3, <3>1
    <3>4. \A d \in EX_Clients : FreePending(d)' => caller[d].block # b.address
      BY <1>v, <2>4, <3>1, <3>3
    <3>5. \A d \in EX_Clients : caller'[d].at = "recv" => caller'[d].cmd # "ALLOC"
      BY SMTT(30), <2>0, <2>1, <2>3, <3>0
    <3> QED BY <1>v, <2>0, <2>4, <3>1, <3>2, <3>4, <3>5 DEF EX_Given
  <2>7. CASE DispatchOther
    <3>1. Head(toExt).cmd # "ALLOC" /\ mapped' = mapped
      BY <2>7 DEF DispatchOther, Dispatch
    <3>2. \A d \in EX_Clients : caller'[d].at = "recv" => caller'[d].cmd # "ALLOC"
      BY <2>0, <2>1, <2>3, <3>1
    <3> QED BY <1>v, <2>0, <2>4, <3>1, <3>2 DEF EX_Given
  <2> QED BY <1>8, <2>5, <2>6, <2>7 DEF LibraryStep
<1>9. ASSUME NEW c \in EX_Clients, NewCall(c) PROVE EX_Given'
  BY <1>9, <1>1, <1>2 DEF NewCall, ext_alloc, ext_createThread, ext_loadModule, ext_speedhack_setSpeed
<1>10. ASSUME NEW c \in EX_Clients, CallStep(c) PROVE EX_Given'
  <2>1. CASE LoadLock(c)
    BY <2>1, <1>3 DEF LoadLock, library
  <2>2. CASE loadExtension(c)
    BY <2>2, <1>3 DEF loadExtension, library
  <2>3. CASE openExtension(c)
    BY <2>3, <1>3 DEF openExtension, library
  <2>4. CASE LoadReturns(c)
    <3>1. CASE pdata.loaded
      <4>1. CallerGoes(c, "loaded", "lock") /\ UNCHANGED <<toExt, fromExt, mapped, held>>
        BY <2>4, <3>1 DEF LoadReturns, CallerGoes, library
      <4> QED BY <4>1, <1>3
    <3>2. CASE ~pdata.loaded
      BY Zenon, <2>4, <3>2, <1>4 DEF LoadReturns, library
    <3> QED BY <3>1, <3>2
  <2>5. CASE LockForCommand(c)
    BY <2>5, <1>3 DEF LockForCommand, library
  <2>6. CASE SendCommand(c)
    <3>1. CASE ~pdata.fd
      BY <2>6, <3>1, <1>4 DEF SendCommand, Return
    <3> QED BY <2>6, <3>1, <1>5
  <2>7. CASE RecvClosed(c)
    BY <2>7, <1>4 DEF RecvClosed, Return, library
  <2> QED BY <1>10, <1>6, <1>7, <2>1, <2>2, <2>3, <2>4, <2>5, <2>6, <2>7 DEF CallStep
<1>11. CASE ProcessEnds
  BY <1>11 DEF ProcessEnds
<1> QED BY EX_Next, <1>8, <1>9, <1>10, <1>11 DEF EX_Next

\* Every step of the callers and of the extension keeps the invariant
LEMMA EX_Step == EX_Inv /\ [EX_Next]_exVars => EX_Inv'
<1>1. EX_Inv /\ EX_Next => EX_Inv'
  BY EX_TypeStep, EX_ExchangeStep, EX_OpenedStep, EX_ListedStep, EX_GivenStep DEF EX_Inv
<1>2. EX_Inv /\ UNCHANGED exVars => EX_Inv'
  <2> SUFFICES ASSUME EX_Inv, UNCHANGED exVars PROVE EX_Inv'
    OBVIOUS
  <2>0. /\ process' = process /\ pdata' = pdata /\ caller' = caller /\ toExt' = toExt
        /\ fromExt' = fromExt /\ allocList' = allocList /\ mapped' = mapped /\ held' = held
        /\ exCount' = exCount
    BY DEF exVars
  <2>1. EX_Types' /\ EX_Exchange'
    BY <2>0 DEF EX_Inv, EX_Types, EX_Exchange
  <2>2. EX_Opened' /\ EX_Listed'
    BY SMTT(30), <2>0 DEF EX_Inv, EX_Opened, EX_Listed
  <2>3. EX_Given'
    BY <2>0 DEF EX_Inv, EX_Given, FreePending
  <2> QED BY <2>1, <2>2, <2>3 DEF EX_Inv
<1> QED BY <1>1, <1>2

\* Commands and answers on the socket of the extension, its lock and the blocks it has
\* allocated are as EX_Inv says, in every state.
THEOREM EX_Invariant == EX_Spec => []EX_Inv
  BY EX_InitInv, EX_Step, PTL DEF EX_Spec

\* For any number of connections and calls: the socket of the extension is opened once,
\* and its words answer the call that holds extensionMutex (extensionfunctions.c).
THEOREM EX_AnswersMatchCalls == EX_Spec => []AnswersMatchCalls
<1>1. EX_Inv => AnswersMatchCalls
  <2> SUFFICES ASSUME EX_Inv PROVE AnswersMatchCalls
    OBVIOUS
  <2>1. ConnectsOnce
    BY DEF EX_Inv, EX_Opened, ConnectsOnce
  <2>2. fromExt # <<>> => \E c \in EX_Clients : 
          /\ pdata.mutex = c /\ caller[c].at = "recv"
          /\ \A k \in 1 .. Len(fromExt) : fromExt[k].call = caller[c].call
    BY DEF EX_Inv, EX_Exchange
  <2>3. AnswersOwnCommand
    BY <2>2 DEF AnswersOwnCommand
  <2> QED BY <2>1, <2>3 DEF AnswersMatchCalls
<1> QED BY <1>1, EX_Invariant, PTL

\* For any number of connections, addresses and calls: what clients hold is mapped and
\* in allocList with its size, and the list has room for one more (server.c).
THEOREM EX_AllocationsKnown == EX_Spec => []AllocationsKnown
<1>1. EX_Inv => AllocationsKnown
  <2> SUFFICES ASSUME EX_Inv PROVE AllocationsKnown
    OBVIOUS
  <2>1. ListHasRoom
    BY DEF EX_Inv, EX_Listed, ListHasRoom
  <2>2. HeldIsKnown
    BY EX_Found DEF EX_Inv, EX_Given, HeldIsKnown
  <2> QED BY <2>1, <2>2 DEF AllocationsKnown
<1> QED BY <1>1, EX_Invariant, PTL
=============================================================================
