-------------------------- MODULE PeerPaths_proofs ---------------------------
(***************************************************************************)
(* Proofs about PeerPaths, for any number of nodes, addresses, entries and *)
(* map responses.  Everything rests on two facts about the table: what an  *)
(* entry holds was learned from its own node, and only the first entry of  *)
(* a node learns anything.                                                 *)
(***************************************************************************)
EXTENDS PeerPaths, WellFoundedInduction, SequenceTheorems, TLAPS

\* The entries of the response being read, or of the last one read.
Rewritten == IF parse.at = "idle" THEN count ELSE parse.next

\* Between its two steps the parser has an empty entry in its hands, and from
\* its first step on no address stands for the table.
ParseInv ==
    /\ parse.at = "fill" =>
         parse.todo # <<>> /\ parse.next < MaxPeers /\ table[parse.next] = Cleared
    /\ parse.at # "idle" => synced = {}

\* What an entry holds is its node's.
Owned(e) ==
    IF e.node \in Nodes
    THEN /\ e.direct \in HomesOf[e.node] \cup {NoAddr}
         /\ \A j \in DOMAIN e.eps : e.eps[j] \in HomesOf[e.node]
    ELSE ~e.valid /\ e.direct = NoAddr /\ e.eps = <<>>

\* A direct path is never younger than the last packet of its node.
Heard(e) ==
    e.direct # NoAddr => last[e.node].addr # NoAddr /\ last[e.node].age <= e.age

EntriesInv == \A i \in Slots : Owned(table[i]) /\ Heard(table[i])

\* In the part of the table that belongs to one response, only the first entry
\* of a node learns anything.
FirstInv ==
    \A i \in Slots : i < Rewritten =>
        /\ table[i].valid /\ table[i].node \in Nodes
        /\ table[i].eps # <<>> \/ table[i].direct # NoAddr =>
             i < count /\ \A j \in Slots : j < i => table[j].node # table[i].node

\* There, the address of a direct path is that of a recorded endpoint, and the
\* path is as young as the packets from its address.
PathInv ==
    \A i \in Slots : i < Rewritten /\ table[i].direct # NoAddr =>
        LET e == table[i] IN
        /\ \E j \in DOMAIN e.eps : HostOf[e.eps[j]] = HostOf[e.direct]
        /\ e.direct = last[e.node].addr => e.age <= last[e.node].age

\* The addresses in the WireGuard device.
AddressInv ==
    /\ \A n \in Nodes : wg[n].via = "real" => wg[n].addr \in HomesOf[n]
    /\ \A n \in synced :
         /\ wg[n].via # "none"
         /\ \E i \in InTable : table[i].node = n
         /\ wg[n].via = "virtual" =>
              wg[n].slot \in InTable /\ table[wg[n].slot].node = n

TableInv == EntriesInv /\ FirstInv /\ PathInv

PathsInv == TypeOK /\ ParseInv /\ TableInv /\ AddressInv
-----------------------------------------------------------------------------
(* Operators *)

LEMMA LeastNatural ==
    ASSUME NEW S, S \subseteq Nat, S # {}
    PROVE  \E i \in S : \A j \in S : i <= j
<1> DEFINE R == {p \in Nat \X Nat : p[1] < p[2]}
<1>1. IsWellFoundedOn(R, Nat)
  BY NatLessThanWellFounded DEF OpToRel
<1>2. PICK i \in S : \A j \in S : ~ (<<j, i>> \in R)
  BY <1>1, WFMin
<1>3. ASSUME NEW j \in S PROVE i <= j
  <2>1. i \in Nat /\ j \in Nat
    OBVIOUS
  <2>2. j < i => <<j, i>> \in R
    BY <2>1
  <2> QED
    BY <1>2, <2>1, <2>2
<1> QED
  BY <1>3

LEMMA SmallestIn ==
    ASSUME NEW S, S \subseteq Slots, S # {}
    PROVE  Smallest(S) \in S /\ \A j \in S : Smallest(S) <= j
<1>1. S \subseteq Nat
  BY DEF Slots
<1>2. \E i \in S : \A j \in S : i <= j
  BY <1>1, LeastNatural
<1> QED
  BY <1>2 DEF Smallest

LEMMA LargestIn ==
    ASSUME NEW S, S \subseteq Slots, S # {}
    PROVE  \E i \in S : \A j \in S : j <= i
<1> DEFINE T == {MaxPeers - i : i \in S}
<1>1. T \subseteq Nat /\ T # {}
  BY PathsAssumption DEF Slots
<1>2. PICK t \in T : \A u \in T : t <= u
  BY <1>1, LeastNatural
<1>3. PICK i \in S : t = MaxPeers - i
  OBVIOUS
<1>4. ASSUME NEW j \in S PROVE j <= i
  <2>1. MaxPeers - i <= MaxPeers - j
    BY <1>2, <1>3
  <2> QED
    BY <2>1, PathsAssumption DEF Slots
<1> QED
  BY <1>4

\* IndexOf yields the first entry of the node, if it has one.
LEMMA IndexOfFirst ==
    ASSUME NEW n, NEW i \in IndexOf(n)
    PROVE  /\ i \in InTable /\ table[i].node = n /\ IndexOf(n) = {i}
           /\ \A j \in InTable : table[j].node = n => i <= j
<1> DEFINE S == {k \in InTable : table[k].node = n}
<1>1. S # {} /\ IndexOf(n) = {Smallest(S)}
  BY DEF IndexOf
<1>2. S \subseteq Slots
  BY DEF InTable
<1> QED
  BY <1>1, <1>2, SmallestIn

LEMMA IndexOfSome ==
    ASSUME NEW n, NEW i \in InTable, table[i].node = n
    PROVE  IndexOf(n) # {}
  BY DEF IndexOf

\* The entry a virtual address means is in the table; a slot in it means itself.
LEMMA TargetIn ==
    ASSUME NEW i
    PROVE  /\ \A k \in Target(i) : k \in InTable /\ Target(i) = {k}
           /\ i \in InTable => Target(i) = {i}
<1>1. InTable # {} => Smallest(InTable) \in InTable
  BY SmallestIn DEF InTable
<1> QED
  BY <1>1 DEF Target

\* The entry a direct packet is attributed to is the first that lists its host.
LEMMA OwnersOfFirst ==
    ASSUME NEW a, NEW i \in OwnersOf(a)
    PROVE  /\ i \in InTable /\ OwnersOf(a) = {i}
           /\ \E j \in DOMAIN table[i].eps : HostOf[table[i].eps[j]] = HostOf[a]
           /\ \A k \in InTable :
                (\E j \in DOMAIN table[k].eps : HostOf[table[k].eps[j]] = HostOf[a]) => i <= k
<1> DEFINE S == {k \in InTable : \E j \in DOMAIN table[k].eps : HostOf[table[k].eps[j]] = HostOf[a]}
<1>1. S # {} /\ OwnersOf(a) = {Smallest(S)}
  BY DEF OwnersOf
<1>2. S \subseteq Slots
  BY DEF InTable
<1> QED
  BY <1>1, <1>2, SmallestIn

LEMMA OwnersOfSome ==
    ASSUME NEW a, NEW k \in InTable,
           \E j \in DOMAIN table[k].eps : HostOf[table[k].eps[j]] = HostOf[a]
    PROVE  OwnersOf(a) # {}
  BY DEF OwnersOf

\* The endpoints of an entry are a bounded sequence.
LEMMA ListsAreSeqs ==
    ASSUME NEW s
    PROVE  s \in EndpointLists <=> s \in Seq(Addrs) /\ Len(s) <= MaxEndpoints
<1>1. ASSUME s \in EndpointLists PROVE s \in Seq(Addrs) /\ Len(s) <= MaxEndpoints
  <2>1. PICK k \in 0 .. MaxEndpoints : s \in [1 .. k -> Addrs]
    BY <1>1 DEF EndpointLists
  <2> QED
    BY <2>1, PathsAssumption
<1>2. ASSUME s \in Seq(Addrs), Len(s) <= MaxEndpoints PROVE s \in EndpointLists
  <2>1. s \in [1 .. Len(s) -> Addrs] /\ Len(s) \in 0 .. MaxEndpoints
    BY <1>2, LenProperties, PathsAssumption
  <2> QED
    BY <2>1 DEF EndpointLists
<1> QED
  BY <1>1, <1>2

\* Appending an address: the list keeps its kind, and its other elements.
LEMMA AppendList ==
    ASSUME NEW s \in EndpointLists, NEW a \in Addrs, Len(s) < MaxEndpoints
    PROVE  /\ Append(s, a) \in EndpointLists /\ Append(s, a) # <<>>
           /\ DOMAIN s \subseteq DOMAIN Append(s, a)
           /\ \A j \in DOMAIN s : Append(s, a)[j] = s[j]
           /\ \A j \in DOMAIN Append(s, a) : Append(s, a)[j] = a \/ (j \in DOMAIN s /\ Append(s, a)[j] = s[j])
<1>1. s \in Seq(Addrs) /\ Len(s) \in Nat
  BY ListsAreSeqs, LenProperties
<1>2. /\ Append(s, a) \in Seq(Addrs) /\ Len(Append(s, a)) = Len(s) + 1
      /\ \A j \in 1 .. Len(s) : Append(s, a)[j] = s[j]
      /\ Append(s, a)[Len(s) + 1] = a
      /\ DOMAIN s = 1 .. Len(s) /\ DOMAIN Append(s, a) = 1 .. Len(s) + 1
  BY <1>1, LenProperties, AppendProperties
<1>3. Append(s, a) \in EndpointLists
  <2>1. Len(Append(s, a)) <= MaxEndpoints
    BY <1>1, <1>2, PathsAssumption
  <2> QED
    BY <1>2, <2>1, ListsAreSeqs
<1> QED
  BY <1>1, <1>2, <1>3

LEMMA EmptyList == <<>> \in EndpointLists
<1>1. <<>> \in Seq(Addrs) /\ Len(<<>>) <= MaxEndpoints
  BY PathsAssumption
<1> QED
  BY <1>1, ListsAreSeqs

LEMMA ClearedType == Cleared \in Entries
  BY EmptyList, PathsAssumption DEF Entries, Cleared, Ages

\* Updates of the fields of an entry.
LEMMA FieldUpdates ==
    ASSUME NEW e \in Entries
    PROVE  /\ \A n \in Nodes, x \in Addrs \cup {NoAddr, VirtualAddr} :
                [e EXCEPT !.node = n, !.endpoint = x, !.valid = TRUE] \in Entries
           /\ \A t \in Ages : [e EXCEPT !.age = t] \in Entries
           /\ [e EXCEPT !.direct = NoAddr, !.age = 0] \in Entries
           /\ \A s \in EndpointLists : [e EXCEPT !.eps = s] \in Entries
           /\ [e EXCEPT !.inWg = TRUE] \in Entries
<1>1. 0 \in Ages
  BY PathsAssumption DEF Ages
<1>2. ASSUME NEW n \in Nodes, NEW x \in Addrs \cup {NoAddr, VirtualAddr}
      PROVE  [e EXCEPT !.node = n, !.endpoint = x, !.valid = TRUE] \in Entries
  BY DEF Entries
<1>3. ASSUME NEW t \in Ages PROVE [e EXCEPT !.age = t] \in Entries
  BY DEF Entries
<1>4. [e EXCEPT !.direct = NoAddr, !.age = 0] \in Entries
  BY <1>1 DEF Entries
<1>5. ASSUME NEW s \in EndpointLists PROVE [e EXCEPT !.eps = s] \in Entries
  BY DEF Entries
<1>6. [e EXCEPT !.inWg = TRUE] \in Entries
  BY DEF Entries
<1> QED
  BY <1>2, <1>3, <1>4, <1>5, <1>6

\* What the helpers make of an entry is an entry, with the same node.
LEMMA EntryChanges ==
    ASSUME NEW e \in Entries, NEW a \in Addrs
    PROVE  /\ AfterRelayRx(e) \in Entries /\ AfterDirectRx(e, a) \in Entries
           /\ WithEndpoint(e, a) \in Entries
           /\ WithEndpoint([e EXCEPT !.endpoint = a], a) \in Entries
<1>0. 0 \in Ages
  BY PathsAssumption DEF Ages
<1>1. AfterRelayRx(e) \in Entries
  <2>1. [e EXCEPT !.direct = NoAddr, !.age = 0] \in Entries
    BY <1>0 DEF Entries
  <2> QED
    BY <2>1 DEF AfterRelayRx
<1>2. AfterDirectRx(e, a) \in Entries
  <2>1. (IF e.direct = NoAddr THEN a ELSE e.direct) \in Addrs \cup {NoAddr}
    BY DEF Entries
  <2>2. ASSUME NEW d \in Addrs \cup {NoAddr} PROVE [e EXCEPT !.age = 0, !.direct = d] \in Entries
    BY <1>0 DEF Entries
  <2> QED
    BY <2>1, <2>2 DEF AfterDirectRx
<1>3. ASSUME NEW f \in Entries PROVE WithEndpoint(f, a) \in Entries
  <2>1. f.eps \in EndpointLists
    BY DEF Entries
  <2>2. Len(f.eps) \in Nat
    BY <2>1, ListsAreSeqs, LenProperties
  <2>3. CASE (\E j \in DOMAIN f.eps : f.eps[j] = a) \/ Len(f.eps) >= MaxEndpoints
    BY <2>3 DEF WithEndpoint
  <2>4. CASE ~((\E j \in DOMAIN f.eps : f.eps[j] = a) \/ Len(f.eps) >= MaxEndpoints)
    <3>1. Append(f.eps, a) \in EndpointLists
      BY <2>1, <2>2, <2>4, AppendList, PathsAssumption
    <3>2. [f EXCEPT !.eps = Append(f.eps, a)] \in Entries
      BY <3>1 DEF Entries
    <3> QED
      BY <2>4, <3>2 DEF WithEndpoint
  <2> QED
    BY <2>3, <2>4
<1>4. [e EXCEPT !.endpoint = a] \in Entries
  BY DEF Entries
<1> QED
  BY <1>1, <1>2, <1>3, <1>4
-----------------------------------------------------------------------------
(* Each variable keeps its kind *)

\* A session starts in a table whose first Count(list) entries are the list's.
LEMMA SetupIs ==
    ASSUME NEW list \in MapLists
    PROVE  /\ list \in Seq(Nodes) /\ Count(list) \in 0 .. MaxPeers /\ Count(list) <= Len(list)
           /\ SetupTable(list) \in [Slots -> Entries]
           /\ SetupWg(list) \in [Nodes -> Locations]
           /\ \A i \in Slots : SetupTable(list)[i].direct = NoAddr /\ SetupTable(list)[i].eps = <<>>
           /\ \A i \in Slots : i < Count(list) =>
                /\ list[i + 1] \in Nodes
                /\ SetupTable(list)[i].valid /\ SetupTable(list)[i].node = list[i + 1]
           /\ \A i \in Slots : i >= Count(list) => SetupTable(list)[i] = Cleared
           /\ \A n \in Nodes : SetupWg(list)[n].via # "real"
           /\ \A n \in Nodes : SetupWg(list)[n].via = "virtual" =>
                /\ SetupWg(list)[n].slot \in Slots /\ SetupWg(list)[n].slot < Count(list)
                /\ list[SetupWg(list)[n].slot + 1] = n
<1>1. list \in Seq(Nodes) /\ Len(list) \in Nat
  BY PathsAssumption, LenProperties
<1>2. Count(list) \in 0 .. MaxPeers /\ Count(list) <= Len(list)
  BY <1>1, PathsAssumption DEF Count, Least
<1>3. ASSUME NEW i \in Slots, i < Count(list) PROVE list[i + 1] \in Nodes
  <2>1. i + 1 \in 1 .. Len(list)
    BY <1>1, <1>2, <1>3 DEF Slots
  <2> QED
    BY <1>1, <2>1, ElementOfSeq
<1>4. ASSUME NEW n \in Nodes
      PROVE  [Listed(n, VirtualAddr) EXCEPT !.inWg = TRUE] \in Entries
  <2>1. Listed(n, VirtualAddr) = [Cleared EXCEPT !.node = n, !.endpoint = VirtualAddr, !.valid = TRUE]
    BY DEF Listed
  <2>2. Listed(n, VirtualAddr) \in Entries
    <3>1. [Cleared EXCEPT !.node = n, !.endpoint = VirtualAddr, !.valid = TRUE] \in Entries
      BY ClearedType, FieldUpdates
    <3> QED
      BY <2>1, <3>1
  <2> QED
    BY <2>2, FieldUpdates
<1>5. ASSUME NEW i \in Slots PROVE SetupTable(list)[i] \in Entries
  BY <1>3, <1>4, ClearedType DEF SetupTable
<1>6. SetupTable(list) \in [Slots -> Entries]
  BY <1>5 DEF SetupTable
<1>7. ASSUME NEW n \in Nodes
      PROVE  /\ SetupWg(list)[n] \in Locations /\ SetupWg(list)[n].via # "real"
             /\ SetupWg(list)[n].via = "virtual" =>
                  /\ SetupWg(list)[n].slot \in Slots /\ SetupWg(list)[n].slot < Count(list)
                  /\ list[SetupWg(list)[n].slot + 1] = n
  <2> DEFINE S == {i \in Slots : i < Count(list) /\ list[i + 1] = n}
  <2>1. SetupWg(list)[n] = IF S = {} THEN Absent ELSE Virtual(Smallest(S))
    BY DEF SetupWg
  <2>2. CASE S = {}
    BY <2>1, <2>2, PathsAssumption DEF Absent, Locations, Slots
  <2>3. CASE S # {}
    <3>1. Smallest(S) \in S
      BY <2>3, SmallestIn
    <3> QED
      BY <2>1, <2>3, <3>1 DEF Virtual, Locations
  <2> QED
    BY <2>2, <2>3
<1>8. SetupWg(list) \in [Nodes -> Locations]
  BY <1>7 DEF SetupWg
<1>9. ASSUME NEW i \in Slots
      PROVE  /\ SetupTable(list)[i].direct = NoAddr /\ SetupTable(list)[i].eps = <<>>
             /\ i < Count(list) => SetupTable(list)[i].valid /\ SetupTable(list)[i].node = list[i + 1]
             /\ i >= Count(list) => SetupTable(list)[i] = Cleared
  BY <1>2 DEF SetupTable, Listed, Cleared, Slots
<1> QED
  BY <1>1, <1>2, <1>3, <1>6, <1>7, <1>8, <1>9

LEMMA InitType == Init => TypeOK
<1> SUFFICES ASSUME Init PROVE TypeOK
  OBVIOUS
<1>1. table \in [Slots -> Entries] /\ count \in 0 .. MaxPeers /\ wg \in [Nodes -> Locations]
  BY SetupIs DEF Init
<1>2. last \in [Nodes -> [addr : Addrs \cup {NoAddr}, age : Ages]]
  BY PathsAssumption DEF Init, Ages
<1>3. parse \in [at : {"idle", "clear", "fill"}, todo : Seq(Nodes), next : 0 .. MaxPeers]
  BY PathsAssumption DEF Init, Idle
<1> QED
  BY <1>1, <1>2, <1>3, PathsAssumption DEF Init, TypeOK, NoPing

\* What a step does to the table and to the addresses in the device.
LEMMA LocationTypes ==
    ASSUME NEW i \in Slots, NEW a \in Addrs
    PROVE  Virtual(i) \in Locations /\ Real(a) \in Locations
  BY PathsAssumption DEF Virtual, Real, Locations, Slots

LEMMA AddressType ==
    ASSUME wg \in [Nodes -> Locations], NEW n \in Nodes, NEW loc \in Locations
    PROVE  update_peer_addr(n, loc) \in [Nodes -> Locations]
  BY DEF update_peer_addr

LEMMA SyncedType ==
    ASSUME synced \subseteq Nodes, NEW n \in Nodes
    PROVE  SyncedWith(n) \subseteq Nodes
  BY DEF SyncedWith

LEMMA IndexOrZeroIn ==
    ASSUME NEW n
    PROVE  /\ IndexOrZero(n) \in Slots
           /\ IndexOf(n) # {} => IndexOrZero(n) \in IndexOf(n)
<1>1. 0 \in Slots
  BY PathsAssumption DEF Slots
<1>2. \A i \in IndexOf(n) : i \in Slots
  BY IndexOfFirst DEF InTable
<1> QED
  BY <1>1, <1>2 DEF IndexOrZero

LEMMA TypeStep == TypeOK /\ ParseInv /\ [Next]_vars => TypeOK'
<1> SUFFICES ASSUME TypeOK, ParseInv, [Next]_vars PROVE TypeOK'
  OBVIOUS
<1> USE DEF TypeOK
<1>0. \A i \in Slots : table[i] \in Entries
  OBVIOUS
<1>1. CASE Reconnect
  <2>1. PICK list \in MapLists :
          /\ table' = SetupTable(list) /\ count' = Count(list) /\ wg' = SetupWg(list)
          /\ synced' = {n \in Nodes : SetupWg(list)[n].via = "virtual"}
    BY <1>1 DEF Reconnect
  <2>2. maps' \in 1 .. MaxMaps
    BY <1>1, PathsAssumption DEF Reconnect
  <2> QED
    BY <1>1, <2>1, <2>2, SetupIs DEF Reconnect, NoPing
<1>2. CASE MapUpdate
  <2>1. maps' \in 1 .. MaxMaps
    BY <1>2, PathsAssumption DEF MapUpdate
  <2>2. parse' \in [at : {"idle", "clear", "fill"}, todo : Seq(Nodes), next : 0 .. MaxPeers]
    BY <1>2, PathsAssumption DEF MapUpdate
  <2> QED
    BY <1>2, <2>1, <2>2 DEF MapUpdate, Unmapped
<1>3. CASE ClearEntry
  <2>1. table' \in [Slots -> Entries]
    BY <1>3, ClearedType DEF ClearEntry, ClearedFrom
  <2> QED
    BY <1>3, <2>1 DEF ClearEntry, Unmapped
<1>4. CASE FillEntry
  <2> DEFINE n == Head(parse.todo)
  <2>1. parse.todo # <<>> /\ parse.next \in Slots
    BY <1>4, PathsAssumption DEF FillEntry, ParseInv, Slots
  <2>2. n \in Nodes /\ Tail(parse.todo) \in Seq(Nodes)
    BY <2>1, HeadTailProperties
  <2>3. PICK e \in HomesOf[n] \cup {NoAddr} :
          table' = [table EXCEPT ![parse.next].node = n, ![parse.next].endpoint = e,
                                 ![parse.next].valid = TRUE]
    BY <1>4 DEF FillEntry
  <2>4. e \in Addrs \cup {NoAddr}
    BY <2>2, PathsAssumption
  <2>5. table' \in [Slots -> Entries]
    <3>1. [table[parse.next] EXCEPT !.node = n, !.endpoint = e, !.valid = TRUE] \in Entries
      BY <2>1, <2>2, <2>4, FieldUpdates
    <3>2. table' = [table EXCEPT ![parse.next] =
                      [table[parse.next] EXCEPT !.node = n, !.endpoint = e, !.valid = TRUE]]
      BY <2>1, <2>3
    <3> QED
      BY <3>1, <3>2
  <2>6. parse' \in [at : {"idle", "clear", "fill"}, todo : Seq(Nodes), next : 0 .. MaxPeers]
    BY <1>4, <2>1, <2>2, PathsAssumption DEF FillEntry, Slots
  <2> QED
    BY <1>4, <2>5, <2>6 DEF FillEntry, Unmapped
<1>5. CASE EndParse
  BY <1>5, PathsAssumption DEF EndParse, Unmapped, Idle
<1>6. CASE Ping
  <2> DEFINE S == {i \in InTable : table[i].endpoint # NoAddr}
             newest == CHOOSE i \in S : \A j \in S : j <= i
  <2>1. S \subseteq Slots /\ S # {}
    BY <1>6 DEF Ping, InTable
  <2>2. newest \in Slots
    BY <2>1, LargestIn
  <2>3. table[newest].node \in Nodes \cup {NoNode}
        /\ table[newest].endpoint \in Addrs \cup {NoAddr, VirtualAddr}
    BY <2>2 DEF Entries
  <2>4. ping' = [node |-> table[newest].node, addr |-> table[newest].endpoint]
    BY <1>6 DEF Ping
  <2> QED
    BY <1>6, <2>3, <2>4 DEF Ping
<1>7. CASE RelayPong
  BY <1>7 DEF RelayPong, NoPing
<1>8. CASE RelayFlips
  BY <1>8 DEF RelayFlips
<1>9. CASE Tick
  <2>1. ASSUME NEW t \in Ages PROVE Older(t) \in Ages
    BY PathsAssumption DEF Older, Least, Ages
  <2>2. ASSUME NEW i \in Slots PROVE [table[i] EXCEPT !.age = Older(@)] \in Entries
    <3>1. table[i].age \in Ages
      BY DEF Entries
    <3>2. Older(table[i].age) \in Ages
      BY <2>1, <3>1
    <3> QED
      BY <3>2, FieldUpdates
  <2>3. table' \in [Slots -> Entries]
    BY <1>9, <2>2 DEF Tick
  <2>4. ASSUME NEW n \in Nodes
        PROVE  [last[n] EXCEPT !.age = Older(@)] \in [addr : Addrs \cup {NoAddr}, age : Ages]
    BY <2>1
  <2>5. last' \in [Nodes -> [addr : Addrs \cup {NoAddr}, age : Ages]]
    BY <1>9, <2>4 DEF Tick
  <2> QED
    BY <1>9, <2>3, <2>5 DEF Tick
<1>10. CASE \E n \in Nodes : Output(n)
  <2>1. PICK n \in Nodes : Output(n)
    BY <1>10
  <2>2. PICK i \in Target(wg[n].slot) : table' = [table EXCEPT ![i].direct = NoAddr, ![i].age = 0]
    BY <2>1 DEF Output
  <2>3. i \in Slots
    BY TargetIn DEF InTable
  <2>4. [table[i] EXCEPT !.direct = NoAddr, !.age = 0] \in Entries
    BY <2>3, FieldUpdates
  <2>5. table' \in [Slots -> Entries]
    BY <2>2, <2>3, <2>4
  <2> QED
    BY <2>1, <2>5 DEF Output
<1>11. CASE \E n \in Nodes : RelayReceive(n)
  <2>1. PICK n \in Nodes : RelayReceive(n)
    BY <1>11
  <2>2. IndexOrZero(n) \in Slots
    BY IndexOrZeroIn
  <2>3. AfterRelayRx(table[IndexOrZero(n)]) \in Entries
    <3>1. CASE Addrs = {}
      BY <2>2, <3>1 DEF AfterRelayRx, Entries
    <3> QED
      BY <2>2, <3>1, EntryChanges
  <2>4. table' \in [Slots -> Entries]
    BY <2>1, <2>3 DEF RelayReceive
  <2>5. Virtual(IndexOrZero(n)) \in Locations
    BY <2>2 DEF Virtual, Locations
  <2>6. wg' \in [Nodes -> Locations]
    BY <2>1, <2>5, AddressType DEF RelayReceive
  <2>7. synced' \subseteq Nodes
    BY <2>1, SyncedType DEF RelayReceive
  <2> QED
    BY <2>1, <2>4, <2>6, <2>7 DEF RelayReceive
<1>12. CASE \E n \in Nodes : Leave(n)
  BY <1>12 DEF Leave
<1>13. ASSUME NEW n \in Nodes, NEW a \in HomesOf[n], DirectReceive(n, a) PROVE TypeOK'
  <2>1. a \in Addrs
    BY PathsAssumption
  <2>2. table' \in [Slots -> Entries]
    BY <1>13, <2>1, EntryChanges DEF DirectReceive
  <2>3. \A i \in OwnersOf(a) : i \in Slots
    BY OwnersOfFirst DEF InTable
  <2>4. (IF OwnersOf(a) = {} THEN Real(a) ELSE Virtual(CHOOSE i \in OwnersOf(a) : TRUE)) \in Locations
    <3>1. CASE OwnersOf(a) = {}
      BY <3>1, <2>1, PathsAssumption DEF Real, Locations, Slots
    <3>2. CASE OwnersOf(a) # {}
      BY <3>2, <2>3 DEF Virtual, Locations
    <3> QED
      BY <3>1, <3>2
  <2>5. wg' \in [Nodes -> Locations]
    BY <1>13, <2>4, AddressType DEF DirectReceive
  <2>6. last' \in [Nodes -> [addr : Addrs \cup {NoAddr}, age : Ages]]
    BY <1>13, <2>1, PathsAssumption DEF DirectReceive, Ages
  <2>7. synced' \subseteq Nodes
    BY <1>13, SyncedType DEF DirectReceive
  <2> QED
    BY <1>13, <2>2, <2>5, <2>6, <2>7 DEF DirectReceive
<1>14. ASSUME NEW n \in Nodes, NEW a \in HomesOf[n], UdpReceive(n, a) PROVE TypeOK'
  <2>1. Real(a) \in Locations
    BY PathsAssumption DEF Real, Locations, Slots
  <2>2. wg' \in [Nodes -> Locations]
    BY <1>14, <2>1, AddressType DEF UdpReceive
  <2> QED
    BY <1>14, <2>2 DEF UdpReceive
<1>15. ASSUME NEW n \in Nodes, NEW a \in HomesOf[n], Pong(n, a) PROVE TypeOK'
  <2>1. a \in Addrs
    BY PathsAssumption
  <2>2. Real(a) \in Locations
    BY <2>1, PathsAssumption DEF Real, Locations, Slots
  <2>3. ASSUME NEW i \in IndexOf(n)
        PROVE  /\ WithEndpoint([table[i] EXCEPT !.endpoint = a], a) \in Entries
               /\ WithEndpoint(table[i], a) \in Entries
    <3>1. i \in Slots
      BY IndexOfFirst DEF InTable
    <3> QED
      BY <2>1, <3>1, EntryChanges
  <2>4. table' \in [Slots -> Entries]
    <3>1. PICK i \in IndexOf(n) :
            table' = IF table[i].inWg
                     THEN [table EXCEPT ![i] = WithEndpoint([table[i] EXCEPT !.endpoint = a], a)]
                     ELSE [table EXCEPT ![i] = WithEndpoint(table[i], a)]
      BY <1>15 DEF Pong
    <3> QED
      BY <2>3, <3>1
  <2>5. wg' \in [Nodes -> Locations]
    BY <1>15, <2>2 DEF Pong
  <2> QED
    BY <1>15, <2>4, <2>5 DEF Pong, NoPing
<1>16. ASSUME NEW n \in Nodes, NEW a \in HomesOf[n], CallMeMaybe(n, a) PROVE TypeOK'
  <2>1. a \in Addrs
    BY PathsAssumption
  <2>2. PICK i \in IndexOf(n) :
          table' = IF Len(table[i].eps) < MaxEndpoints
                   THEN [table EXCEPT ![i].eps = Append(@, a)] ELSE table
    BY <1>16 DEF CallMeMaybe
  <2>3. i \in Slots
    BY IndexOfFirst DEF InTable
  <2>4. table[i].eps \in EndpointLists
    BY <2>3 DEF Entries
  <2>5. CASE Len(table[i].eps) < MaxEndpoints
    <3>1. [table[i] EXCEPT !.eps = Append(@, a)] \in Entries
      <4>1. Append(table[i].eps, a) \in EndpointLists
        BY <2>1, <2>4, <2>5, AppendList
      <4> QED
        BY <2>3, <4>1, FieldUpdates
    <3>2. table' \in [Slots -> Entries]
      BY <2>2, <2>3, <2>5, <3>1
    <3> QED
      BY <1>16, <2>1, <3>2 DEF CallMeMaybe
  <2>6. CASE ~(Len(table[i].eps) < MaxEndpoints)
    BY <1>16, <2>1, <2>2, <2>6 DEF CallMeMaybe
  <2> QED
    BY <2>5, <2>6
<1>17. CASE UNCHANGED vars
  BY <1>17 DEF vars
<1> QED
  BY <1>1, <1>2, <1>3, <1>4, <1>5, <1>6, <1>7, <1>8, <1>9, <1>10, <1>11, <1>12, <1>13, <1>14,
     <1>15, <1>16, <1>17 DEF Next
-----------------------------------------------------------------------------
(* The table *)

\* A packet is attributed to the entry of its sender, or to none.
LEMMA OwnerIsSender ==
    ASSUME TypeOK, EntriesInv, NEW n \in Nodes, NEW a \in HomesOf[n], NEW i \in OwnersOf(a)
    PROVE  i \in InTable /\ i \in Slots /\ table[i].node = n /\ table[i].eps # <<>>
<1>1. i \in InTable /\ i \in Slots
  BY OwnersOfFirst DEF InTable
<1>2. PICK j \in DOMAIN table[i].eps : HostOf[table[i].eps[j]] = HostOf[a]
  BY OwnersOfFirst
<1>3. table[i].valid /\ Owned(table[i])
  BY <1>1 DEF InTable, EntriesInv
<1>4. table[i].node \in Nodes /\ table[i].eps[j] \in HomesOf[table[i].node]
  BY <1>3 DEF Owned
<1>5. table[i].node = n
  BY <1>2, <1>4, PathsAssumption
<1>6. table[i].eps # <<>>
  BY <1>2
<1> QED
  BY <1>1, <1>5, <1>6

\* A step may record an endpoint in the first entry of its node, and give up a
\* direct path, in any entry: what the entries say of each other stays true.
Kept(i) ==
    /\ table'[i].node = table[i].node /\ table'[i].valid = table[i].valid
    /\ table'[i].direct # NoAddr =>
         table'[i].direct = table[i].direct /\ table'[i].age = table[i].age
    /\ \/ table'[i].eps = table[i].eps
       \/ /\ i \in InTable /\ \A j \in InTable : table[j].node = table[i].node => i <= j
          /\ Len(table[i].eps) < MaxEndpoints
          /\ \E a \in HomesOf[table[i].node] : table'[i].eps = Append(table[i].eps, a)

LEMMA KeptList ==
    ASSUME TypeOK, EntriesInv, NEW i \in Slots, Kept(i)
    PROVE  /\ DOMAIN table[i].eps \subseteq DOMAIN table'[i].eps
           /\ \A j \in DOMAIN table[i].eps : table'[i].eps[j] = table[i].eps[j]
           /\ Owned(table'[i])
<1>1. table[i] \in Entries /\ table[i].eps \in EndpointLists
  BY DEF TypeOK, Entries
<1>2. Owned(table[i])
  BY DEF EntriesInv
<1>3. CASE table'[i].eps = table[i].eps
  BY <1>2, <1>3 DEF Kept, Owned
<1>4. CASE table'[i].eps # table[i].eps
  <2>1. i \in InTable /\ Len(table[i].eps) < MaxEndpoints
    BY <1>4 DEF Kept
  <2>2. table[i].valid /\ table[i].node \in Nodes
    BY <1>2, <2>1 DEF InTable, Owned
  <2>3. PICK a \in HomesOf[table[i].node] : table'[i].eps = Append(table[i].eps, a)
    BY <1>4 DEF Kept
  <2>4. a \in Addrs
    BY <2>2, PathsAssumption
  <2>5. /\ DOMAIN table[i].eps \subseteq DOMAIN table'[i].eps
        /\ \A j \in DOMAIN table[i].eps : table'[i].eps[j] = table[i].eps[j]
        /\ \A j \in DOMAIN table'[i].eps : table'[i].eps[j] = a
             \/ (j \in DOMAIN table[i].eps /\ table'[i].eps[j] = table[i].eps[j])
    BY <1>1, <2>1, <2>3, <2>4, AppendList
  <2>6. table'[i].node = table[i].node /\ table'[i].direct \in {NoAddr, table[i].direct}
    BY DEF Kept
  <2>7. Owned(table'[i])
    BY <1>2, <2>2, <2>5, <2>6 DEF Owned
  <2> QED
    BY <2>5, <2>7
<1> QED
  BY <1>3, <1>4

LEMMA KeptTable ==
    ASSUME TypeOK, TableInv, UNCHANGED <<count, parse, last>>, \A i \in Slots : Kept(i)
    PROVE  TableInv'
<1> USE DEF TableInv
<1>1. EntriesInv'
  <2> SUFFICES ASSUME NEW i \in Slots PROVE Owned(table'[i]) /\ Heard(table[i])'
    BY DEF EntriesInv, Owned
  <2>1. Heard(table[i]) /\ Kept(i)
    BY DEF EntriesInv
  <2>2. Heard(table[i])'
    BY <2>1 DEF Heard, Kept
  <2> QED
    BY <2>1, <2>2, KeptList
<1>2. Rewritten' = Rewritten
  BY DEF Rewritten
<1>3. FirstInv'
  <2> SUFFICES ASSUME NEW i \in Slots, i < Rewritten
               PROVE  /\ table'[i].valid /\ table'[i].node \in Nodes
                      /\ table'[i].eps # <<>> \/ table'[i].direct # NoAddr =>
                           i < count /\ \A j \in Slots : j < i => table'[j].node # table'[i].node
    BY <1>2 DEF FirstInv
  <2>1. table'[i].valid /\ table'[i].node \in Nodes /\ table'[i].node = table[i].node
    BY DEF FirstInv, Kept
  <2>2. CASE table'[i].eps = table[i].eps
    <3>1. \A j \in Slots : table'[j].node = table[j].node
      BY DEF Kept
    <3> QED
      BY <2>1, <2>2, <3>1 DEF FirstInv, Kept
  <2>3. CASE table'[i].eps # table[i].eps
    <3>1. i \in InTable /\ \A j \in InTable : table[j].node = table[i].node => i <= j
      BY <2>3 DEF Kept
    <3>2. i < count /\ count \in Nat /\ Rewritten \in Nat
      BY <3>1 DEF InTable, TypeOK, Rewritten
    <3>3. ASSUME NEW j \in Slots, j < i PROVE table'[j].node # table'[i].node
      <4>1. table[j].valid /\ j < count
        BY <3>2, <3>3 DEF FirstInv, Slots
      <4>2. j \in InTable /\ ~(i <= j)
        BY <3>3, <4>1 DEF InTable, Slots
      <4> QED
        BY <3>1, <4>2 DEF Kept
    <3> QED
      BY <2>1, <3>2, <3>3
  <2> QED
    BY <2>2, <2>3
<1>4. PathInv'
  <2> SUFFICES ASSUME NEW i \in Slots, i < Rewritten, table'[i].direct # NoAddr
               PROVE  /\ \E j \in DOMAIN table'[i].eps :
                           HostOf[table'[i].eps[j]] = HostOf[table'[i].direct]
                      /\ table'[i].direct = last[table'[i].node].addr =>
                           table'[i].age <= last[table'[i].node].age
    BY <1>2 DEF PathInv
  <2>1. /\ table'[i].direct = table[i].direct /\ table'[i].age = table[i].age
        /\ table'[i].node = table[i].node
    BY DEF Kept
  <2>2. /\ \E j \in DOMAIN table[i].eps : HostOf[table[i].eps[j]] = HostOf[table[i].direct]
        /\ table[i].direct = last[table[i].node].addr => table[i].age <= last[table[i].node].age
    BY <2>1 DEF PathInv
  <2> QED
    BY <2>1, <2>2, KeptList
<1> QED
  BY <1>1, <1>3, <1>4

\* A step that changes one entry keeps the table if it keeps that entry.
LEMMA KeptOne ==
    ASSUME TypeOK, TableInv, UNCHANGED <<count, parse, last>>, NEW k \in Slots, NEW e,
           table' = [table EXCEPT ![k] = e], Kept(k)
    PROVE  TableInv'
<1>1. ASSUME NEW i \in Slots, i # k PROVE Kept(i)
  BY <1>1 DEF Kept, TypeOK
<1> QED
  BY <1>1, KeptTable

\* Every path that a packet of n from address a proves to be alive is refreshed.
LEMMA DirectReceiveTable ==
    ASSUME TypeOK, TableInv, NEW n \in Nodes, NEW a \in HomesOf[n], DirectReceive(n, a)
    PROVE  TableInv'
<1> USE DEF TableInv
<1>1. a \in Addrs /\ a # NoAddr
  BY PathsAssumption
<1>2. /\ table' = [i \in Slots |-> IF i \in OwnersOf(a) THEN AfterDirectRx(table[i], a) ELSE table[i]]
      /\ last' = [last EXCEPT ![n] = [addr |-> a, age |-> 0]]
      /\ UNCHANGED <<count, parse>>
  BY DEF DirectReceive
<1>3. Rewritten' = Rewritten
  BY <1>2 DEF Rewritten
<1>4. \A i \in Slots : table[i] \in Entries /\ Owned(table[i]) /\ Heard(table[i])
  BY DEF TypeOK, EntriesInv
<1>5. ASSUME NEW i \in Slots, i \in OwnersOf(a)
      PROVE  /\ table[i].node = n /\ i \in InTable /\ table[i].eps # <<>>
             /\ table'[i] = [table[i] EXCEPT !.age = 0, !.direct = IF @ = NoAddr THEN a ELSE @]
             /\ table'[i].age = 0 /\ table'[i].eps = table[i].eps /\ table'[i].node = table[i].node
             /\ table'[i].valid = table[i].valid
             /\ table'[i].direct = IF table[i].direct = NoAddr THEN a ELSE table[i].direct
  <2>1. table[i].node = n /\ i \in InTable /\ table[i].eps # <<>>
    BY <1>5, OwnerIsSender
  <2>2. table'[i] = [table[i] EXCEPT !.age = 0, !.direct = IF @ = NoAddr THEN a ELSE @]
    BY <1>2, <1>5 DEF AfterDirectRx
  <2> QED
    BY <1>4, <2>1, <2>2 DEF Entries
<1>6. ASSUME NEW i \in Slots, i \notin OwnersOf(a) PROVE table'[i] = table[i]
  BY <1>2, <1>6
<1>7. \A i \in Slots : /\ table'[i].node = table[i].node /\ table'[i].valid = table[i].valid
                       /\ table'[i].eps = table[i].eps
  BY <1>5, <1>6
<1>8. /\ last'[n].addr = a /\ last'[n].age = 0
      /\ \A m \in Nodes : m # n => last'[m] = last[m]
  BY <1>2 DEF TypeOK
<1>9. EntriesInv'
  <2> SUFFICES ASSUME NEW i \in Slots PROVE Owned(table'[i]) /\ Heard(table[i])'
    BY DEF EntriesInv, Owned
  <2>1. CASE i \in OwnersOf(a)
    <3>1. Owned(table'[i])
      <4>1. /\ table'[i].node = n /\ table'[i].eps = table[i].eps /\ Owned(table[i]) /\ table[i].node = n
            /\ table'[i].direct = table[i].direct \/ table'[i].direct = a
        BY <1>4, <1>5, <2>1
      <4> QED
        BY <4>1 DEF Owned
    <3>2. table'[i].node = n /\ table'[i].age = 0
      BY <1>5, <2>1
    <3>3. last'[table'[i].node].addr # NoAddr /\ last'[table'[i].node].age <= table'[i].age
      BY <1>1, <1>8, <3>2
    <3>4. Heard(table[i])'
      BY <3>3 DEF Heard
    <3> QED
      BY <3>1, <3>4
  <2>2. CASE i \notin OwnersOf(a)
    <3>1. table[i].direct # NoAddr => table[i].node \in Nodes
      BY <1>4 DEF Owned
    <3>2. table[i].age \in Nat
      BY <1>4, PathsAssumption DEF Entries, Ages
    <3>3. Heard(table[i])'
      BY <1>1, <1>4, <1>6, <1>8, <2>2, <3>1, <3>2 DEF Heard
    <3> QED
      BY <1>4, <1>6, <2>2, <3>3
  <2> QED
    BY <2>1, <2>2
<1>10. FirstInv'
  <2> SUFFICES ASSUME NEW i \in Slots, i < Rewritten
               PROVE  /\ table'[i].valid /\ table'[i].node \in Nodes
                      /\ table'[i].eps # <<>> \/ table'[i].direct # NoAddr =>
                           i < count /\ \A j \in Slots : j < i => table'[j].node # table'[i].node
    BY <1>2, <1>3 DEF FirstInv
  <2>1. table'[i].direct # NoAddr => table[i].direct # NoAddr \/ table[i].eps # <<>>
    BY <1>5, <1>6
  <2> QED
    BY <1>7, <2>1 DEF FirstInv
<1>11. PathInv'
  <2> SUFFICES ASSUME NEW i \in Slots, i < Rewritten, table'[i].direct # NoAddr
               PROVE  /\ \E j \in DOMAIN table'[i].eps :
                           HostOf[table'[i].eps[j]] = HostOf[table'[i].direct]
                      /\ table'[i].direct = last'[table'[i].node].addr =>
                           table'[i].age <= last'[table'[i].node].age
    BY <1>3 DEF PathInv
  <2>1. CASE i \in OwnersOf(a)
    <3>1. table'[i].age = 0 /\ last'[table'[i].node].age = 0
      BY <1>5, <1>8, <2>1
    <3>2. \E j \in DOMAIN table'[i].eps : HostOf[table'[i].eps[j]] = HostOf[table'[i].direct]
      <4>1. table'[i].eps = table[i].eps
            /\ table'[i].direct = IF table[i].direct = NoAddr THEN a ELSE table[i].direct
        BY <1>5, <2>1
      <4>2. \E j \in DOMAIN table[i].eps : HostOf[table[i].eps[j]] = HostOf[a]
        BY <2>1, OwnersOfFirst
      <4>3. table[i].direct # NoAddr =>
              \E j \in DOMAIN table[i].eps : HostOf[table[i].eps[j]] = HostOf[table[i].direct]
        BY DEF PathInv
      <4> QED
        BY <4>1, <4>2, <4>3
    <3> QED
      BY <3>1, <3>2
  <2>2. CASE i \notin OwnersOf(a)
    <3>1. table'[i] = table[i]
      BY <1>6, <2>2
    <3>2. /\ \E j \in DOMAIN table[i].eps : HostOf[table[i].eps[j]] = HostOf[table[i].direct]
          /\ table[i].direct = last[table[i].node].addr => table[i].age <= last[table[i].node].age
      BY <3>1 DEF PathInv
    <3>3. ASSUME table[i].node = n, table[i].direct = a PROVE FALSE
      <4>1. i \in InTable
        BY <3>1 DEF FirstInv, InTable
      <4>2. OwnersOf(a) # {}
        BY <3>2, <3>3, <4>1, OwnersOfSome
      <4>3. PICK k \in OwnersOf(a) : k \in InTable /\ k \in Slots /\ table[k].node = n
        BY <4>2, OwnerIsSender
      <4>4. k <= i
        BY <3>2, <3>3, <4>1, <4>3, OwnersOfFirst
      <4>5. k # i
        BY <2>2, <4>3
      <4>6. k < i
        BY <4>3, <4>4, <4>5 DEF Slots
      <4> QED
        BY <3>1, <3>3, <4>3, <4>6 DEF FirstInv
    <3>4. table[i].node \in Nodes
      BY DEF FirstInv
    <3> QED
      BY <1>8, <3>1, <3>2, <3>3, <3>4
  <2> QED
    BY <2>1, <2>2
<1> QED
  BY <1>9, <1>10, <1>11

\* The ages of the paths and those of the packets grow together.
LEMMA TickTable ==
    ASSUME TypeOK, TableInv, Tick
    PROVE  TableInv'
<1> USE DEF TableInv
<1>1. Rewritten' = Rewritten /\ count' = count
  BY DEF Tick, Rewritten
<1>2. \A i \in Slots : table[i] \in Entries /\ Owned(table[i]) /\ Heard(table[i])
  BY DEF TypeOK, EntriesInv
<1>3. ASSUME NEW i \in Slots
      PROVE  /\ table'[i].node = table[i].node /\ table'[i].valid = table[i].valid
             /\ table'[i].eps = table[i].eps /\ table'[i].direct = table[i].direct
             /\ table[i].age \in Ages
             /\ table[i].direct # NoAddr =>
                  table'[i].age = IF table[i].age <= DirectTrust THEN Older(table[i].age) ELSE table[i].age
  BY <1>2 DEF Tick, Entries, Aging
<1>4. ASSUME NEW n \in Nodes
      PROVE  /\ last'[n].addr = last[n].addr /\ last[n].age \in Ages
             /\ last[n].addr # NoAddr =>
                  last'[n].age = IF last[n].age <= DirectTrust THEN Older(last[n].age) ELSE last[n].age
  BY DEF Tick, TypeOK, Fading
<1>5. ASSUME NEW s \in Ages, NEW t \in Ages, s <= t
      PROVE  (IF s <= DirectTrust THEN Older(s) ELSE s) <= (IF t <= DirectTrust THEN Older(t) ELSE t)
  BY <1>5, PathsAssumption DEF Ages, Older, Least
<1>6. EntriesInv'
  <2> SUFFICES ASSUME NEW i \in Slots PROVE Owned(table'[i]) /\ Heard(table[i])'
    BY DEF EntriesInv, Owned
  <2>1. Owned(table'[i])
    BY <1>2, <1>3 DEF Owned
  <2>2. table[i].direct # NoAddr => table[i].node \in Nodes
    BY <1>2 DEF Owned
  <2>3. Heard(table[i])'
    BY <1>2, <1>3, <1>4, <1>5, <2>2 DEF Heard
  <2> QED
    BY <2>1, <2>3
<1>7. FirstInv'
  BY <1>1, <1>3 DEF FirstInv
<1>8. PathInv'
  <2> SUFFICES ASSUME NEW i \in Slots, i < Rewritten, table'[i].direct # NoAddr
               PROVE  /\ \E j \in DOMAIN table'[i].eps :
                           HostOf[table'[i].eps[j]] = HostOf[table'[i].direct]
                      /\ table'[i].direct = last'[table'[i].node].addr =>
                           table'[i].age <= last'[table'[i].node].age
    BY <1>1 DEF PathInv
  <2>1. table[i].direct # NoAddr /\ table[i].node \in Nodes
    BY <1>3 DEF FirstInv
  <2>2. /\ \E j \in DOMAIN table[i].eps : HostOf[table[i].eps[j]] = HostOf[table[i].direct]
        /\ table[i].direct = last[table[i].node].addr => table[i].age <= last[table[i].node].age
    BY <2>1 DEF PathInv
  <2> QED
    BY <1>3, <1>4, <1>5, <2>1, <2>2
<1> QED
  BY <1>6, <1>7, <1>8

\* A table without paths and endpoints, whose first entries are named.
LEMMA FreshTable ==
    ASSUME NEW list \in MapLists, parse.at = "idle", parse' = parse,
           table' = SetupTable(list), count' = Count(list)
    PROVE  TableInv'
<1>1. ASSUME NEW i \in Slots
      PROVE  /\ table'[i].direct = NoAddr /\ table'[i].eps = <<>>
             /\ i < Count(list) => table'[i].valid /\ table'[i].node \in Nodes
             /\ i >= Count(list) => table'[i].node = NoNode /\ ~table'[i].valid
  BY <1>1, SetupIs DEF Cleared
<1>2. Rewritten' = Count(list) /\ Count(list) \in Nat
  BY SetupIs DEF Rewritten
<1>3. ASSUME NEW i \in Slots PROVE Owned(table'[i]) /\ Heard(table[i])'
  <2>1. i < Count(list) \/ i >= Count(list)
    BY <1>2 DEF Slots
  <2> QED
    BY <1>1, <2>1, PathsAssumption DEF Owned, Heard
<1>4. EntriesInv'
  BY <1>3 DEF EntriesInv, Owned
<1>5. FirstInv'
  BY <1>1, <1>2 DEF FirstInv
<1>6. PathInv'
  BY <1>1 DEF PathInv
<1> QED
  BY <1>4, <1>5, <1>6 DEF TableInv

LEMMA ClearedTable ==
    ASSUME TypeOK, TableInv, ClearEntry
    PROVE  TableInv'
<1> USE DEF TableInv
<1>1. /\ parse.next \in Slots /\ table' = [table EXCEPT ![parse.next] = Cleared]
      /\ Rewritten = parse.next /\ Rewritten' = parse.next /\ UNCHANGED <<count, last>>
  BY PathsAssumption DEF ClearEntry, ClearedFrom, Rewritten, Unmapped, TypeOK, Slots
<1>2. table'[parse.next] = Cleared /\ \A i \in Slots : i # parse.next => table'[i] = table[i]
  BY <1>1 DEF TypeOK
<1>3. ASSUME NEW i \in Slots PROVE Owned(table'[i]) /\ Heard(table[i])'
  <2>1. Owned(Cleared) /\ Cleared.direct = NoAddr
    BY PathsAssumption DEF Cleared, Owned
  <2>2. CASE i = parse.next
    BY <1>2, <2>1, <2>2 DEF Heard
  <2>3. CASE i # parse.next
    BY <1>1, <1>2, <2>3 DEF Heard, EntriesInv
  <2> QED
    BY <2>2, <2>3
<1>4. EntriesInv'
  BY <1>3 DEF EntriesInv, Owned
<1>5. \A i \in Slots : i < parse.next =>
        table'[i] = table[i] /\ \A j \in Slots : j < i => table'[j] = table[j]
  BY <1>1, <1>2 DEF Slots
<1>6. FirstInv'
  BY <1>1, <1>5 DEF FirstInv
<1>7. PathInv'
  BY <1>1, <1>5 DEF PathInv
<1> QED
  BY <1>4, <1>6, <1>7

LEMMA FilledTable ==
    ASSUME TypeOK, ParseInv, TableInv, FillEntry
    PROVE  TableInv'
<1> USE DEF TableInv
<1> DEFINE k == parse.next
           n == Head(parse.todo)
<1>1. k \in Slots /\ table[k] = Cleared /\ parse.todo # <<>> /\ parse.todo \in Seq(Nodes)
  BY PathsAssumption DEF FillEntry, ParseInv, TypeOK, Slots
<1>2. n \in Nodes
  BY <1>1, HeadTailProperties
<1>3. Rewritten = k /\ Rewritten' = k + 1 /\ UNCHANGED <<count, last>>
  BY DEF FillEntry, Rewritten, Unmapped
<1>4. /\ table'[k].node = n /\ table'[k].valid /\ table'[k].direct = NoAddr /\ table'[k].eps = <<>>
      /\ \A i \in Slots : i # k => table'[i] = table[i]
  <2>1. PICK e \in HomesOf[n] \cup {NoAddr} :
          table' = [table EXCEPT ![k].node = n, ![k].endpoint = e, ![k].valid = TRUE]
    BY DEF FillEntry
  <2>2. table'[k] = [Cleared EXCEPT !.node = n, !.endpoint = e, !.valid = TRUE]
    BY <1>1, <2>1 DEF TypeOK
  <2>3. \A i \in Slots : i # k => table'[i] = table[i]
    BY <1>1, <2>1 DEF TypeOK
  <2> QED
    BY <2>2, <2>3 DEF Cleared
<1>5. ASSUME NEW i \in Slots PROVE Owned(table'[i]) /\ Heard(table[i])'
  <2>1. CASE i = k
    BY <1>2, <1>4, <2>1, PathsAssumption DEF Owned, Heard
  <2>2. CASE i # k
    BY <1>3, <1>4, <2>2 DEF Heard, EntriesInv
  <2> QED
    BY <2>1, <2>2
<1>6. EntriesInv'
  BY <1>5 DEF EntriesInv, Owned
<1>7. \A i \in Slots : i < k + 1 =>
        \/ i = k
        \/ i < k /\ table'[i] = table[i] /\ \A j \in Slots : j < i => table'[j] = table[j]
  BY <1>1, <1>4 DEF Slots
<1>8. FirstInv'
  BY <1>2, <1>3, <1>4, <1>7 DEF FirstInv
<1>9. PathInv'
  BY <1>3, <1>4, <1>7 DEF PathInv
<1> QED
  BY <1>6, <1>8, <1>9

LEMMA TableStep == TypeOK /\ ParseInv /\ TableInv /\ [Next]_vars => TableInv'
<1> SUFFICES ASSUME TypeOK, ParseInv, TableInv, [Next]_vars PROVE TableInv'
  OBVIOUS
<1>1. ASSUME UNCHANGED <<table, count, parse, last>> PROVE TableInv'
  BY <1>1 DEF TableInv, EntriesInv, Owned, Heard, FirstInv, PathInv, Rewritten
<1>2. CASE Reconnect
  BY <1>2, FreshTable DEF Reconnect
<1>3. CASE MapUpdate
  <2>1. Rewritten' = 0 /\ UNCHANGED <<table, count, last>>
    BY <1>3 DEF MapUpdate, Rewritten, Unmapped
  <2>2. \A i \in Slots : ~(i < 0)
    BY DEF Slots
  <2> QED
    BY <2>1, <2>2 DEF TableInv, EntriesInv, Owned, Heard, FirstInv, PathInv
<1>4. CASE ClearEntry
  BY <1>4, ClearedTable
<1>5. CASE FillEntry
  BY <1>5, FilledTable
<1>6. CASE EndParse
  <2>1. Rewritten' = Rewritten /\ count' = Rewritten /\ UNCHANGED <<table, last>>
    BY <1>6 DEF EndParse, Rewritten, Unmapped, Idle
  <2> QED
    BY <2>1 DEF TableInv, EntriesInv, Owned, Heard, FirstInv, PathInv
<1>7. CASE Ping
  BY <1>7, <1>1 DEF Ping
<1>8. CASE RelayPong \/ RelayFlips
  BY <1>8, <1>1 DEF RelayPong, RelayFlips
<1>9. CASE Tick
  BY <1>9, TickTable
<1>10. CASE \E n \in Nodes : Output(n)
  <2>1. PICK n \in Nodes : Output(n)
    BY <1>10
  <2>2. PICK i \in Target(wg[n].slot) : table' = [table EXCEPT ![i].direct = NoAddr, ![i].age = 0]
    BY <2>1 DEF Output
  <2>3. i \in Slots
    BY TargetIn DEF InTable
  <2>4. table[i] \in Entries
    BY <2>3 DEF TypeOK
  <2>5. table' = [table EXCEPT ![i] = [table[i] EXCEPT !.direct = NoAddr, !.age = 0]]
    BY <2>2, <2>3
  <2>6. Kept(i)
    BY <2>3, <2>4, <2>5 DEF Kept, TypeOK, Entries
  <2> QED
    BY <2>1, <2>3, <2>5, <2>6, KeptOne DEF Output
<1>11. CASE \E n \in Nodes : RelayReceive(n)
  <2>1. PICK n \in Nodes : RelayReceive(n)
    BY <1>11
  <2> DEFINE k == IndexOrZero(n)
  <2>2. k \in Slots /\ table[k] \in Entries
    BY IndexOrZeroIn DEF TypeOK
  <2>3. table' = [table EXCEPT ![k] = AfterRelayRx(table[k])]
    BY <2>1 DEF RelayReceive
  <2>4. table'[k] = AfterRelayRx(table[k])
    BY <2>2, <2>3 DEF TypeOK
  <2>5. Kept(k)
    BY <2>2, <2>4 DEF Kept, AfterRelayRx, Entries
  <2> QED
    BY <2>1, <2>2, <2>3, <2>5, KeptOne DEF RelayReceive
<1>12. CASE \E n \in Nodes : Leave(n)
  BY <1>12, <1>1 DEF Leave
<1>13. ASSUME NEW n \in Nodes, NEW a \in HomesOf[n], DirectReceive(n, a) PROVE TableInv'
  BY <1>13, DirectReceiveTable
<1>14. ASSUME NEW n \in Nodes, NEW a \in HomesOf[n], UdpReceive(n, a) PROVE TableInv'
  BY <1>14, <1>1 DEF UdpReceive
<1>15. ASSUME NEW n \in Nodes, NEW a \in HomesOf[n], Pong(n, a) PROVE TableInv'
  <2>1. PICK i \in IndexOf(n) :
          table' = IF table[i].inWg
                   THEN [table EXCEPT ![i] = WithEndpoint([table[i] EXCEPT !.endpoint = a], a)]
                   ELSE [table EXCEPT ![i] = WithEndpoint(table[i], a)]
    BY <1>15 DEF Pong
  <2>2. /\ i \in InTable /\ i \in Slots /\ table[i].node = n
        /\ \A j \in InTable : table[j].node = n => i <= j
    BY IndexOfFirst DEF InTable
  <2>3. table[i] \in Entries /\ Len(table[i].eps) \in Nat
    BY <2>2, ListsAreSeqs, LenProperties DEF TypeOK, Entries
  <2>4. PICK e \in {table[i], [table[i] EXCEPT !.endpoint = a]} :
          table' = [table EXCEPT ![i] = WithEndpoint(e, a)]
    BY <2>1
  <2>5. /\ e.node = table[i].node /\ e.valid = table[i].valid /\ e.direct = table[i].direct
        /\ e.age = table[i].age /\ e.eps = table[i].eps
        /\ [e EXCEPT !.eps = Append(@, a)].node = e.node
        /\ [e EXCEPT !.eps = Append(@, a)].valid = e.valid
        /\ [e EXCEPT !.eps = Append(@, a)].direct = e.direct
        /\ [e EXCEPT !.eps = Append(@, a)].age = e.age
        /\ [e EXCEPT !.eps = Append(@, a)].eps = Append(e.eps, a)
    BY <2>3, <2>4 DEF Entries
  <2>6. table'[i] = WithEndpoint(e, a)
    BY <2>2, <2>4 DEF TypeOK
  <2>7. \/ table'[i] = e
        \/ table'[i] = [e EXCEPT !.eps = Append(@, a)] /\ Len(table[i].eps) < MaxEndpoints
    BY <2>3, <2>5, <2>6, PathsAssumption DEF WithEndpoint
  <2>8. Kept(i)
    BY <2>2, <2>5, <2>7 DEF Kept
  <2> QED
    BY <1>15, <2>2, <2>4, <2>8, KeptOne DEF Pong
<1>16. ASSUME NEW n \in Nodes, NEW a \in HomesOf[n], CallMeMaybe(n, a) PROVE TableInv'
  <2>1. PICK i \in IndexOf(n) :
          table' = IF Len(table[i].eps) < MaxEndpoints
                   THEN [table EXCEPT ![i].eps = Append(@, a)] ELSE table
    BY <1>16 DEF CallMeMaybe
  <2>2. /\ i \in InTable /\ i \in Slots /\ table[i].node = n
        /\ \A j \in InTable : table[j].node = n => i <= j
    BY IndexOfFirst DEF InTable
  <2>3. CASE Len(table[i].eps) < MaxEndpoints
    <3>1. table' = [table EXCEPT ![i] = [table[i] EXCEPT !.eps = Append(@, a)]]
      BY <2>1, <2>2, <2>3
    <3>2. table'[i] = [table[i] EXCEPT !.eps = Append(@, a)]
      BY <2>2, <3>1 DEF TypeOK
    <3>3. Kept(i)
      BY <2>2, <2>3, <3>2 DEF Kept, TypeOK, Entries
    <3> QED
      BY <1>16, <2>2, <3>1, <3>3, KeptOne DEF CallMeMaybe
  <2>4. CASE ~(Len(table[i].eps) < MaxEndpoints)
    BY <1>16, <1>1, <2>1, <2>4 DEF CallMeMaybe
  <2> QED
    BY <2>3, <2>4
<1>17. CASE UNCHANGED vars
  BY <1>17, <1>1 DEF vars
<1> QED
  BY <1>2, <1>3, <1>4, <1>5, <1>6, <1>7, <1>8, <1>9, <1>10, <1>11, <1>12, <1>13, <1>14,
     <1>15, <1>16, <1>17 DEF Next
-----------------------------------------------------------------------------
(* The parser, and the addresses in the device *)

\* Nobody touches the empty entry that the parser has in its hands.
LEMMA ParseStep == TypeOK /\ ParseInv /\ [Next]_vars => ParseInv'
<1> SUFFICES ASSUME TypeOK, ParseInv, [Next]_vars PROVE ParseInv'
  OBVIOUS
<1> DEFINE k == parse.next
<1>1. ASSUME parse' = parse, parse.at = "fill" => table'[k] = table[k],
             parse.at # "idle" => synced' = synced
      PROVE  ParseInv'
  BY <1>1 DEF ParseInv
<1>2. parse.at = "fill" => k \in Slots /\ k \notin InTable /\ table[k] = Cleared
  BY PathsAssumption DEF ParseInv, InTable, Cleared, Slots, TypeOK
<1>3. \A n : parse.at # "idle" => SyncedWith(n) = synced
  BY DEF SyncedWith
<1>4. CASE Reconnect
  BY <1>4 DEF Reconnect, ParseInv
<1>5. CASE MapUpdate
  BY <1>5 DEF MapUpdate, ParseInv
<1>6. CASE ClearEntry
  BY <1>6, PathsAssumption DEF ClearEntry, ClearedFrom, ParseInv, TypeOK, Slots
<1>7. CASE FillEntry
  BY <1>7 DEF FillEntry, ParseInv
<1>8. CASE EndParse
  BY <1>8 DEF EndParse, Idle, ParseInv
<1>9. CASE Ping \/ RelayPong \/ RelayFlips
  BY <1>9, <1>1 DEF Ping, RelayPong, RelayFlips
<1>10. CASE Tick
  <2>1. parse.at = "fill" => table'[k] = table[k]
    BY <1>2, <1>10 DEF Tick, Aging, Cleared
  <2> QED
    BY <1>1, <1>10, <2>1 DEF Tick
<1>11. CASE \E n \in Nodes : Output(n)
  <2>1. PICK n \in Nodes : Output(n)
    BY <1>11
  <2>2. PICK i \in Target(wg[n].slot) : table' = [table EXCEPT ![i].direct = NoAddr, ![i].age = 0]
    BY <2>1 DEF Output
  <2>3. i \in InTable /\ i \in Slots
    BY TargetIn DEF InTable
  <2>4. parse.at = "fill" => table'[k] = table[k]
    BY <1>2, <2>2, <2>3 DEF TypeOK
  <2> QED
    BY <1>1, <2>1, <2>4 DEF Output
<1>12. CASE \E n \in Nodes : RelayReceive(n)
  <2>1. PICK n \in Nodes : RelayReceive(n)
    BY <1>12
  <2>2. parse.at = "fill" => table'[k] = table[k]
    BY <1>2, <2>1 DEF RelayReceive, AfterRelayRx, Cleared, TypeOK
  <2> QED
    BY <1>1, <1>3, <2>1, <2>2 DEF RelayReceive
<1>13. CASE \E n \in Nodes : Leave(n)
  BY <1>13, <1>1 DEF Leave
<1>14. ASSUME NEW n \in Nodes, NEW a \in HomesOf[n], DirectReceive(n, a) PROVE ParseInv'
  <2>1. parse.at = "fill" => table'[k] = table[k]
    BY <1>2, <1>14, OwnersOfFirst DEF DirectReceive
  <2> QED
    BY <1>1, <1>3, <1>14, <2>1 DEF DirectReceive
<1>15. ASSUME NEW n \in Nodes, NEW a \in HomesOf[n], UdpReceive(n, a) PROVE ParseInv'
  BY <1>1, <1>15 DEF UdpReceive
<1>16. ASSUME NEW n \in Nodes, NEW a \in HomesOf[n], Pong(n, a) PROVE ParseInv'
  <2>1. PICK i \in IndexOf(n) :
          table' = IF table[i].inWg
                   THEN [table EXCEPT ![i] = WithEndpoint([table[i] EXCEPT !.endpoint = a], a)]
                   ELSE [table EXCEPT ![i] = WithEndpoint(table[i], a)]
    BY <1>16 DEF Pong
  <2>2. i \in InTable
    BY IndexOfFirst
  <2>3. parse.at = "fill" => table'[k] = table[k]
    BY <1>2, <2>1, <2>2 DEF TypeOK
  <2> QED
    BY <1>1, <1>16, <2>3 DEF Pong
<1>17. ASSUME NEW n \in Nodes, NEW a \in HomesOf[n], CallMeMaybe(n, a) PROVE ParseInv'
  <2>1. PICK i \in IndexOf(n) :
          table' = IF Len(table[i].eps) < MaxEndpoints
                   THEN [table EXCEPT ![i].eps = Append(@, a)] ELSE table
    BY <1>17 DEF CallMeMaybe
  <2>2. i \in InTable
    BY IndexOfFirst
  <2>3. parse.at = "fill" => table'[k] = table[k]
    BY <1>2, <2>1, <2>2 DEF TypeOK
  <2> QED
    BY <1>1, <1>17, <2>3 DEF CallMeMaybe
<1>18. CASE UNCHANGED vars
  BY <1>18 DEF vars, ParseInv
<1> QED
  BY <1>4, <1>5, <1>6, <1>7, <1>8, <1>9, <1>10, <1>11, <1>12, <1>13, <1>14, <1>15, <1>16,
     <1>17, <1>18 DEF Next

\* The names in the table and the addresses: what one packet of n, or none, does
\* to them.  SameNames: no entry changes hands.
SameNames == UNCHANGED count /\ \A i \in Slots :
    table'[i].node = table[i].node /\ table'[i].valid = table[i].valid

\* A location that is right for n: one of its addresses, or its entry.
RightFor(n, loc) ==
    /\ loc.via = "real" => loc.addr \in HomesOf[n]
    /\ loc.via # "real" /\ IndexOf(n) # {} =>
         loc.via = "virtual" /\ loc.slot \in InTable /\ table[loc.slot].node = n

LEMMA SameNamesKept ==
    ASSUME AddressInv, SameNames, UNCHANGED <<wg, synced>>
    PROVE  AddressInv'
<1>1. InTable' = InTable /\ \A i \in InTable : i \in Slots
  BY DEF SameNames, InTable
<1> QED
  BY <1>1 DEF AddressInv, SameNames

LEMMA ReceiveAddress ==
    ASSUME TypeOK, AddressInv, SameNames, NEW n \in Nodes, NEW loc \in Locations,
           RightFor(n, loc), wg' = update_peer_addr(n, loc),
           synced' = SyncedWith(n) \/ synced' = synced
    PROVE  AddressInv'
<1>1. InTable' = InTable /\ \A i \in InTable : i \in Slots
  BY DEF SameNames, InTable
<1>2. \A i \in InTable : table'[i].node = table[i].node
  BY <1>1 DEF SameNames
<1>3. wg[n].via # "none" => wg' = [wg EXCEPT ![n] = loc] /\ wg'[n] = loc
  BY DEF update_peer_addr, TypeOK
<1>4. wg[n].via = "none" => wg' = wg
  BY DEF update_peer_addr
<1>5. \A m \in Nodes : m # n => wg'[m] = wg[m]
  BY DEF update_peer_addr, TypeOK
<1>6. loc.via \in {"none", "virtual", "real"}
  BY DEF Locations
<1>7. ASSUME NEW m \in Nodes, wg'[m].via = "real" PROVE wg'[m].addr \in HomesOf[m]
  BY <1>3, <1>4, <1>5, <1>7 DEF AddressInv, RightFor
<1>8. ASSUME NEW m \in synced'
      PROVE  /\ wg'[m].via # "none"
             /\ \E i \in InTable : table[i].node = m
             /\ wg'[m].via = "virtual" => wg'[m].slot \in InTable /\ table[wg'[m].slot].node = m
  <2>1. m \in Nodes /\ (m \in synced \/ m = n)
    BY DEF SyncedWith, TypeOK
  <2>2. CASE m # n
    BY <1>5, <2>1, <2>2 DEF AddressInv
  <2>3. CASE m = n
    <3>1. wg[n].via # "none" /\ \E i \in InTable : table[i].node = n
      <4>1. CASE n \in synced
        BY <4>1 DEF AddressInv
      <4>2. CASE n \notin synced
        <5>1. IndexOf(n) # {} /\ wg[n].via # "none"
          BY <1>8, <2>3, <4>2 DEF SyncedWith
        <5> QED
          BY <5>1, IndexOfFirst
      <4> QED
        BY <4>1, <4>2
    <3>2. IndexOf(n) # {}
      BY <3>1, IndexOfSome
    <3> QED
      BY <1>3, <2>3, <3>1, <3>2 DEF RightFor
  <2> QED
    BY <2>2, <2>3
<1> QED
  BY <1>1, <1>2, <1>7, <1>8 DEF AddressInv

LEMMA AddressStep == TypeOK /\ ParseInv /\ TableInv /\ AddressInv /\ [Next]_vars => AddressInv'
<1> SUFFICES ASSUME TypeOK, ParseInv, TableInv, AddressInv, [Next]_vars PROVE AddressInv'
  OBVIOUS
<1>1. ASSUME wg' = wg, synced' = {} PROVE AddressInv'
  BY <1>1 DEF AddressInv
<1>2. ASSUME UNCHANGED <<table, count, wg, synced>> PROVE AddressInv'
  BY <1>2 DEF AddressInv, InTable
<1>3. \A i \in Slots : table[i] \in Entries
  BY DEF TypeOK
<1>4. CASE Reconnect
  <2>1. PICK list \in MapLists :
          /\ table' = SetupTable(list) /\ count' = Count(list) /\ wg' = SetupWg(list)
          /\ synced' = {n \in Nodes : SetupWg(list)[n].via = "virtual"}
    BY <1>4 DEF Reconnect
  <2>2. ASSUME NEW i \in Slots, i < Count(list)
        PROVE  i \in InTable' /\ table'[i].node = list[i + 1]
    BY <2>1, <2>2, SetupIs DEF InTable
  <2>3. ASSUME NEW n \in Nodes, wg'[n].via = "virtual"
        PROVE  wg'[n].slot \in InTable' /\ table'[wg'[n].slot].node = n
    BY <2>1, <2>2, <2>3, SetupIs
  <2>4. \A n \in Nodes : wg'[n].via # "real"
    BY <2>1, SetupIs
  <2> QED
    BY <2>1, <2>3, <2>4 DEF AddressInv
<1>5. CASE MapUpdate
  BY <1>1, <1>5 DEF MapUpdate, Unmapped
<1>6. CASE ClearEntry
  BY <1>1, <1>6 DEF ClearEntry, Unmapped, ParseInv
<1>7. CASE FillEntry
  BY <1>1, <1>7 DEF FillEntry, Unmapped, ParseInv
<1>8. CASE EndParse
  BY <1>1, <1>8 DEF EndParse, Unmapped, ParseInv
<1>9. CASE Ping \/ RelayPong \/ RelayFlips
  BY <1>2, <1>9 DEF Ping, RelayPong, RelayFlips
<1>10. CASE Tick
  <2>1. SameNames
    BY <1>3, <1>10 DEF Tick, SameNames, Entries
  <2> QED
    BY <1>10, <2>1, SameNamesKept DEF Tick
<1>11. CASE \E n \in Nodes : Output(n)
  <2>1. PICK n \in Nodes : Output(n)
    BY <1>11
  <2>2. PICK i \in Target(wg[n].slot) : table' = [table EXCEPT ![i].direct = NoAddr, ![i].age = 0]
    BY <2>1 DEF Output
  <2>3. SameNames
    BY <1>3, <2>1, <2>2 DEF Output, SameNames, TypeOK, Entries
  <2> QED
    BY <2>1, <2>3, SameNamesKept DEF Output
<1>12. CASE \E n \in Nodes : RelayReceive(n)
  <2>1. PICK n \in Nodes : RelayReceive(n)
    BY <1>12
  <2> DEFINE k == IndexOrZero(n)
  <2>2. k \in Slots /\ (IndexOf(n) # {} => k \in InTable /\ table[k].node = n)
    BY IndexOrZeroIn, IndexOfFirst
  <2>3. SameNames
    BY <1>3, <2>1 DEF RelayReceive, SameNames, AfterRelayRx, TypeOK, Entries
  <2>4. Virtual(k) \in Locations /\ RightFor(n, Virtual(k))
    BY <2>2 DEF Virtual, Locations, RightFor
  <2> QED
    BY <2>1, <2>3, <2>4, ReceiveAddress DEF RelayReceive
<1>13. CASE \E n \in Nodes : Leave(n)
  BY <1>2, <1>13 DEF Leave
<1>14. ASSUME NEW n \in Nodes, NEW a \in HomesOf[n], DirectReceive(n, a) PROVE AddressInv'
  <2> DEFINE loc == IF OwnersOf(a) = {} THEN Real(a) ELSE Virtual(CHOOSE i \in OwnersOf(a) : TRUE)
  <2>1. SameNames
    BY <1>3, <1>14 DEF DirectReceive, SameNames, AfterDirectRx, TypeOK, Entries
  <2>2. loc \in Locations /\ RightFor(n, loc)
    <3>1. CASE OwnersOf(a) = {}
      BY <3>1, PathsAssumption DEF Real, Locations, Slots, RightFor
    <3>2. CASE OwnersOf(a) # {}
      <4>1. PICK i \in OwnersOf(a) : loc = Virtual(i)
        BY <3>2
      <4>2. i \in InTable /\ i \in Slots /\ table[i].node = n
        BY OwnerIsSender DEF TableInv
      <4> QED
        BY <4>1, <4>2 DEF Virtual, Locations, RightFor
    <3> QED
      BY <3>1, <3>2
  <2> QED
    BY <1>14, <2>1, <2>2, ReceiveAddress DEF DirectReceive
<1>15. ASSUME NEW n \in Nodes, NEW a \in HomesOf[n], UdpReceive(n, a) PROVE AddressInv'
  <2>1. SameNames
    BY <1>15 DEF UdpReceive, SameNames
  <2>2. Real(a) \in Locations /\ RightFor(n, Real(a))
    BY PathsAssumption DEF Real, Locations, Slots, RightFor
  <2> QED
    BY <1>15, <2>1, <2>2, ReceiveAddress DEF UdpReceive
<1>16. ASSUME NEW n \in Nodes, NEW a \in HomesOf[n], Pong(n, a) PROVE AddressInv'
  <2>1. PICK i \in IndexOf(n) :
          /\ table[i].inWg =>
               /\ table' = [table EXCEPT ![i] = WithEndpoint([table[i] EXCEPT !.endpoint = a], a)]
               /\ wg' = [wg EXCEPT ![n] = Real(a)]
          /\ ~table[i].inWg => table' = [table EXCEPT ![i] = WithEndpoint(table[i], a)] /\ wg' = wg
    BY <1>16 DEF Pong
  <2>2. SameNames
    <3>1. i \in Slots /\ table[i] \in Entries
      BY <1>3, IndexOfFirst DEF InTable
    <3>2. PICK e \in {table[i], [table[i] EXCEPT !.endpoint = a]} :
            table' = [table EXCEPT ![i] = WithEndpoint(e, a)]
      BY <2>1
    <3>3. /\ e.node = table[i].node /\ e.valid = table[i].valid
          /\ [e EXCEPT !.eps = Append(@, a)].node = e.node
          /\ [e EXCEPT !.eps = Append(@, a)].valid = e.valid
      BY <3>1, <3>2 DEF Entries
    <3>4. WithEndpoint(e, a).node = table[i].node /\ WithEndpoint(e, a).valid = table[i].valid
      BY <3>3 DEF WithEndpoint
    <3> QED
      BY <1>16, <3>1, <3>2, <3>4 DEF Pong, SameNames, TypeOK
  <2>3. CASE table[i].inWg
    <3>1. InTable' = InTable /\ \A j \in InTable : table'[j].node = table[j].node
      BY <2>2 DEF SameNames, InTable
    <3>2. wg'[n] = Real(a) /\ \A m \in Nodes : m # n => wg'[m] = wg[m]
      BY <2>1, <2>3 DEF TypeOK
    <3>3. synced' = synced /\ synced \subseteq Nodes
      BY <1>16 DEF Pong, TypeOK
    <3> QED
      BY <3>1, <3>2, <3>3 DEF AddressInv, Real
  <2>4. CASE ~table[i].inWg
    BY <1>16, <2>1, <2>2, <2>4, SameNamesKept DEF Pong
  <2> QED
    BY <2>3, <2>4
<1>17. ASSUME NEW n \in Nodes, NEW a \in HomesOf[n], CallMeMaybe(n, a) PROVE AddressInv'
  <2>1. SameNames
    BY <1>3, <1>17 DEF CallMeMaybe, SameNames, TypeOK, Entries
  <2> QED
    BY <1>17, <2>1, SameNamesKept DEF CallMeMaybe
<1>18. CASE UNCHANGED vars
  BY <1>2, <1>18 DEF vars
<1> QED
  BY <1>4, <1>5, <1>6, <1>7, <1>8, <1>9, <1>10, <1>11, <1>12, <1>13, <1>14, <1>15, <1>16,
     <1>17, <1>18 DEF Next
-----------------------------------------------------------------------------
(* Theorems *)

LEMMA PathsInvInit == Init => PathsInv
<1> SUFFICES ASSUME Init PROVE PathsInv
  OBVIOUS
<1>1. PICK list \in MapLists :
        /\ table = SetupTable(list) /\ count = Count(list) /\ wg = SetupWg(list)
        /\ synced = {n \in Nodes : wg[n].via = "virtual"} /\ parse = Idle
  BY DEF Init
<1>2. TypeOK
  BY InitType
<1>3. ParseInv
  BY <1>1 DEF ParseInv, Idle
<1>4. ASSUME NEW i \in Slots
      PROVE  /\ table[i].direct = NoAddr /\ table[i].eps = <<>>
             /\ i < Count(list) => table[i].valid /\ table[i].node \in Nodes /\ table[i].node = list[i + 1]
             /\ i >= Count(list) => table[i].node = NoNode /\ ~table[i].valid
  BY <1>1, <1>4, SetupIs DEF Cleared
<1>5. Rewritten = Count(list) /\ Count(list) \in Nat
  BY <1>1, SetupIs DEF Rewritten, Idle
<1>6. ASSUME NEW i \in Slots PROVE Owned(table[i]) /\ Heard(table[i])
  <2>1. i < Count(list) \/ i >= Count(list)
    BY <1>5 DEF Slots
  <2> QED
    BY <1>4, <2>1, PathsAssumption DEF Owned, Heard
<1>7. EntriesInv
  BY <1>6 DEF EntriesInv
<1>8. FirstInv
  BY <1>4, <1>5 DEF FirstInv
<1>9. PathInv
  BY <1>4 DEF PathInv
<1>10. AddressInv
  <2>1. ASSUME NEW n \in Nodes, wg[n].via = "virtual"
        PROVE  wg[n].slot \in InTable /\ table[wg[n].slot].node = n
    BY <1>1, <1>4, <2>1, SetupIs DEF InTable
  <2>2. \A n \in Nodes : wg[n].via # "real"
    BY <1>1, SetupIs
  <2> QED
    BY <1>1, <2>1, <2>2 DEF AddressInv
<1> QED
  BY <1>2, <1>3, <1>7, <1>8, <1>9, <1>10 DEF PathsInv, TableInv

\* Every state has its type, and what the table and the device say of a node was
\* learned from that node: all the steps of the five tasks, in any order.
THEOREM PathsInvariant == Spec => []PathsInv
<1>1. Init => PathsInv
  BY PathsInvInit
<1>2. PathsInv /\ [Next]_vars => PathsInv'
  BY TypeStep, ParseStep, TableStep, AddressStep DEF PathsInv
<1> QED
  BY <1>1, <1>2, PTL DEF Spec

\* Every state has its type: pm->peers never leaves its PM_MAX_PEERS entries and
\* an entry never holds more endpoints than it has room for.
THEOREM PathsTypeCorrect == Spec => []TypeOK
<1>1. PathsInv => TypeOK
  BY DEF PathsInv
<1> QED
  BY <1>1, PathsInvariant, PTL

\* A direct path that is still used was learned from its own node, which has been
\* heard directly within the window, whatever the other tasks did since.
THEOREM DirectPathIsEarned == Spec => []DirectPathEarned
<1>1. PathsInv => DirectPathEarned
  <2> SUFFICES ASSUME PathsInv, NEW i \in InTable, Usable(table[i])
               PROVE  LET n == table[i].node IN
                      /\ table[i].direct \in HomesOf[n]
                      /\ last[n].addr # NoAddr /\ last[n].age <= DirectTrust
    BY DEF DirectPathEarned
  <2>1. i \in Slots /\ table[i].valid /\ table[i] \in Entries
    BY DEF InTable, PathsInv, TypeOK
  <2>2. Owned(table[i]) /\ Heard(table[i])
    BY <2>1 DEF PathsInv, TableInv, EntriesInv
  <2>3. table[i].direct # NoAddr /\ table[i].age <= DirectTrust
    BY DEF Usable
  <2>4. table[i].node \in Nodes /\ table[i].direct \in HomesOf[table[i].node]
    BY <2>1, <2>2, <2>3 DEF Owned
  <2>5. last[table[i].node].addr # NoAddr /\ last[table[i].node].age <= table[i].age
    BY <2>2, <2>3 DEF Heard
  <2>6. last[table[i].node].age \in Int /\ table[i].age \in Int /\ DirectTrust \in Int
    BY <2>1, <2>4, PathsAssumption DEF PathsInv, TypeOK, Entries, Ages
  <2> QED
    BY <2>3, <2>4, <2>5, <2>6
<1> QED
  BY <1>1, PathsInvariant, PTL

\* A packet for a peer that was heard since the last map response reaches that
\* peer: the index in its address, the table and the direct path agree.
THEOREM SyncedPacketsReachOwner == Spec => []SyncedReachesOwner
<1>1. PathsInv => SyncedReachesOwner
  <2> SUFFICES ASSUME PathsInv, NEW n \in synced PROVE Reaches(Route(n), n)
    BY DEF SyncedReachesOwner
  <2> USE DEF PathsInv
  <2>1. n \in Nodes /\ wg[n].via \in {"none", "virtual", "real"} /\ wg[n].via # "none"
    BY DEF TypeOK, Locations, AddressInv
  <2>2. CASE wg[n].via = "real"
    <3>1. Route(n) = [how |-> "real", node |-> n, addr |-> wg[n].addr]
      BY <2>2 DEF Route
    <3> QED
      BY <2>1, <2>2, <3>1 DEF Reaches, AddressInv
  <2>3. CASE wg[n].via = "virtual"
    <3> DEFINE k == wg[n].slot
    <3>1. k \in InTable /\ table[k].node = n /\ Target(k) = {k}
      BY <2>3, TargetIn DEF AddressInv
    <3>2. Route(n) = wg_derp_output_hook(k)
      BY <2>3, <3>1 DEF Route
    <3>3. Owned(table[k])
      BY <3>1 DEF TableInv, EntriesInv, InTable
    <3>4. table[k].direct # NoAddr => table[k].direct \in HomesOf[n]
      BY <2>1, <3>1, <3>3 DEF Owned
    <3>5. CASE Usable(table[k])
      <4>1. Route(n) = [how |-> "direct", node |-> n, addr |-> table[k].direct]
        BY <3>1, <3>2, <3>5 DEF wg_derp_output_hook
      <4> QED
        BY <3>4, <3>5, <4>1 DEF Reaches, Usable
    <3>6. CASE ~Usable(table[k])
      <4>1. Route(n) = [how |-> "relay", node |-> n, addr |-> NoAddr] \/ Route(n) = Dropped
        BY <3>1, <3>2, <3>6 DEF wg_derp_output_hook
      <4> QED
        BY <4>1 DEF Reaches, Dropped
    <3> QED
      BY <3>5, <3>6
  <2> QED
    BY <2>1, <2>2, <2>3
<1> QED
  BY <1>1, PathsInvariant, PTL

\* No step but a map response takes a direct path away while the packets from its
\* address are younger than RelayTrust: the path is then as young as they are.
LEMMA NoFlappingStep ==
    ASSUME PathsInv, [Next]_vars, NEW i \in InTable,
           table[i].direct # NoAddr, table[i].direct = last[table[i].node].addr,
           last[table[i].node].age <= RelayTrust, parse'.at = "idle", maps' = maps
    PROVE  table'[i].direct = table[i].direct
<1> USE DEF PathsInv, TableInv
<1>1. i \in Slots /\ i < count /\ table[i] \in Entries /\ table[i].valid
  BY DEF InTable, TypeOK
<1>2. parse \in [at : {"idle", "clear", "fill"}, todo : Seq(Nodes), next : 0 .. MaxPeers]
  BY DEF TypeOK
<1>3. maps \in Int
  BY DEF TypeOK
<1>4. parse.at = "idle" => table[i].age <= RelayTrust
  <2> SUFFICES ASSUME parse.at = "idle" PROVE table[i].age <= RelayTrust
    OBVIOUS
  <2>1. table[i].age <= last[table[i].node].age
    BY <1>1 DEF PathInv, Rewritten
  <2>2. table[i].node \in Nodes
    BY <1>1 DEF FirstInv, Rewritten
  <2>3. table[i].age \in Int /\ last[table[i].node].age \in Int /\ RelayTrust \in Int
    BY <1>1, <2>2, PathsAssumption DEF TypeOK, Entries, Ages
  <2> QED
    BY <2>1, <2>3
<1>5. CASE Reconnect \/ MapUpdate
  BY <1>3, <1>5 DEF Reconnect, MapUpdate
<1>6. CASE ClearEntry \/ FillEntry
  <2>1. ClearEntry => parse'.at = "fill"
    BY <1>2 DEF ClearEntry
  <2>2. FillEntry => parse'.at = "clear"
    BY DEF FillEntry
  <2> QED
    BY <1>6, <2>1, <2>2
<1>7. CASE EndParse \/ Ping \/ RelayPong \/ RelayFlips
  BY <1>7 DEF EndParse, Unmapped, Ping, RelayPong, RelayFlips
<1>8. CASE Tick
  BY <1>1, <1>8 DEF Tick, Entries
<1>9. CASE \E n \in Nodes : Output(n)
  <2>1. PICK n \in Nodes : Output(n)
    BY <1>9
  <2>2. PICK k \in Target(wg[n].slot) :
          ~Usable(table[k]) /\ table' = [table EXCEPT ![k].direct = NoAddr, ![k].age = 0]
    BY <2>1 DEF Output
  <2>3. parse.at = "idle"
    BY <2>1 DEF Output
  <2>4. k # i
    <3>1. table[i].age \in Int
      BY <1>1, PathsAssumption DEF Entries, Ages
    <3> QED
      BY <1>4, <2>2, <2>3, <3>1, PathsAssumption DEF Usable
  <2> QED
    BY <1>1, <2>2, <2>4 DEF TypeOK
<1>10. CASE \E n \in Nodes : RelayReceive(n)
  <2>1. PICK n \in Nodes : RelayReceive(n)
    BY <1>10
  <2>2. AfterRelayRx(table[i]).direct = table[i].direct
    <3>1. table[i].age \in Int /\ parse.at = "idle"
      BY <1>1, <2>1, PathsAssumption DEF RelayReceive, Entries, Ages
    <3> QED
      BY <1>4, <3>1, PathsAssumption DEF AfterRelayRx
  <2>3. table'[i] = table[i] \/ table'[i] = AfterRelayRx(table[i])
    BY <1>1, <2>1 DEF RelayReceive, TypeOK
  <2> QED
    BY <2>2, <2>3
<1>11. CASE \E n \in Nodes : Leave(n)
  BY <1>11 DEF Leave
<1>12. ASSUME NEW n \in Nodes, NEW a \in HomesOf[n], DirectReceive(n, a)
       PROVE  table'[i].direct = table[i].direct
  <2>1. table'[i] = table[i] \/ table'[i] = AfterDirectRx(table[i], a)
    BY <1>1, <1>12 DEF DirectReceive
  <2> QED
    BY <1>1, <2>1 DEF AfterDirectRx, Entries
<1>13. ASSUME NEW n \in Nodes, NEW a \in HomesOf[n], UdpReceive(n, a)
       PROVE  table'[i].direct = table[i].direct
  BY <1>13 DEF UdpReceive
<1>14. ASSUME NEW n \in Nodes, NEW a \in HomesOf[n], Pong(n, a)
       PROVE  table'[i].direct = table[i].direct
  <2>0. PICK k \in IndexOf(n) : \E e \in {table[k], [table[k] EXCEPT !.endpoint = a]} :
          table' = [table EXCEPT ![k] = WithEndpoint(e, a)]
    BY <1>14 DEF Pong
  <2>1. PICK e \in {table[k], [table[k] EXCEPT !.endpoint = a]} :
          table' = [table EXCEPT ![k] = WithEndpoint(e, a)]
    BY <2>0
  <2>2. k \in Slots /\ table[k] \in Entries
    BY IndexOfFirst DEF InTable, TypeOK
  <2>3. e.direct = table[k].direct /\ [e EXCEPT !.eps = Append(@, a)].direct = e.direct
    BY <2>1, <2>2 DEF Entries
  <2>4. WithEndpoint(e, a).direct = table[k].direct
    BY <2>3 DEF WithEndpoint
  <2> QED
    BY <1>1, <2>1, <2>2, <2>4 DEF TypeOK
<1>15. ASSUME NEW n \in Nodes, NEW a \in HomesOf[n], CallMeMaybe(n, a)
       PROVE  table'[i].direct = table[i].direct
  BY <1>1, <1>15 DEF CallMeMaybe, TypeOK, Entries
<1>16. CASE UNCHANGED vars
  BY <1>16 DEF vars
<1> QED
  BY <1>5, <1>6, <1>7, <1>8, <1>9, <1>10, <1>11, <1>12, <1>13, <1>14, <1>15, <1>16 DEF Next

\* "to avoid flapping": a direct path on which the node was heard within RelayTrust
\* survives every packet, ping and announcement, of whatever task.
THEOREM DirectPathsDoNotFlap == Spec => NoFlapping
<1>1. PathsInv /\ [Next]_vars =>
        \A i \in InTable :
          LET e == table[i] IN
          (/\ e.direct # NoAddr /\ e.direct = last[e.node].addr
           /\ last[e.node].age <= RelayTrust
           /\ parse'.at = "idle" /\ maps' = maps)
          => table'[i].direct = e.direct
  BY NoFlappingStep
<1> QED
  BY <1>1, PathsInvariant, PTL DEF Spec, NoFlapping
=============================================================================
