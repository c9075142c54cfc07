-------------------------- MODULE MessageList_proofs --------------------------
(***************************************************************************)
(* Proofs about MessageList.  ListInv holds however appends and walks      *)
(* overlap: the list is what a node's list_add_tail left when it was last  *)
(* written, and every link leads to a node that read the tail later, so a  *)
(* walk comes back.  CompleteInv says what the list is while no two        *)
(* appends have overlapped: the messages in order.                         *)
(***************************************************************************)
EXTENDS MessageList, FiniteSetTheorems, WellFoundedInduction, TLAPS

\* The nodes whose list_add_tail has returned, and those among them that are not freed.
Added == {added[i] : i \in 1 .. Len(added)}
Listed == Added \cap owned

Linking(w) == wpc[w] = "link"

\* The nodes whose list_add_tail has read the tail.
Tailed == Added \cup {node[w] : w \in {v \in Writers : Linking(v)}}

\* A writer has its node to itself until it is on the list.
NodesApart ==
    /\ Added \subseteq used /\ owned \subseteq used
    /\ xpc = "loaded" => Added \subseteq owned
    /\ \A w \in Writers : Appending(w) => xpc = "loaded" /\ node[w] \in owned \ Added
    /\ \A v, w \in Writers : Appending(v) /\ Appending(w) /\ node[v] = node[w] => v = w
    /\ \A r \in Readers : rpc[r] = "walk" => xpc = "loaded"

\* next leads to the list or to the head, or stays where list_add_tail has not yet been; and
\* prev leads back.
Links ==
    /\ prev[head_node] \in Tailed \cup {head_node}
    /\ \A a \in owned \cup {head_node} :
         next[a] \in Listed \cup {head_node} \/ (next[a] = a /\ a \notin Added)
    /\ \A a \in owned \cup {head_node} : next[a] \in Listed => prev[next[a]] = a
    /\ \A n \in Nodes \ Tailed : next[n] = n
    /\ \A w \in Writers : Linking(w) =>
         /\ before[w] \in Tailed \cup {head_node}
         /\ "new_prev" \notin todo[w] => prev[node[w]] = before[w]
         /\ "new_next" \notin todo[w] => next[node[w]] # node[w]

\* The nodes stand in the order in which they read the tail, and a walk goes that way.
Ranked(rank) ==
    /\ rank \in [Cells -> Nat] /\ rank[head_node] = 0
    /\ \A n \in Tailed : rank[n] \in 1 .. Cardinality(Tailed)
    /\ \A a \in Tailed : next[a] \in Added => rank[a] < rank[next[a]]
    /\ \A w \in Writers : Linking(w) => rank[before[w]] < rank[node[w]]
    /\ \A r \in Readers :
         /\ \A i \in DOMAIN listed[r] : listed[r][i] \in Added
         /\ \A i, j \in DOMAIN listed[r] : i < j => rank[listed[r][i]] < rank[listed[r][j]]
         /\ rpc[r] = "walk" /\ cursor[r] # head_node =>
              \A i \in DOMAIN listed[r] : rank[listed[r][i]] < rank[cursor[r]]

Walks == \A r \in Readers : rpc[r] = "walk" => cursor[r] \in Listed \cup {head_node}

Owners == TypeOK /\ NodesApart

ListInv == Owners /\ Links /\ Walks /\ \E rank : Ranked(rank)

-----------------------------------------------------------------------------
(* While no two appends have overlapped *)

\* The cells in the order of the walk, the head before and behind them.
At(i) == IF i \in 1 .. Len(added) THEN added[i] ELSE head_node

Numbering(w) == wpc[w] \in {"add", "link"}

\* One append at a time, each node once, numbered as it was added.
Numbered ==
    /\ \A v, w \in Writers : Appending(v) /\ Appending(w) => v = w
    /\ \A i, j \in 1 .. Len(added) : added[i] = added[j] => i = j
    /\ \A i \in 1 .. Len(added) : data[added[i]] = i
    /\ \A w \in Writers : wpc[w] = "data" => temp[w] = Len(added) + 1
    /\ \A w \in Writers : Numbering(w) => /\ temp_value = Len(added) + 1
                                          /\ data[node[w]] = Len(added) + 1
    /\ (\A w \in Writers : ~Numbering(w)) => temp_value = Len(added)

\* A new node goes behind the last one.
AtTheEnd ==
    /\ xpc = "loaded" /\ (\A w \in Writers : ~Linking(w)) => prev[head_node] = At(Len(added))
    /\ \A w \in Writers : Linking(w) =>
         /\ before[w] = At(Len(added))
         /\ "new_next" \notin todo[w] => next[node[w]] = head_node
         /\ "head_prev" \notin todo[w] => prev[head_node] = node[w]

\* The exit has taken the first k nodes away, and none while the module is loaded.
Freed(k) ==
    /\ xpc = "loaded" => k = 0
    /\ next[head_node] = At(k + 1)
    /\ \A i \in k + 1 .. Len(added) : next[added[i]] = At(i + 1)
    /\ owned = {added[i] : i \in k + 1 .. Len(added)}
                  \cup {node[w] : w \in {v \in Writers : Appending(v)}}

\* A walk lists the nodes from the first on.
InOrder ==
    \A r \in Readers :
      /\ Len(listed[r]) <= Len(added) /\ floor[r] <= Len(added)
      /\ \A i \in 1 .. Len(listed[r]) : listed[r][i] = added[i]
      /\ rpc[r] = "walk" => IF cursor[r] = head_node THEN floor[r] <= Len(listed[r])
                            ELSE cursor[r] = At(Len(listed[r]) + 1)

Complete ==
    /\ Numbered /\ AtTheEnd /\ InOrder
    /\ \E k \in 0 .. Len(added) : Freed(k)
    /\ xpc = "gone" => next[head_node] = head_node

CompleteInv == ListInv /\ (~raced => Complete)

-----------------------------------------------------------------------------
(* Sets of nodes *)

\* A node on the list has been through list_add_tail, and has been allocated.
LEMMA SetsOfNodes ==
    ASSUME TypeOK, NodesApart
    PROVE  /\ Added \subseteq Tailed /\ Tailed \subseteq Nodes /\ Tailed \subseteq used
           /\ Listed = Added \cap owned
           /\ \A w \in Writers : Linking(w) => node[w] \in Tailed \ Added /\ node[w] \in owned
           /\ \A w \in Writers : Appending(w) /\ ~Linking(w) => node[w] \in Nodes \ Tailed
           /\ IsFiniteSet(Tailed) /\ Cardinality(Tailed) \in Nat
           /\ Cardinality(Tailed) <= Cardinality(Nodes)
<1> USE DEF Linking, Appending
<1>1. Added \subseteq Nodes
  BY DEF TypeOK, Added
<1>2. Added \subseteq Tailed /\ Tailed \subseteq Nodes /\ Tailed \subseteq used
  BY <1>1 DEF Tailed, NodesApart, TypeOK
<1>3. \A w \in Writers : Linking(w) => node[w] \in Tailed \ Added /\ node[w] \in owned
  BY DEF Tailed, NodesApart
<1>4. \A w \in Writers : Appending(w) /\ ~Linking(w) => node[w] \in Nodes \ Tailed
  BY DEF Tailed, NodesApart, TypeOK
<1>5. IsFiniteSet(Tailed) /\ Cardinality(Tailed) <= Cardinality(Nodes)
  BY <1>2, NodesFinite, FS_Subset
<1>6. Cardinality(Tailed) \in Nat
  BY <1>5, FS_CardinalityType
<1> QED BY <1>2, <1>3, <1>4, <1>5, <1>6 DEF Listed

\* They change only in list_add_tail and in the exit.
LEMMA SetsStay ==
    ASSUME TypeOK, NodesApart, UNCHANGED added,
           \A w \in Writers : Linking(w)' <=> Linking(w),
           \A w \in Writers : Linking(w) => node'[w] = node[w]
    PROVE  Added' = Added /\ Tailed' = Tailed
<1>1. Added' = Added
  BY DEF Added
<1> QED BY <1>1 DEF Tailed

\* What Append adds.
LEMMA AppendAdds ==
    ASSUME NEW s \in Seq(Nodes), NEW n \in Nodes
    PROVE  /\ Append(s, n) \in Seq(Nodes) /\ Len(Append(s, n)) = Len(s) + 1
           /\ DOMAIN s = 1 .. Len(s) /\ DOMAIN Append(s, n) = 1 .. Len(s) + 1
           /\ \A i \in 1 .. Len(s) : Append(s, n)[i] = s[i]
           /\ Append(s, n)[Len(s) + 1] = n
OBVIOUS

LEMMA AddedGrows ==
    ASSUME NEW n \in Nodes, added \in Seq(Nodes), added' = Append(added, n)
    PROVE  Added' = Added \cup {n}
<1>1. Len(added) \in Nat
  OBVIOUS
<1>2. \A d \in Added' : d \in Added \cup {n}
  BY <1>1 DEF Added
<1>3. \A d \in Added : d \in Added'
  BY <1>1, AppendAdds DEF Added
<1>4. n \in Added'
  <2>1. Len(added) + 1 \in 1 .. Len(added') /\ added'[Len(added) + 1] = n
    BY <1>1, AppendAdds
  <2> QED BY <2>1 DEF Added
<1> QED BY <1>2, <1>3, <1>4

\* The CASE of PlainStore taken apart.
LEMMA StoreIs ==
    ASSUME TypeOK, NEW w \in Writers, PlainStore(w)
    PROVE  /\ Linking(w) /\ \E s \in todo[w] : todo' = [todo EXCEPT ![w] = @ \ {s}]
           /\ UNCHANGED <<data, temp_value, owned, used, wpc, node, before, temp, reading,
                          xpc, added, raced>>
           /\ \/ /\ next' = next /\ prev' = [prev EXCEPT ![head_node] = node[w]]
                 /\ todo' = [todo EXCEPT ![w] = @ \ {"head_prev"}]
              \/ /\ next' = next /\ prev' = [prev EXCEPT ![node[w]] = before[w]]
                 /\ todo' = [todo EXCEPT ![w] = @ \ {"new_prev"}]
              \/ /\ next' = [next EXCEPT ![node[w]] = head_node] /\ prev' = prev
                 /\ todo' = [todo EXCEPT ![w] = @ \ {"new_next"}]
<1>1. PICK s \in todo[w] :
        /\ next' = IF s = "new_next" THEN [next EXCEPT ![node[w]] = head_node] ELSE next
        /\ prev' = CASE s = "head_prev" -> [prev EXCEPT ![head_node] = node[w]]
                     [] s = "new_prev" -> [prev EXCEPT ![node[w]] = before[w]]
                     [] OTHER -> prev
        /\ todo' = [todo EXCEPT ![w] = @ \ {s}]
  BY Zenon DEF PlainStore
<1>2. s = "head_prev" => prev' = [prev EXCEPT ![head_node] = node[w]]
  BY <1>1, Zenon
<1>3. s = "new_prev" => prev' = [prev EXCEPT ![node[w]] = before[w]]
  <2>1. "new_prev" # "head_prev"
    OBVIOUS
  <2> QED BY <1>1, <2>1, Zenon
<1>4. s # "head_prev" /\ s # "new_prev" => prev' = prev
  BY <1>1, Zenon
<1>5. s \in PlainStores
  BY DEF TypeOK
<1>6. /\ wpc[w] = "link"
      /\ UNCHANGED <<data, temp_value, owned, used, wpc, node, before, temp, reading,
                   xpc, added, raced>>
  BY DEF PlainStore
<1>7. next' = IF s = "new_next" THEN [next EXCEPT ![node[w]] = head_node] ELSE next
  BY <1>1
<1>8. todo' = [todo EXCEPT ![w] = @ \ {s}]
  BY <1>1
<1> QED BY <1>2, <1>3, <1>4, <1>5, <1>6, <1>7, <1>8 DEF PlainStores, Linking

-----------------------------------------------------------------------------
(* Types, and who has which node *)

LEMMA WriterKeepsOwners ==
    ASSUME Owners, NEW w \in Writers, WriterStep(w)
    PROVE  Owners'
<1> USE DEF Owners, TypeOK, NodesApart, list, writing, reading, Appending
<1>1. CASE WriteFails(w)
  BY <1>1 DEF WriteFails, vars, Added
<1>2. CASE WriteAllocates(w)
  <2>1. Added' = Added
    BY <1>2 DEF WriteAllocates, Added
  <2> QED BY <1>2, <2>1, HeadNodeAssumption DEF WriteAllocates, Cells
<1>3. CASE LoadNumber(w)
  <2>1. Added' = Added
    BY <1>3 DEF LoadNumber, Added
  <2> QED BY <1>3, <2>1 DEF LoadNumber
<1>4. CASE StoreNumber(w)
  <2>1. Added' = Added
    BY <1>4 DEF StoreNumber, Added
  <2> QED BY <1>4, <2>1 DEF StoreNumber
<1>5. CASE LoadTail(w)
  <2>1. Added' = Added
    BY <1>5 DEF LoadTail, Added
  <2> QED BY <1>5, <2>1 DEF LoadTail, Cells
<1>6. CASE PlainStore(w)
  <2>1. Added' = Added
    BY <1>6 DEF PlainStore, Added
  <2>2. next' \in [Cells -> Cells] /\ prev' \in [Cells -> Cells]
    <3>1. \/ next' = next /\ prev' = [prev EXCEPT ![head_node] = node[w]]
          \/ next' = next /\ prev' = [prev EXCEPT ![node[w]] = before[w]]
          \/ next' = [next EXCEPT ![node[w]] = head_node] /\ prev' = prev
      BY <1>6, StoreIs
    <3>2. head_node \in Cells /\ node[w] \in Cells /\ before[w] \in Cells
      BY DEF Cells
    <3>3. next \in [Cells -> Cells] /\ prev \in [Cells -> Cells]
      OBVIOUS
    <3> QED BY ONLY <3>1, <3>2, <3>3
  <2>3. todo' \in [Writers -> SUBSET PlainStores]
    BY <1>6 DEF PlainStore
  <2> QED BY <1>6, <2>1, <2>2, <2>3 DEF PlainStore
<1>7. CASE Publish(w)
  <2>1. node[w] \in Nodes /\ added \in Seq(Nodes) /\ added' = Append(added, node[w])
    BY <1>7 DEF Publish
  <2>2. Added' = Added \cup {node[w]}
    BY <2>1, AddedGrows
  <2>3. added' \in Seq(Nodes)
    BY <2>1, AppendAdds
  <2> QED BY <1>7, <2>1, <2>2, <2>3 DEF Publish
<1> QED BY <1>1, <1>2, <1>3, <1>4, <1>5, <1>6, <1>7 DEF WriterStep

LEMMA OthersKeepOwners ==
    ASSUME Owners, (\E r \in Readers : ReaderStep(r)) \/ ExitStep \/ UNCHANGED vars, Walks
    PROVE  Owners'
<1> USE DEF Owners, TypeOK, NodesApart, list, writing, reading, Appending
<1>1. Added' = Added
  BY DEF ReaderStep, ExitStep, ReadEof, ReadBegins, ReadVisits, ReadEnds, ExitBegins, ExitFrees,
         ExitEnds, vars, Added
<1>2. ASSUME NEW r \in Readers, ReadBegins(r) PROVE Owners'
  <2>1. floor' \in [Readers -> Nat] /\ listed' \in [Readers -> Seq(Nodes)]
    BY <1>2 DEF ReadBegins
  <2> QED BY <1>1, <1>2, <2>1 DEF ReadBegins, Cells
<1>3. ASSUME NEW r \in Readers, ReadVisits(r) PROVE Owners'
  <2>1. cursor[r] \in Nodes
    BY <1>3 DEF ReadVisits, Cells
  <2>2. listed' \in [Readers -> Seq(Nodes)]
    BY <1>3, <2>1, AppendAdds DEF ReadVisits
  <2> QED BY <1>1, <1>3, <2>2 DEF ReadVisits
<1>4. ASSUME NEW r \in Readers, ReadEnds(r) PROVE Owners'
  BY <1>1, <1>4 DEF ReadEnds
<1>5. CASE ExitBegins
  BY <1>1, <1>5 DEF ExitBegins
<1>6. CASE ExitFrees
  <2>1. next' \in [Cells -> Cells] /\ prev' \in [Cells -> Cells]
    BY <1>6 DEF ExitFrees, Cells
  <2>2. owned' \subseteq owned /\ xpc # "loaded" /\ xpc' = xpc
    BY <1>6 DEF ExitFrees
  <2>3. UNCHANGED <<data, temp_value, used, writing, reading, added, raced>>
    BY <1>6 DEF ExitFrees
  <2> QED BY <1>1, <2>1, <2>2, <2>3
<1>7. CASE ExitEnds
  BY <1>1, <1>7 DEF ExitEnds
<1>8. CASE (\E r \in Readers : ReadEof(r)) \/ UNCHANGED vars
  BY <1>1, <1>8 DEF ReadEof, vars
<1> QED BY <1>2, <1>3, <1>4, <1>5, <1>6, <1>7, <1>8 DEF ReaderStep, ExitStep

-----------------------------------------------------------------------------
(* The list *)

\* What leaves the list, the writers in list_add_tail and the walks alone.
LEMMA QuietKeeps ==
    ASSUME ListInv, Owners',
           UNCHANGED <<next, prev, owned, before, todo, cursor, listed, added>>,
           \A w \in Writers : Linking(w)' <=> Linking(w),
           \A w \in Writers : Linking(w) => node'[w] = node[w],
           \A r \in Readers : rpc'[r] = "walk" => rpc[r] = "walk"
    PROVE  ListInv'
<1>1. Added' = Added /\ Tailed' = Tailed
  BY SetsStay DEF ListInv, Owners
<1>2. Listed' = Listed
  BY <1>1 DEF Listed
<1>3. Links'
  BY <1>1, <1>2 DEF ListInv, Links
<1>4. Walks'
  BY <1>1, <1>2 DEF ListInv, Walks
<1>5. ASSUME NEW rank, Ranked(rank) PROVE Ranked(rank)'
  BY <1>1, <1>5 DEF Ranked
<1> QED BY <1>3, <1>4, <1>5 DEF ListInv

\* A new node is on no list and points to itself.
LEMMA WriteAllocatesKeeps ==
    ASSUME ListInv, Owners', NEW w \in Writers, WriteAllocates(w)
    PROVE  ListInv'
<1> USE DEF Appending, Linking
<1>1. PICK n \in Nodes \ used : owned' = owned \cup {n} /\ used' = used \cup {n}
  BY DEF WriteAllocates
<1>2. UNCHANGED <<next, prev, before, todo, cursor, listed, added, rpc>>
  BY DEF WriteAllocates, list, reading
<1>3. \A v \in Writers : (Linking(v)' <=> Linking(v)) /\ (Linking(v) => node'[v] = node[v])
  BY DEF WriteAllocates, ListInv, Owners, TypeOK
<1>4. Added' = Added /\ Tailed' = Tailed
  BY <1>2, <1>3, SetsStay DEF ListInv, Owners
<1>5. n \notin Tailed /\ n \notin Added
  BY <1>1, SetsOfNodes DEF ListInv, Owners
<1>6. Listed' = Listed
  BY <1>1, <1>4, <1>5 DEF Listed
<1>7. next[n] = n /\ n \notin Listed
  BY <1>1, <1>5 DEF ListInv, Links, Listed
<1>8. Links'
  BY <1>1, <1>2, <1>3, <1>4, <1>5, <1>6, <1>7 DEF ListInv, Links
<1>9. Walks'
  BY <1>2, <1>6 DEF ListInv, Walks
<1>10. ASSUME NEW rank, Ranked(rank) PROVE Ranked(rank)'
  BY <1>2, <1>3, <1>4, <1>10 DEF Ranked
<1> QED BY <1>8, <1>9, <1>10 DEF ListInv

\* A node whose list_add_tail reads the tail comes behind all that have done so.
LEMMA LoadTailKeeps ==
    ASSUME ListInv, Owners', NEW w \in Writers, LoadTail(w)
    PROVE  ListInv'
<1> USE DEF Appending, Linking
<1> DEFINE n == node[w]
<1>1. /\ wpc[w] = "add" /\ wpc' = [wpc EXCEPT ![w] = "link"]
      /\ before' = [before EXCEPT ![w] = prev[head_node]]
      /\ todo' = [todo EXCEPT ![w] = PlainStores]
      /\ UNCHANGED <<next, prev, owned, node, cursor, listed, added, rpc>>
  BY DEF LoadTail, list, reading
<1>2. /\ before \in [Writers -> Cells] /\ todo \in [Writers -> SUBSET PlainStores]
      /\ wpc \in [Writers -> {"idle", "number", "data", "add", "link"}]
  BY DEF ListInv, Owners, TypeOK
<1>3. n \in Nodes \ Tailed /\ n \in owned
  BY <1>1, SetsOfNodes DEF ListInv, Owners, NodesApart
<1>4. \A v \in Writers : Linking(v)' <=> (Linking(v) \/ v = w)
  BY <1>1, <1>2
<1>5. Added' = Added /\ Listed' = Listed
  BY <1>1 DEF Added, Listed
<1>6. Tailed' = Tailed \cup {n}
  BY <1>1, <1>4, <1>5 DEF Tailed
<1>7. /\ Added \subseteq Tailed /\ Tailed \subseteq Nodes /\ IsFiniteSet(Tailed)
      /\ Cardinality(Tailed) \in Nat
      /\ \A v \in Writers : Linking(v) => node[v] \in Tailed
  BY SetsOfNodes DEF ListInv, Owners
<1>8. prev[head_node] \in Tailed \cup {head_node}
  BY DEF ListInv, Links
<1>9. next[n] = n
  BY <1>3 DEF ListInv, Links
<1>10. Links'
  <2>1. \A v \in Writers : Linking(v)' =>
         /\ before'[v] \in Tailed' \cup {head_node}
         /\ "new_prev" \notin todo'[v] => prev'[node'[v]] = before'[v]
         /\ "new_next" \notin todo'[v] => next'[node'[v]] # node'[v]
    BY <1>1, <1>2, <1>4, <1>6, <1>8 DEF ListInv, Links, PlainStores
  <2> QED BY <1>1, <1>5, <1>6, <1>8, <2>1 DEF ListInv, Links
<1>11. Walks'
  BY <1>1, <1>5 DEF ListInv, Walks
<1>12. ASSUME NEW old, Ranked(old) PROVE \E rank : Ranked(rank)'
  <2> DEFINE last == Cardinality(Tailed)
  <2>0. PICK rank : rank = [old EXCEPT ![n] = last + 1]
    OBVIOUS
  <2>1. Cardinality(Tailed') = last + 1 /\ last \in Nat
    BY <1>3, <1>6, <1>7, FS_AddElement
  <2>2. old \in [Cells -> Nat] /\ old[head_node] = 0 /\ n # head_node /\ n \in Cells
    BY <1>3, <1>12, HeadNodeAssumption DEF Ranked, Cells
  <2>3. \A c \in Tailed \cup {head_node} : rank[c] = old[c] /\ rank[c] < rank[n] /\ c # n
    BY <1>3, <1>7, <1>12, <2>0, <2>1, <2>2 DEF Ranked, Cells
  <2>4. rank \in [Cells -> Nat] /\ rank[head_node] = 0 /\ rank[n] = last + 1
    BY <2>0, <2>1, <2>2
  <2>5. \A c \in Tailed' : rank[c] \in 1 .. Cardinality(Tailed')
    BY <1>6, <1>12, <2>1, <2>3, <2>4 DEF Ranked
  <2>6. \A a \in Tailed' : next'[a] \in Added' => rank[a] < rank[next'[a]]
    BY <1>1, <1>3, <1>5, <1>6, <1>7, <1>9, <1>12, <2>3 DEF Ranked
  <2>7. \A v \in Writers : Linking(v)' => rank[before'[v]] < rank[node'[v]]
    <3>1. ASSUME NEW v \in Writers, Linking(v), v # w
          PROVE  rank[before'[v]] < rank[node'[v]]
      <4>1. before'[v] = before[v] /\ node'[v] = node[v] /\ before[v] \in Tailed \cup {head_node}
        BY <1>1, <1>2, <3>1 DEF ListInv, Links
      <4> QED BY <1>7, <1>12, <2>3, <3>1, <4>1 DEF Ranked
    <3>2. rank[before'[w]] < rank[node'[w]]
      BY <1>1, <1>2, <1>8, <2>3
    <3> QED BY <1>4, <3>1, <3>2
  <2>8. ASSUME NEW r \in Readers
        PROVE  /\ \A i \in DOMAIN listed[r] : listed[r][i] \in Added
               /\ \A i, j \in DOMAIN listed[r] : i < j => rank[listed[r][i]] < rank[listed[r][j]]
               /\ rpc[r] = "walk" /\ cursor[r] # head_node =>
                    \A i \in DOMAIN listed[r] : rank[listed[r][i]] < rank[cursor[r]]
    <3>1. \A i \in DOMAIN listed[r] : listed[r][i] \in Added
      BY <1>12 DEF Ranked
    <3>2. rpc[r] = "walk" /\ cursor[r] # head_node => cursor[r] \in Added
      BY DEF ListInv, Walks, Listed
    <3> QED BY <1>7, <1>12, <2>3, <3>1, <3>2 DEF Ranked
  <2>9. Ranked(rank)'
    BY <1>1, <1>5, <2>4, <2>5, <2>6, <2>7, <2>8 DEF Ranked
  <2> QED BY <2>9
<1> QED BY <1>10, <1>11, <1>12 DEF ListInv

\* The three plain stores are about the writer's own node, or about head->prev.
LEMMA PlainStoreKeeps ==
    ASSUME ListInv, Owners', NEW w \in Writers, PlainStore(w)
    PROVE  ListInv'
<1> USE DEF Appending, Linking
<1> DEFINE n == node[w]
<1>1. /\ Linking(w)
      /\ UNCHANGED <<owned, node, before, wpc, cursor, listed, added, rpc>>
      /\ \/ /\ next' = next /\ prev' = [prev EXCEPT ![head_node] = n]
            /\ todo' = [todo EXCEPT ![w] = @ \ {"head_prev"}]
         \/ /\ next' = next /\ prev' = [prev EXCEPT ![n] = before[w]]
            /\ todo' = [todo EXCEPT ![w] = @ \ {"new_prev"}]
         \/ /\ next' = [next EXCEPT ![n] = head_node] /\ prev' = prev
            /\ todo' = [todo EXCEPT ![w] = @ \ {"new_next"}]
  <2>1. TypeOK
    BY DEF ListInv, Owners
  <2> QED BY <2>1, StoreIs DEF reading
<1>2. /\ next \in [Cells -> Cells] /\ prev \in [Cells -> Cells]
      /\ todo \in [Writers -> SUBSET PlainStores]
      /\ Cells = Nodes \cup {head_node} /\ head_node \notin Nodes /\ owned \subseteq Nodes
  BY HeadNodeAssumption DEF ListInv, Owners, TypeOK, Cells
<1>3. Added' = Added /\ Tailed' = Tailed /\ Listed' = Listed
  <2>1. Added' = Added /\ Tailed' = Tailed
    BY <1>1, SetsStay DEF ListInv, Owners
  <2> QED BY <1>1, <2>1 DEF Listed
<1>4. /\ n \in Tailed \ Added /\ Listed \subseteq Added /\ Tailed \subseteq Nodes /\ n \in owned
      /\ Added \subseteq Tailed /\ \A v \in Writers : Linking(v) => node[v] \in Nodes
  BY <1>1, SetsOfNodes DEF ListInv, Owners
<1>5. /\ \A a \in Cells : next'[a] = next[a] \/ (a = n /\ next'[a] = head_node)
      /\ \A a \in Nodes \ {n} : prev'[a] = prev[a]
      /\ prev'[head_node] \in {prev[head_node], n}
  BY <1>1, <1>2, <1>4
<1>6. Links'
  <2>1. prev'[head_node] \in Tailed \cup {head_node}
    BY <1>4, <1>5 DEF ListInv, Links
  <2>2. \A a \in owned \cup {head_node} :
          next'[a] \in Listed \cup {head_node} \/ (next'[a] = a /\ a \notin Added)
    BY <1>2, <1>5 DEF ListInv, Links
  <2>3. \A a \in owned \cup {head_node} : next'[a] \in Listed => prev'[next'[a]] = a
    BY <1>2, <1>4, <1>5 DEF ListInv, Links
  <2>4. \A m \in Nodes \ Tailed : next'[m] = m
    BY <1>2, <1>4, <1>5 DEF ListInv, Links
  <2>5. ASSUME NEW v \in Writers, Linking(v)
        PROVE  /\ before[v] \in Tailed \cup {head_node}
               /\ "new_prev" \notin todo'[v] => prev'[node[v]] = before[v]
               /\ "new_next" \notin todo'[v] => next'[node[v]] # node[v]
    <3>1. CASE v = w
      BY <1>1, <1>2, <1>4, <2>5, <3>1 DEF ListInv, Links
    <3>2. CASE v # w
      <4>1. node[v] # n /\ todo'[v] = todo[v] /\ node[v] \in Nodes
        BY <1>1, <1>2, <1>4, <2>5, <3>2 DEF ListInv, Owners, NodesApart
      <4> QED BY <1>2, <1>5, <2>5, <4>1 DEF ListInv, Links
    <3> QED BY <3>1, <3>2
  <2> QED BY <1>1, <1>3, <2>1, <2>2, <2>3, <2>4, <2>5 DEF Links
<1>7. Walks'
  BY <1>1, <1>3 DEF ListInv, Walks
<1>8. ASSUME NEW rank, Ranked(rank) PROVE Ranked(rank)'
  <2>1. \A a \in Tailed : next'[a] \in Added => rank[a] < rank[next'[a]]
    BY <1>2, <1>4, <1>5, <1>8 DEF Ranked
  <2> QED BY <1>1, <1>3, <1>8, <2>1 DEF Ranked
<1> QED BY <1>6, <1>7, <1>8 DEF ListInv

\* The last store puts the node on the list, behind the tail it read, of which a node
\* that was put there meanwhile is lost.
LEMMA PublishKeeps ==
    ASSUME ListInv, Owners', NEW w \in Writers, Publish(w)
    PROVE  ListInv'
<1> USE DEF Appending, Linking
<1> DEFINE n == node[w]
           b == before[w]
<1>1. /\ Linking(w) /\ todo[w] = {}
      /\ next' = [next EXCEPT ![b] = n]
      /\ added' = Append(added, n)
      /\ wpc' = [wpc EXCEPT ![w] = "idle"]
      /\ UNCHANGED <<prev, owned, node, before, todo, cursor, listed, rpc>>
  BY DEF Publish, PlainStoresDone, reading
<1>2. /\ next \in [Cells -> Cells] /\ added \in Seq(Nodes)
      /\ wpc \in [Writers -> {"idle", "number", "data", "add", "link"}]
      /\ Cells = Nodes \cup {head_node} /\ head_node \notin Nodes /\ owned \subseteq Nodes
  BY HeadNodeAssumption DEF ListInv, Owners, TypeOK, Cells
<1>3. /\ n \in Tailed \ Added /\ Tailed \subseteq Nodes /\ n \in owned
      /\ Listed = Added \cap owned /\ Added \subseteq Tailed
  BY <1>1, SetsOfNodes DEF ListInv, Owners
<1>4. Added' = Added \cup {n}
  BY <1>1, <1>2, <1>3, AddedGrows
<1>5. Listed' = Listed \cup {n}
  BY <1>1, <1>3, <1>4 DEF Listed
<1>6. \A v \in Writers : Linking(v)' <=> Linking(v) /\ v # w
  BY <1>1, <1>2
<1>7. Tailed' = Tailed
  <2>1. \A v \in Writers : Linking(v) => v = w \/ Linking(v)'
    BY <1>6
  <2> QED BY <1>1, <1>4, <1>6, <2>1 DEF Tailed
<1>8. /\ b \in Tailed \cup {head_node} /\ prev[n] = b /\ next[n] # n
  BY <1>1 DEF ListInv, Links
<1>9. b # n
  <2>1. PICK rank : Ranked(rank)
    BY DEF ListInv
  <2> QED BY <1>1, <1>2, <1>3, <2>1 DEF Ranked
<1>10. /\ next'[b] = n
       /\ \A a \in Cells \ {b} : next'[a] = next[a]
  BY <1>1, <1>2, <1>3, <1>8
<1>11. Links'
  <2>1. prev[head_node] \in Tailed \cup {head_node}
    BY DEF ListInv, Links
  <2>2. \A a \in owned \cup {head_node} :
          next'[a] \in Listed' \cup {head_node} \/ (next'[a] = a /\ a \notin Added')
    BY <1>2, <1>3, <1>4, <1>5, <1>8, <1>9, <1>10 DEF ListInv, Links
  <2>3. \A a \in owned \cup {head_node} : next'[a] \in Listed' => prev[next'[a]] = a
    BY <1>2, <1>3, <1>5, <1>8, <1>9, <1>10 DEF ListInv, Links
  <2>4. \A m \in Nodes \ Tailed : next'[m] = m
    BY <1>2, <1>3, <1>8, <1>10 DEF ListInv, Links
  <2>5. ASSUME NEW v \in Writers, Linking(v), v # w
        PROVE  /\ before[v] \in Tailed \cup {head_node}
               /\ "new_prev" \notin todo[v] => prev[node[v]] = before[v]
               /\ "new_next" \notin todo[v] => next'[node[v]] # node[v]
    <3>1. node[v] # n /\ node[v] \in Cells
      BY <1>1, <1>2, <2>5, SetsOfNodes DEF ListInv, Owners, NodesApart
    <3> QED BY <1>10, <2>5, <3>1 DEF ListInv, Links
  <2> QED BY <1>1, <1>6, <1>7, <2>1, <2>2, <2>3, <2>4, <2>5 DEF Links
<1>12. Walks'
  BY <1>1, <1>5 DEF ListInv, Walks
<1>13. ASSUME NEW rank, Ranked(rank) PROVE Ranked(rank)'
  <2>1. rank[b] < rank[n]
    BY <1>1, <1>13 DEF Ranked
  <2>2. next[n] \in Listed \cup {head_node}
    BY <1>3, <1>8 DEF ListInv, Links
  <2>3. \A a \in Tailed \ {b} : next[a] # n
    <3>1. Tailed \subseteq owned
      BY <1>1 DEF ListInv, Owners, NodesApart, Tailed
    <3> QED BY <1>2, <1>3, <1>8, <3>1 DEF ListInv, Links
  <2>4. \A a \in Tailed : next'[a] \in Added' => rank[a] < rank[next'[a]]
    BY <1>2, <1>3, <1>4, <1>10, <1>13, <2>1, <2>3 DEF Ranked
  <2>5. \A v \in Writers : Linking(v)' => rank[before[v]] < rank[node[v]]
    BY <1>6, <1>13 DEF Ranked
  <2>6. \A r \in Readers : \A i \in DOMAIN listed[r] : listed[r][i] \in Added'
    BY <1>4, <1>13 DEF Ranked
  <2> QED BY <1>1, <1>7, <1>13, <2>4, <2>5, <2>6 DEF Ranked
<1> QED BY <1>11, <1>12, <1>13 DEF ListInv

\* A walk starts at the first node, ...
LEMMA ReadBeginsKeeps ==
    ASSUME ListInv, Owners', NEW r \in Readers, ReadBegins(r)
    PROVE  ListInv'
<1> USE DEF Appending, Linking
<1>1. /\ xpc = "loaded" /\ rpc' = [rpc EXCEPT ![r] = "walk"]
      /\ cursor' = [cursor EXCEPT ![r] = next[head_node]]
      /\ listed' = [listed EXCEPT ![r] = << >>]
      /\ UNCHANGED <<next, prev, owned, node, before, todo, wpc, added>>
  BY DEF ReadBegins, list, writing
<1>2. /\ rpc \in [Readers -> {"idle", "walk"}] /\ cursor \in [Readers -> Cells]
      /\ listed \in [Readers -> Seq(Nodes)] /\ head_node \notin Nodes
  BY HeadNodeAssumption DEF ListInv, Owners, TypeOK
<1>3. Added' = Added /\ Tailed' = Tailed /\ Listed' = Listed
  <2>1. Added' = Added /\ Tailed' = Tailed
    BY <1>1, SetsStay DEF ListInv, Owners
  <2> QED BY <1>1, <2>1 DEF Listed
<1>4. Links'
  BY <1>1, <1>3 DEF ListInv, Links
<1>5. Walks'
  BY <1>1, <1>2, <1>3 DEF ListInv, Walks, Links
<1>6. ASSUME NEW rank, Ranked(rank) PROVE Ranked(rank)'
  <2>1. listed'[r] = << >> /\ \A q \in Readers \ {r} : /\ listed'[q] = listed[q]
                                                       /\ cursor'[q] = cursor[q]
                                                       /\ rpc'[q] = rpc[q]
    BY <1>1, <1>2
  <2> QED BY <1>1, <1>3, <1>6, <2>1 DEF Ranked
<1> QED BY <1>4, <1>5, <1>6 DEF ListInv

\* ... goes from node to node as they stand in order ...
LEMMA ReadVisitsKeeps ==
    ASSUME ListInv, Owners', NEW r \in Readers, ReadVisits(r)
    PROVE  ListInv'
<1> USE DEF Appending, Linking
<1> DEFINE c == cursor[r]
<1>1. /\ rpc[r] = "walk" /\ c # head_node
      /\ listed' = [listed EXCEPT ![r] = Append(@, c)]
      /\ cursor' = [cursor EXCEPT ![r] = next[c]]
      /\ UNCHANGED <<next, prev, owned, node, before, todo, wpc, added, rpc>>
  BY DEF ReadVisits, list, writing
<1>2. /\ cursor \in [Readers -> Cells] /\ listed \in [Readers -> Seq(Nodes)]
      /\ head_node \notin Nodes
  BY HeadNodeAssumption DEF ListInv, Owners, TypeOK
<1>3. Added' = Added /\ Tailed' = Tailed /\ Listed' = Listed
  <2>1. Added' = Added /\ Tailed' = Tailed
    BY <1>1, SetsStay DEF ListInv, Owners
  <2> QED BY <1>1, <2>1 DEF Listed
<1>4. c \in Listed /\ Listed \subseteq Added /\ c \in Nodes /\ c \in Tailed /\ c \in owned
  <2>1. c \in Listed
    BY <1>1 DEF ListInv, Walks
  <2> QED BY <2>1, SetsOfNodes DEF ListInv, Owners
<1>5. next[c] \in Listed \cup {head_node}
  BY <1>4 DEF ListInv, Links
<1>6. Links'
  BY <1>1, <1>3 DEF ListInv, Links
<1>7. Walks'
  BY <1>1, <1>2, <1>3, <1>5 DEF ListInv, Walks
<1>8. ASSUME NEW rank, Ranked(rank) PROVE Ranked(rank)'
  <2> DEFINE s == listed[r]
  <2>1. /\ listed'[r] = Append(s, c) /\ cursor'[r] = next[c] /\ s \in Seq(Nodes)
        /\ Len(s) \in Nat
        /\ \A q \in Readers \ {r} : listed'[q] = listed[q] /\ cursor'[q] = cursor[q]
    BY <1>1, <1>2
  <2>2. /\ DOMAIN s = 1 .. Len(s) /\ DOMAIN listed'[r] = 1 .. Len(s) + 1
        /\ \A i \in 1 .. Len(s) : listed'[r][i] = s[i]
        /\ listed'[r][Len(s) + 1] = c
    BY <1>4, <2>1, AppendAdds
  <2>3. /\ \A i \in 1 .. Len(s) : s[i] \in Added /\ rank[s[i]] < rank[c]
        /\ \A i, j \in 1 .. Len(s) : i < j => rank[s[i]] < rank[s[j]]
    BY <1>1, <1>8, <2>2 DEF Ranked
  <2>4. \A i \in 1 .. Len(s) : rank[s[i]] \in Nat
    BY <1>8, <2>1 DEF Ranked, Cells
  <2>5. \A i, j \in DOMAIN listed'[r] : i < j => rank[listed'[r][i]] < rank[listed'[r][j]]
    BY <2>1, <2>2, <2>3
  <2>6. \A i \in DOMAIN listed'[r] : listed'[r][i] \in Added
    BY <1>4, <2>1, <2>2, <2>3
  <2>7. cursor'[r] # head_node =>
          rank[c] < rank[next[c]] /\ rank[c] \in Nat /\ rank[next[c]] \in Nat
    <3>1. cursor'[r] # head_node => next[c] \in Added /\ next[c] \in Nodes
      BY <1>4, <1>5, <2>1, SetsOfNodes DEF ListInv, Owners
    <3> QED BY <1>4, <1>8, <3>1 DEF Ranked, Cells
  <2>8. cursor'[r] # head_node =>
          \A i \in DOMAIN listed'[r] : rank[listed'[r][i]] < rank[cursor'[r]]
    BY <2>1, <2>2, <2>3, <2>4, <2>7
  <2>9. ASSUME NEW q \in Readers
        PROVE  /\ \A i \in DOMAIN listed'[q] : listed'[q][i] \in Added'
               /\ \A i, j \in DOMAIN listed'[q] :
                    i < j => rank[listed'[q][i]] < rank[listed'[q][j]]
               /\ rpc'[q] = "walk" /\ cursor'[q] # head_node =>
                    \A i \in DOMAIN listed'[q] : rank[listed'[q][i]] < rank[cursor'[q]]
    <3>1. CASE q = r
      BY <1>3, <2>5, <2>6, <2>8, <3>1
    <3>2. CASE q # r
      BY <1>1, <1>3, <1>8, <2>1, <3>2 DEF Ranked
    <3> QED BY <3>1, <3>2
  <2> QED BY <1>1, <1>3, <1>8, <2>9 DEF Ranked
<1> QED BY <1>6, <1>7, <1>8 DEF ListInv

\* ... and the exit takes the first away, which only the head points to.
LEMMA ExitFreesKeeps ==
    ASSUME ListInv, Owners', ExitFrees
    PROVE  ListInv'
<1> USE DEF Appending, Linking
<1> DEFINE c == next[head_node]
<1>1. /\ xpc = "free" /\ c # head_node /\ owned' = owned \ {c}
      /\ next' = [next EXCEPT ![prev[c]] = next[c]]
      /\ prev' = [prev EXCEPT ![next[c]] = prev[c]]
      /\ UNCHANGED <<node, before, todo, wpc, added, rpc, cursor, listed>>
  BY DEF ExitFrees, reading, writing
<1>2. /\ next \in [Cells -> Cells] /\ prev \in [Cells -> Cells]
      /\ Cells = Nodes \cup {head_node} /\ head_node \notin Nodes /\ owned \subseteq Nodes
  BY HeadNodeAssumption DEF ListInv, Owners, TypeOK, Cells
<1>3. Added' = Added /\ Tailed' = Tailed
  BY <1>1, SetsStay DEF ListInv, Owners
<1>4. Listed' = Listed \ {c} /\ Listed = Added \cap owned
  BY <1>1, <1>3 DEF Listed
<1>5. (\A w \in Writers : ~Linking(w)) /\ (\A r \in Readers : rpc[r] # "walk")
  BY <1>1 DEF ListInv, Owners, NodesApart
<1>6. Tailed = Added /\ Added \subseteq Nodes
  <2>1. Tailed = Added
    BY <1>5 DEF Tailed
  <2> QED BY <2>1, SetsOfNodes DEF ListInv, Owners
<1>7. c \in Listed
  BY <1>1, <1>2 DEF ListInv, Links
<1>8. prev[c] = head_node
  BY <1>7 DEF ListInv, Links
<1>9. next[c] \in Listed \cup {head_node} /\ next[c] # c
  <2>1. next[c] \in Listed \cup {head_node}
    BY <1>4, <1>7 DEF ListInv, Links
  <2> QED BY <1>2, <1>4, <1>6, <1>7, <1>8, <2>1 DEF ListInv, Links
<1>10. /\ next'[head_node] = next[c] /\ \A a \in Nodes : next'[a] = next[a]
       /\ prev'[next[c]] = head_node /\ \A a \in Cells \ {next[c]} : prev'[a] = prev[a]
  BY <1>1, <1>2, <1>8
<1>11. Links'
  <2>1. prev'[head_node] \in Tailed \cup {head_node}
    BY <1>2, <1>10 DEF ListInv, Links
  <2>2. \A a \in owned' \cup {head_node} :
          next'[a] \in Listed' \cup {head_node} \/ (next'[a] = a /\ a \notin Added)
    BY <1>1, <1>2, <1>4, <1>7, <1>8, <1>9, <1>10 DEF ListInv, Links
  <2>3. \A a \in owned' \cup {head_node} : next'[a] \in Listed' => prev'[next'[a]] = a
    BY <1>1, <1>2, <1>4, <1>7, <1>8, <1>9, <1>10 DEF ListInv, Links
  <2>4. \A m \in Nodes \ Tailed : next'[m] = m
    BY <1>10 DEF ListInv, Links
  <2> QED BY <1>1, <1>3, <1>5, <2>1, <2>2, <2>3, <2>4 DEF Links
<1>12. Walks'
  BY <1>1, <1>5 DEF Walks
<1>13. ASSUME NEW rank, Ranked(rank) PROVE Ranked(rank)'
  <2>1. \A a \in Tailed : next'[a] \in Added => rank[a] < rank[next'[a]]
    BY <1>6, <1>10, <1>13 DEF Ranked
  <2> QED BY <1>1, <1>3, <1>5, <1>13, <2>1 DEF Ranked
<1> QED BY <1>11, <1>12, <1>13 DEF ListInv

-----------------------------------------------------------------------------
(* Every step *)

LEMMA InitKeeps ==
    ASSUME Init
    PROVE  ListInv
<1> USE DEF Init, list, writing, reading
<1>1. Added = {} /\ Tailed = {} /\ Listed = {}
  BY DEF Added, Tailed, Listed, Linking
<1>2. Owners
  <2>1. /\ head_node \in Cells /\ added \in Seq(Nodes)
        /\ \A r \in Readers : listed[r] \in Seq(Nodes)
    BY DEF Cells
  <2>2. /\ next \in [Cells -> Cells] /\ prev \in [Cells -> Cells] /\ data \in [Nodes -> Nat]
        /\ node \in [Writers -> Cells] /\ before \in [Writers -> Cells]
        /\ todo \in [Writers -> SUBSET PlainStores]
        /\ wpc \in [Writers -> {"idle", "number", "data", "add", "link"}]
    BY <2>1
  <2>3. /\ temp \in [Writers -> Nat] /\ rpc \in [Readers -> {"idle", "walk"}]
        /\ cursor \in [Readers -> Cells] /\ floor \in [Readers -> Nat]
        /\ listed \in [Readers -> Seq(Nodes)]
    BY <2>1
  <2>4. TypeOK
    BY <2>1, <2>2, <2>3 DEF TypeOK
  <2> QED BY <1>1, <2>4 DEF Owners, NodesApart, Appending
<1>3. Links
  BY <1>1, HeadNodeAssumption DEF Links, Linking, Cells
<1>4. Walks
  BY DEF Walks
<1>5. \E rank : Ranked(rank)
  <2>1. PICK rank : rank = [c \in Cells |-> 0]
    OBVIOUS
  <2>2. \A r \in Readers : listed[r] = << >> /\ rpc[r] = "idle"
    OBVIOUS
  <2>3. Ranked(rank)
    BY <1>1, <2>1, <2>2 DEF Ranked, Cells, Linking
  <2> QED BY <2>3
<1> QED BY <1>2, <1>3, <1>4, <1>5 DEF ListInv

LEMMA WriterKeeps ==
    ASSUME ListInv, NEW w \in Writers, WriterStep(w)
    PROVE  ListInv'
<1>1. Owners'
  BY WriterKeepsOwners DEF ListInv
<1>2. wpc \in [Writers -> {"idle", "number", "data", "add", "link"}]
  BY DEF ListInv, Owners, TypeOK
<1>3. CASE WriteFails(w)
  <2>1. UNCHANGED <<next, prev, owned, before, todo, cursor, listed, added, wpc, node, rpc>>
    BY <1>3 DEF WriteFails, vars, list, writing, reading
  <2> QED BY <1>1, <2>1, QuietKeeps DEF Linking
<1>4. CASE LoadNumber(w)
  <2>1. /\ wpc[w] = "number" /\ wpc' = [wpc EXCEPT ![w] = "data"]
        /\ UNCHANGED <<next, prev, owned, before, todo, cursor, listed, added, node, rpc>>
    BY <1>4 DEF LoadNumber, list, reading
  <2> QED BY <1>1, <1>2, <2>1, QuietKeeps DEF Linking
<1>5. CASE StoreNumber(w)
  <2>1. /\ wpc[w] = "data" /\ wpc' = [wpc EXCEPT ![w] = "add"]
        /\ UNCHANGED <<next, prev, owned, before, todo, cursor, listed, added, node, rpc>>
    BY <1>5 DEF StoreNumber, list, reading
  <2> QED BY <1>1, <1>2, <2>1, QuietKeeps DEF Linking
<1> QED BY <1>1, <1>3, <1>4, <1>5, WriteAllocatesKeeps, LoadTailKeeps, PlainStoreKeeps,
           PublishKeeps DEF WriterStep

LEMMA OthersKeep ==
    ASSUME ListInv, (\E r \in Readers : ReaderStep(r)) \/ ExitStep \/ UNCHANGED vars
    PROVE  ListInv'
<1>1. Owners'
  BY OthersKeepOwners DEF ListInv
<1>2. rpc \in [Readers -> {"idle", "walk"}]
  BY DEF ListInv, Owners, TypeOK
<1>3. ASSUME NEW r \in Readers, ReadEnds(r) PROVE ListInv'
  <2>1. /\ rpc' = [rpc EXCEPT ![r] = "idle"]
        /\ UNCHANGED <<next, prev, owned, before, todo, cursor, listed, added, node, wpc>>
    BY <1>3 DEF ReadEnds, list, writing
  <2> QED BY <1>1, <1>2, <2>1, QuietKeeps DEF Linking
<1>4. CASE (\E r \in Readers : ReadEof(r)) \/ UNCHANGED vars
  <2>1. UNCHANGED <<next, prev, owned, before, todo, cursor, listed, added, wpc, node, rpc>>
    BY <1>4 DEF ReadEof, vars, list, writing, reading
  <2> QED BY <1>1, <2>1, QuietKeeps DEF Linking
<1>5. CASE ExitBegins \/ ExitEnds
  <2>1. UNCHANGED <<next, prev, owned, before, todo, cursor, listed, added, wpc, node, rpc>>
    BY <1>5 DEF ExitBegins, ExitEnds, list, writing, reading
  <2> QED BY <1>1, <2>1, QuietKeeps DEF Linking
<1> QED BY <1>1, <1>3, <1>4, <1>5, ReadBeginsKeeps, ReadVisitsKeeps, ExitFreesKeeps
        DEF ReaderStep, ExitStep

\* The invariant of labs 17 and 18: whatever overlaps, the cells lead to the head in order.
THEOREM ListInductive == Spec => []ListInv
<1>1. ListInv /\ [Next]_vars => ListInv'
  BY WriterKeeps, OthersKeep DEF Next
<1> QED BY InitKeeps, <1>1, PTL DEF Spec

-----------------------------------------------------------------------------
(* A walk *)

\* A set of numbers has a least one: the base of the inductions over a walk.
LEMMA LeastNumber ==
    ASSUME NEW T, T \subseteq Nat, T # {}
    PROVE  \E m \in T : \A k \in T : m <= k
<1> DEFINE R == OpToRel(<, Nat)
<1>1. IsWellFoundedOn(R, Nat)
  BY NatLessThanWellFounded, Zenon
<1>2. \A x, y \in Nat : y < x => <<y, x>> \in R
  BY DEF OpToRel
<1> HIDE DEF R
<1>3. PICK m \in T : \A k \in T : ~(<<k, m>> \in R)
  BY <1>1, WFMin
<1>4. ASSUME NEW k \in T PROVE m <= k
  <2>1. ~(k < m) /\ k \in Nat /\ m \in Nat
    BY <1>2, <1>3
  <2> QED BY <2>1
<1> QED BY <1>4

\* f holds the cells from c on, k links far.
Hops(f, c, k) == f = [i \in 0 .. k |-> IF i = 0 THEN c ELSE next[f[i - 1]]]

\* There is such a function, and it is the one that Hop takes.
LEMMA HopsExist ==
    ASSUME NEW c, NEW n \in Nat
    PROVE  \E f : Hops(f, c, n)
<1> DEFINE T == {k \in Nat : ~\E f : Hops(f, c, k)}
<1>1. T = {}
  <2> SUFFICES ASSUME T # {} PROVE FALSE
    OBVIOUS
  <2>1. PICK m \in T : \A k \in T : m <= k
    BY LeastNumber
  <2>2. m # 0
    <3>1. PICK f : f = [i \in 0 .. 0 |-> c]
      OBVIOUS
    <3>2. Hops(f, c, 0)
      BY <3>1 DEF Hops
    <3> QED BY <2>1, <3>2
  <2>3. m \in Nat \ {0} /\ m - 1 \in Nat /\ m - 1 \notin T
    BY <2>1, <2>2
  <2>4. PICK f : Hops(f, c, m - 1)
    BY <2>3
  <2>5. PICK g : g = [i \in 0 .. m |-> IF i = 0 THEN c ELSE next[f[i - 1]]]
    OBVIOUS
  <2> HIDE DEF T
  <2>6. \A i \in 0 .. m - 1 : f[i] = IF i = 0 THEN c ELSE next[f[i - 1]]
    BY <2>4 DEF Hops
  <2>7. \A i \in 0 .. m - 1 : g[i] = f[i]
    BY ONLY <2>3, <2>5, <2>6
  <2>8. \A i \in 0 .. m : i # 0 => i - 1 \in 0 .. m - 1
    BY <2>3
  <2>9. Hops(g, c, m)
    BY <2>5, <2>7, <2>8 DEF Hops
  <2> QED BY <2>1, <2>9 DEF T
<1> QED BY <1>1

LEMMA HopIsHops ==
    ASSUME NEW c, NEW n \in Nat
    PROVE  \E f : Hops(f, c, n) /\ Hop(c, n) = f[n]
<1> DEFINE f == CHOOSE g : g = [i \in 0 .. n |-> IF i = 0 THEN c ELSE next[g[i - 1]]]
<1>1. Hop(c, n) = f[n]
  BY DEF Hop
<1>2. Hops(f, c, n)
  BY HopsExist, Zenon DEF Hops
<1> QED BY <1>1, <1>2

\* The k links from c on, in one function.
LEMMA HopsAgree ==
    ASSUME NEW c, NEW n \in Nat, NEW f, Hops(f, c, n), NEW k \in 0 .. n, NEW g, Hops(g, c, k)
    PROVE  f[k] = g[k]
<1> DEFINE T == {i \in 0 .. k : f[i] # g[i]}
<1>1. (\A i \in 0 .. n : f[i] = IF i = 0 THEN c ELSE next[f[i - 1]])
  BY DEF Hops
<1>2. (\A i \in 0 .. k : g[i] = IF i = 0 THEN c ELSE next[g[i - 1]])
  BY DEF Hops
<1>3. T = {}
  <2> SUFFICES ASSUME T # {} PROVE FALSE
    OBVIOUS
  <2>0. T \subseteq Nat
    OBVIOUS
  <2>1. PICK m \in T : \A j \in T : m <= j
    BY <2>0, LeastNumber
  <2>2. m \in 0 .. k /\ m \in 0 .. n /\ f[m] # g[m] /\ \A j \in 0 .. k : j < m => f[j] = g[j]
    BY <2>1
  <2>3. m # 0
    BY <1>1, <1>2, <2>2
  <2>4. m - 1 \in 0 .. k /\ m - 1 < m
    BY <2>2, <2>3
  <2> QED BY <1>1, <1>2, <2>2, <2>3, <2>4
<1> QED BY <1>3

LEMMA AllHops ==
    ASSUME NEW c, NEW n \in Nat
    PROVE  \E f : Hops(f, c, n) /\ \A k \in 0 .. n : Hop(c, k) = f[k]
<1>1. PICK f : Hops(f, c, n)
  BY HopsExist
<1>2. ASSUME NEW k \in 0 .. n PROVE Hop(c, k) = f[k]
  <2>1. PICK g : Hops(g, c, k) /\ Hop(c, k) = g[k]
    BY HopIsHops
  <2> QED BY <1>1, <2>1, HopsAgree
<1> QED BY <1>1, <1>2

\* It stays on the list, and gets back to the head before it has passed every node.
LEMMA WalkComesBack ==
    ASSUME ListInv, NEW c \in Listed \cup {head_node}
    PROVE  head_node \in Ahead(c) /\ Ahead(c) \subseteq Listed \cup {head_node}
<1> DEFINE last == Cardinality(Nodes)
<1>1. /\ Listed \subseteq owned /\ Listed \subseteq Added /\ Added \subseteq Tailed
      /\ Tailed \subseteq Cells /\ Cardinality(Tailed) \in Nat /\ Cardinality(Tailed) <= last
  BY SetsOfNodes DEF ListInv, Owners, Cells
<1>2. last \in Nat
  BY NodesFinite, FS_CardinalityType
<1>3. PICK f : Hops(f, c, last) /\ \A k \in 0 .. last : Hop(c, k) = f[k]
  BY <1>2, AllHops
<1> HIDE DEF last
<1>4. f[0] = c /\ \A k \in 1 .. last : f[k] = next[f[k - 1]]
  BY <1>2, <1>3 DEF Hops
<1>5. \A a \in Listed \cup {head_node} : next[a] \in Listed \cup {head_node}
  BY <1>1 DEF ListInv, Links
<1>6. \A k \in 0 .. last : f[k] \in Listed \cup {head_node}
  <2> DEFINE T == {k \in 0 .. last : f[k] \notin Listed \cup {head_node}}
  <2> SUFFICES ASSUME T # {} PROVE FALSE
    OBVIOUS
  <2>0. T \subseteq Nat
    OBVIOUS
  <2>1. PICK m \in T : \A j \in T : m <= j
    BY <2>0, LeastNumber
  <2>2. m \in 1 .. last /\ f[m] \notin Listed \cup {head_node}
    BY <1>4, <2>1
  <2>3. m - 1 \in 0 .. last /\ ~(m <= m - 1)
    BY <1>2, <2>2
  <2>4. f[m - 1] \in Listed \cup {head_node}
    BY <2>1, <2>3
  <2> QED BY <1>4, <1>5, <2>2, <2>4
<1>7. \E k \in 0 .. last : f[k] = head_node
  <2> SUFFICES ASSUME \A k \in 0 .. last : f[k] \in Listed /\ f[k] # head_node PROVE FALSE
    BY <1>6
  <2>1. PICK rank : Ranked(rank)
    BY DEF ListInv
  <2>2. \A a \in Tailed : rank[a] \in 1 .. Cardinality(Tailed)
    BY <2>1 DEF Ranked
  <2>3. \A k \in 1 .. last : k - 1 \in 0 .. last => rank[f[k - 1]] < rank[f[k]]
    BY <1>1, <1>4, <2>1 DEF Ranked
  <2>4. \A k \in 0 .. last : rank[f[k]] \in 1 .. Cardinality(Tailed)
    BY <1>1, <2>2
  <2> DEFINE T == {k \in 0 .. last : ~(k < rank[f[k]])}
  <2>5. T = {}
    <3> SUFFICES ASSUME T # {} PROVE FALSE
      OBVIOUS
    <3>0. T \subseteq Nat
      OBVIOUS
    <3>1. PICK m \in T : \A j \in T : m <= j
      BY <3>0, LeastNumber
    <3>2. m \in 0 .. last /\ ~(m < rank[f[m]])
      BY <3>1
    <3>3. m # 0
      BY <1>1, <2>4, <3>2
    <3>4. m - 1 \in 0 .. last /\ m \in 1 .. last /\ ~(m <= m - 1)
      BY <1>2, <3>2, <3>3
    <3>5. m - 1 < rank[f[m - 1]]
      BY <3>1, <3>4
    <3> QED BY <1>1, <2>3, <2>4, <3>2, <3>4, <3>5
  <2>6. last < rank[f[last]] /\ last \in 0 .. last
    BY <1>2, <2>5
  <2> QED BY <1>1, <1>2, <2>4, <2>6
<1> QED BY <1>2, <1>3, <1>6, <1>7 DEF Ahead, last

\* WalkIsSafe of the run message_list: walks and the exit's loop come to the head again, meet
\* no freed node and none twice.
THEOREM WalksAreSafe == Spec => []WalkIsSafe
<1>1. ListInv => WalkIsSafe
  <2> SUFFICES ASSUME ListInv PROVE WalkIsSafe
    OBVIOUS
  <2>1. next[head_node] \in Listed \cup {head_node}
    <3>1. head_node \notin Nodes
      BY HeadNodeAssumption
    <3> QED BY DEF ListInv, Links
  <2>2. \A r \in Readers : rpc[r] = "walk" => cursor[r] \in Listed \cup {head_node}
    BY DEF ListInv, Walks
  <2>3. ASSUME NEW r \in Readers PROVE IsInjective(listed[r])
    <3>1. PICK rank : Ranked(rank)
      BY DEF ListInv
    <3>2. DOMAIN listed[r] \subseteq Nat
      BY DEF ListInv, Owners, TypeOK
    <3>3. \A i \in DOMAIN listed[r] : rank[listed[r][i]] \in Nat
      BY <3>1, SetsOfNodes DEF ListInv, Owners, Ranked
    <3>4. ASSUME NEW i \in DOMAIN listed[r], NEW j \in DOMAIN listed[r],
                 listed[r][i] = listed[r][j]
          PROVE  i = j
      BY <3>1, <3>2, <3>3, <3>4 DEF Ranked
    <3> QED BY <3>4 DEF IsInjective
  <2>4. Listed \subseteq owned
    BY DEF Listed
  <2> QED BY <2>1, <2>2, <2>3, <2>4, WalkComesBack DEF WalkIsSafe
<1> QED BY <1>1, ListInductive, PTL

-----------------------------------------------------------------------------
(* A walk while no two appends have overlapped *)

\* The cells in the order of the walk.
LEMMA AtIs ==
    ASSUME added \in Seq(Nodes)
    PROVE  /\ Len(added) \in Nat /\ At(0) = head_node /\ At(Len(added) + 1) = head_node
           /\ \A i \in 1 .. Len(added) : /\ At(i) = added[i] /\ added[i] \in Nodes
                                         /\ added[i] \in Added /\ added[i] # head_node
           /\ Added \subseteq {added[i] : i \in 1 .. Len(added)}
<1>1. Len(added) \in Nat /\ \A i \in 1 .. Len(added) : added[i] \in Nodes
  OBVIOUS
<1> QED BY <1>1, HeadNodeAssumption DEF At, Added

\* A node added comes behind them.
LEMMA AtGrows ==
    ASSUME added \in Seq(Nodes), NEW n \in Nodes, added' = Append(added, n)
    PROVE  /\ Len(added') = Len(added) + 1
           /\ \A i \in 1 .. Len(added) : added'[i] = added[i]
           /\ added'[Len(added')] = n
           /\ \A i \in 0 .. Len(added) : At(i)' = At(i)
           /\ At(Len(added))' = n /\ At(Len(added) + 1)' = head_node
<1>1. /\ Len(added) \in Nat /\ Len(added') = Len(added) + 1
      /\ \A i \in 1 .. Len(added) : added'[i] = added[i]
      /\ added'[Len(added')] = n
  BY AppendAdds
<1>2. ASSUME NEW i \in 0 .. Len(added) PROVE At(i)' = At(i)
  BY <1>1 DEF At
<1>3. At(Len(added))' = n /\ At(Len(added) + 1)' = head_node
  BY <1>1 DEF At
<1> QED BY <1>1, <1>2, <1>3

\* What the steps below need of ListInv: the nodes added are nodes, and no writer has one of
\* them.
Placed ==
    /\ TypeOK /\ NodesApart /\ Links
    /\ Len(added) \in Nat /\ At(0) = head_node /\ At(Len(added) + 1) = head_node
    /\ \A i \in 1 .. Len(added) : /\ At(i) = added[i] /\ added[i] \in Nodes
                                  /\ added[i] \in Added /\ added[i] # head_node
    /\ \A w \in Writers : Appending(w) => /\ node[w] \in Nodes /\ node[w] # head_node
                                          /\ \A i \in 1 .. Len(added) : node[w] # added[i]

LEMMA WhatIsPlaced ==
    ASSUME ListInv
    PROVE  Placed
<1>1. TypeOK /\ NodesApart /\ Links /\ added \in Seq(Nodes)
  BY DEF ListInv, Owners, TypeOK
<1>2. \A w \in Writers : Appending(w) => node[w] \in Nodes \ Added
  BY <1>1 DEF NodesApart, TypeOK
<1> QED BY <1>1, <1>2, AtIs, HeadNodeAssumption DEF Placed

\* Nobody else appends: the new node is the next to be numbered.
LEMMA WriteAllocatesKeepsComplete ==
    ASSUME ListInv, ListInv', Complete, NEW w \in Writers, WriteAllocates(w), ~raced'
    PROVE  Complete'
<1> USE DEF Placed, Appending, Linking, Numbering
<1>1. /\ xpc = "loaded" /\ ~Appending(w) /\ (\A v \in Writers : ~Appending(v))
      /\ \E n \in Nodes \ used : /\ node' = [node EXCEPT ![w] = n] /\ owned' = owned \cup {n}
      /\ wpc' = [wpc EXCEPT ![w] = "number"]
      /\ UNCHANGED <<data, temp_value, next, prev, added, xpc, before, temp, todo, rpc, cursor,
                     listed, floor>>
  BY DEF WriteAllocates, list, writing, reading
<1>2. Placed /\ TypeOK'
  BY WhatIsPlaced DEF ListInv, Owners
<1>3. Numbered'
  BY <1>1 DEF Complete, Numbered
<1>4. AtTheEnd'
  BY <1>1 DEF Complete, AtTheEnd, At
<1>5. InOrder'
  BY <1>1 DEF Complete, InOrder, At
<1>6. ASSUME NEW k \in 0 .. Len(added), Freed(k) PROVE Freed(k)'
  BY <1>1, <1>2, <1>6 DEF Freed, TypeOK, At
<1>7. (xpc = "gone" => next[head_node] = head_node)'
  BY <1>1 DEF Complete
<1> QED BY <1>1, <1>3, <1>4, <1>5, <1>6, <1>7 DEF Complete

\* The number read is that of the last node added.
LEMMA LoadNumberKeepsComplete ==
    ASSUME ListInv, ListInv', Complete, NEW w \in Writers, LoadNumber(w), ~raced'
    PROVE  Complete'
<1> USE DEF Placed, Appending, Linking, Numbering
<1>1. /\ wpc[w] = "number" /\ temp' = [temp EXCEPT ![w] = temp_value + 1]
      /\ wpc' = [wpc EXCEPT ![w] = "data"]
      /\ UNCHANGED <<data, temp_value, next, prev, owned, added, xpc, node, before, todo, rpc,
                     cursor, listed, floor>>
  BY DEF LoadNumber, list, writing, reading
<1>2. Placed /\ TypeOK'
  BY WhatIsPlaced DEF ListInv, Owners
<1>3. Numbered'
  <2>1. \A v \in Writers : Appending(v) => v = w
    BY <1>1 DEF Complete, Numbered
  <2>2. temp_value = Len(added)
    BY <1>1, <2>1 DEF Complete, Numbered
  <2>3. /\ \A v \in Writers : ~Numbering(v)' /\ (Appending(v)' => v = w)
        /\ temp'[w] = Len(added) + 1
    BY <1>1, <1>2, <2>1, <2>2 DEF TypeOK
  <2> QED BY <1>1, <2>1, <2>2, <2>3 DEF Complete, Numbered
<1>4. AtTheEnd'
  BY <1>1 DEF Complete, AtTheEnd, At
<1>5. InOrder'
  BY <1>1 DEF Complete, InOrder, At
<1>6. ASSUME NEW k \in 0 .. Len(added), Freed(k) PROVE Freed(k)'
  BY <1>1, <1>6 DEF Freed, At
<1>7. (xpc = "gone" => next[head_node] = head_node)'
  BY <1>1 DEF Complete
<1> QED BY <1>1, <1>3, <1>4, <1>5, <1>6, <1>7 DEF Complete

\* So the new node has the next number.
LEMMA StoreNumberKeepsComplete ==
    ASSUME ListInv, ListInv', Complete, NEW w \in Writers, StoreNumber(w), ~raced'
    PROVE  Complete'
<1> USE DEF Placed, Appending, Linking, Numbering
<1>1. /\ wpc[w] = "data" /\ temp_value' = temp[w] /\ data' = [data EXCEPT ![node[w]] = temp[w]]
      /\ wpc' = [wpc EXCEPT ![w] = "add"]
      /\ UNCHANGED <<next, prev, owned, added, xpc, node, before, temp, todo, rpc, cursor,
                     listed, floor>>
  BY DEF StoreNumber, list, writing, reading
<1>2. Placed /\ TypeOK'
  BY WhatIsPlaced DEF ListInv, Owners
<1>3. Numbered'
  BY <1>1, <1>2 DEF Complete, Numbered, TypeOK
<1>4. AtTheEnd'
  BY <1>1 DEF Complete, AtTheEnd, At
<1>5. InOrder'
  BY <1>1 DEF Complete, InOrder, At
<1>6. ASSUME NEW k \in 0 .. Len(added), Freed(k) PROVE Freed(k)'
  BY <1>1, <1>6 DEF Freed, At
<1>7. (xpc = "gone" => next[head_node] = head_node)'
  BY <1>1 DEF Complete
<1> QED BY <1>1, <1>3, <1>4, <1>5, <1>6, <1>7 DEF Complete

\* The tail read is the last node added.
LEMMA LoadTailKeepsComplete ==
    ASSUME ListInv, ListInv', Complete, NEW w \in Writers, LoadTail(w), ~raced'
    PROVE  Complete'
<1> USE DEF Placed, Appending, Linking, Numbering
<1>1. /\ wpc[w] = "add" /\ before' = [before EXCEPT ![w] = prev[head_node]]
      /\ todo' = [todo EXCEPT ![w] = PlainStores] /\ wpc' = [wpc EXCEPT ![w] = "link"]
      /\ UNCHANGED <<data, temp_value, next, prev, owned, added, xpc, node, temp, rpc, cursor,
                     listed, floor>>
  BY DEF LoadTail, list, writing, reading
<1>2. Placed /\ TypeOK'
  BY WhatIsPlaced DEF ListInv, Owners
<1>3. Numbered'
  BY <1>1 DEF Complete, Numbered
<1>4. AtTheEnd'
  <2>1. \A v \in Writers : Appending(v) => v = w
    BY <1>1 DEF Complete, Numbered
  <2>2. xpc = "loaded" /\ prev[head_node] = At(Len(added))
    BY <1>1, <1>2, <2>1 DEF Complete, AtTheEnd, NodesApart
  <2>3. before'[w] = At(Len(added)) /\ todo'[w] = PlainStores
    BY <1>1, <1>2, <2>2 DEF TypeOK
  <2>4. \A v \in Writers : Linking(v)' => v = w
    BY <1>1, <1>2, <2>1 DEF TypeOK
  <2>5. Linking(w)' /\ At(Len(added))' = At(Len(added))
    BY <1>1, <1>2 DEF TypeOK, At
  <2> QED BY <2>3, <2>4, <2>5 DEF AtTheEnd, PlainStores
<1>5. InOrder'
  BY <1>1 DEF Complete, InOrder, At
<1>6. ASSUME NEW k \in 0 .. Len(added), Freed(k) PROVE Freed(k)'
  BY <1>1, <1>6 DEF Freed, At
<1>7. (xpc = "gone" => next[head_node] = head_node)'
  BY <1>1 DEF Complete
<1> QED BY <1>1, <1>3, <1>4, <1>5, <1>6, <1>7 DEF Complete

\* The plain stores reach the new node and the head's prev, and no walk.
LEMMA PlainStoreKeepsComplete ==
    ASSUME ListInv, ListInv', Complete, NEW w \in Writers, PlainStore(w), ~raced'
    PROVE  Complete'
<1> USE DEF Placed, Appending, Linking, Numbering
<1>1. /\ wpc[w] = "link"
      /\ \/ /\ next' = next /\ prev' = [prev EXCEPT ![head_node] = node[w]]
            /\ todo' = [todo EXCEPT ![w] = @ \ {"head_prev"}]
         \/ /\ next' = next /\ prev' = [prev EXCEPT ![node[w]] = before[w]]
            /\ todo' = [todo EXCEPT ![w] = @ \ {"new_prev"}]
         \/ /\ next' = [next EXCEPT ![node[w]] = head_node] /\ prev' = prev
            /\ todo' = [todo EXCEPT ![w] = @ \ {"new_next"}]
      /\ UNCHANGED <<data, temp_value, owned, added, xpc, wpc, node, before, temp, rpc, cursor,
                     listed, floor>>
  BY WhatIsPlaced, StoreIs DEF reading, Linking
<1>2. Placed /\ TypeOK'
  BY WhatIsPlaced DEF ListInv, Owners
<1>3. Numbered'
  BY <1>1 DEF Complete, Numbered
<1>4. AtTheEnd'
  <2>1. (\A v \in Writers : Linking(v) => v = w) /\ head_node \in Cells /\ node[w] \in Cells
    BY <1>1, <1>2 DEF Complete, Numbered, Cells
  <2>2. /\ before[w] = At(Len(added))
        /\ "new_next" \notin todo[w] => next[node[w]] = head_node
        /\ "head_prev" \notin todo[w] => prev[head_node] = node[w]
    BY <1>1 DEF Complete, AtTheEnd
  <2>3. "new_next" # "head_prev" /\ "new_next" # "new_prev" /\ "new_prev" # "head_prev"
    OBVIOUS
  <2>4. /\ "new_next" \notin todo'[w] => next'[node[w]] = head_node
        /\ "head_prev" \notin todo'[w] => prev'[head_node] = node[w]
    BY <1>1, <1>2, <2>1, <2>2, <2>3 DEF TypeOK
  <2> QED BY <1>1, <2>1, <2>2, <2>4 DEF AtTheEnd, At
<1>5. InOrder'
  BY <1>1 DEF Complete, InOrder, At
<1>6. ASSUME NEW k \in 0 .. Len(added), Freed(k) PROVE Freed(k)'
  <2>1. /\ next'[head_node] = next[head_node]
        /\ \A i \in 1 .. Len(added) : next'[added[i]] = next[added[i]]
    BY <1>1, <1>2 DEF TypeOK, Cells
  <2> QED BY <1>1, <1>2, <1>6, <2>1 DEF Freed, At
<1>7. (xpc = "gone" => next[head_node] = head_node)'
  BY <1>1, <1>2 DEF Complete, NodesApart
<1> QED BY <1>1, <1>3, <1>4, <1>5, <1>6, <1>7 DEF Complete

\* The node comes behind the last one, and is added.
LEMMA PublishKeepsComplete ==
    ASSUME ListInv, ListInv', Complete, NEW w \in Writers, Publish(w), ~raced'
    PROVE  Complete'
<1> USE DEF Placed, Appending, Linking, Numbering
<1>1. /\ wpc[w] = "link" /\ todo[w] = {} /\ next' = [next EXCEPT ![before[w]] = node[w]]
      /\ added' = Append(added, node[w]) /\ wpc' = [wpc EXCEPT ![w] = "idle"]
      /\ UNCHANGED <<data, temp_value, prev, owned, xpc, node, before, temp, todo, rpc, cursor,
                     listed, floor>>
  BY DEF Publish, list, writing, reading, PlainStoresDone
<1>2. Placed /\ TypeOK'
  BY WhatIsPlaced DEF ListInv, Owners
<1>3. Numbered'
  <2>1. \A v \in Writers : Appending(v) => v = w
    BY <1>1 DEF Complete, Numbered
  <2>2. \A v \in Writers : ~Appending(v)'
    BY <1>1, <1>2, <2>1 DEF TypeOK
  <2>3. temp_value = Len(added) + 1 /\ data[node[w]] = Len(added) + 1
    BY <1>1 DEF Complete, Numbered
  <2>4. /\ Len(added') = Len(added) + 1 /\ added'[Len(added')] = node[w]
        /\ \A i \in 1 .. Len(added) : added'[i] = added[i]
    BY <1>1, <1>2, AtGrows DEF TypeOK
  <2>5. \A i \in 1 .. Len(added') : data[added'[i]] = i
    BY <1>1, <1>2, <2>3, <2>4 DEF Complete, Numbered
  <2>6. \A i, j \in 1 .. Len(added') : added'[i] = added'[j] => i = j
    BY <1>1, <1>2, <2>4 DEF Complete, Numbered
  <2> QED BY <1>1, <2>2, <2>3, <2>4, <2>5, <2>6 DEF Numbered
<1>4. AtTheEnd'
  BY <1>1, <1>2 DEF Complete, AtTheEnd, Numbered, PlainStores, TypeOK, NodesApart, At
<1>5. InOrder'
  BY <1>1, <1>2 DEF Complete, InOrder, TypeOK, At
<1>6. ASSUME NEW k \in 0 .. Len(added), Freed(k) PROVE Freed(k)'
  <2>1. k = 0
    BY <1>1, <1>2, <1>6 DEF Freed, NodesApart
  <2>2. /\ before[w] = At(Len(added)) /\ next[node[w]] = head_node
    BY <1>1, <1>2 DEF Complete, AtTheEnd
  <2>3. \A i \in 0 .. Len(added) : At(i) \in Cells /\ At(i) # node[w]
    BY <1>1, <1>2 DEF Cells
  <2>4. ASSUME NEW i \in 0 .. Len(added), i # Len(added) PROVE At(i) # At(Len(added))
    <3>1. Len(added) \in 1 .. Len(added) /\ (i = 0 \/ i \in 1 .. Len(added))
      BY <1>2, <2>4
    <3> QED BY <1>2, <2>4, <3>1 DEF Complete, Numbered
  <2>5. \A i \in 0 .. Len(added) : next[At(i)] = At(i + 1)
    BY <1>2, <1>6, <2>1 DEF Freed
  <2>6. /\ next'[At(Len(added))] = node[w] /\ next'[node[w]] = head_node
        /\ \A i \in 0 .. Len(added) : i # Len(added) => next'[At(i)] = At(i + 1)
    BY <1>1, <1>2, <2>2, <2>3, <2>4, <2>5 DEF TypeOK, Cells
  <2>7. /\ Len(added') = Len(added) + 1 /\ added'[Len(added')] = node[w]
        /\ \A i \in 1 .. Len(added) : added'[i] = added[i]
        /\ \A i \in 0 .. Len(added) : At(i)' = At(i)
        /\ At(Len(added))' = node[w] /\ At(Len(added) + 1)' = head_node
    BY <1>1, <1>2, AtGrows DEF TypeOK
  <2>8. ASSUME NEW i \in 0 .. Len(added)' PROVE next'[At(i)'] = At(i + 1)'
    <3>1. CASE i = Len(added')
      BY <1>2, <2>6, <2>7, <3>1
    <3>2. CASE i = Len(added)
      BY <1>2, <2>6, <2>7, <3>2
    <3>3. CASE i \in 0 .. Len(added) /\ i # Len(added)
      BY <1>2, <2>6, <2>7, <3>3
    <3> QED BY <1>2, <2>7, <3>1, <3>2, <3>3
  <2>9. next'[head_node] = At(1)' /\ \A i \in 1 .. Len(added') : next'[added'[i]] = At(i + 1)'
    BY <1>2, <2>7, <2>8 DEF At
  <2>10. owned' = {added'[i] : i \in 1 .. Len(added')}
                   \cup {node'[v] : v \in {u \in Writers : Appending(u)'}}
    BY <1>1, <1>2, <1>6, <2>1, <2>7 DEF Freed, TypeOK
  <2> QED BY <1>1, <2>1, <2>9, <2>10 DEF Freed
<1>7. Len(added)' = Len(added) + 1
  BY <1>1, <1>2, AtGrows DEF TypeOK
<1>8. (xpc = "gone" => next[head_node] = head_node)'
  BY <1>1, <1>2 DEF Complete, NodesApart
<1> QED BY <1>2, <1>3, <1>4, <1>5, <1>6, <1>7, <1>8 DEF Complete

\* A walk begins at the first node.
LEMMA ReadBeginsKeepsComplete ==
    ASSUME ListInv, ListInv', Complete, NEW r \in Readers, ReadBegins(r), ~raced'
    PROVE  Complete'
<1> USE DEF Placed, Appending, Linking, Numbering
<1>1. /\ xpc = "loaded" /\ rpc[r] = "idle" /\ rpc' = [rpc EXCEPT ![r] = "walk"]
      /\ cursor' = [cursor EXCEPT ![r] = next[head_node]]
      /\ listed' = [listed EXCEPT ![r] = << >>] /\ floor' = [floor EXCEPT ![r] = Len(added)]
      /\ UNCHANGED <<data, temp_value, next, prev, owned, added, xpc, wpc, node, before, temp,
                     todo>>
  BY DEF ReadBegins, list, writing, reading
<1>2. Placed /\ TypeOK'
  BY WhatIsPlaced DEF ListInv, Owners
<1>3. Numbered'
  BY <1>1 DEF Complete, Numbered
<1>4. AtTheEnd'
  BY <1>1 DEF Complete, AtTheEnd, At
<1>5. InOrder'
  <2>1. next[head_node] = At(1)
    BY <1>1 DEF Complete, Freed
  <2>2. ASSUME NEW q \in Readers, q # r
        PROVE  /\ listed'[q] = listed[q] /\ floor'[q] = floor[q]
               /\ cursor'[q] = cursor[q] /\ rpc'[q] = rpc[q]
    BY <1>1, <2>2
  <2>3. listed'[r] = << >> /\ floor'[r] = Len(added) /\ cursor'[r] = At(1)
    BY <1>1, <1>2, <2>1 DEF TypeOK
  <2>4. At(1) = head_node => Len(added) = 0
    BY <1>2
  <2> QED BY <1>1, <1>2, <2>2, <2>3, <2>4 DEF Complete, InOrder, At
<1>6. ASSUME NEW k \in 0 .. Len(added), Freed(k) PROVE Freed(k)'
  BY <1>1, <1>6 DEF Freed, At
<1>7. (xpc = "gone" => next[head_node] = head_node)'
  BY <1>1 DEF Complete
<1> QED BY <1>1, <1>3, <1>4, <1>5, <1>6, <1>7 DEF Complete

\* It goes on to the next.
LEMMA ReadVisitsKeepsComplete ==
    ASSUME ListInv, ListInv', Complete, NEW r \in Readers, ReadVisits(r), ~raced'
    PROVE  Complete'
<1> USE DEF Placed, Appending, Linking, Numbering
<1>1. /\ rpc[r] = "walk" /\ cursor[r] # head_node
      /\ listed' = [listed EXCEPT ![r] = Append(@, cursor[r])]
      /\ cursor' = [cursor EXCEPT ![r] = next[@]]
      /\ UNCHANGED <<data, temp_value, next, prev, owned, added, xpc, wpc, node, before, temp,
                     todo, rpc, floor>>
  BY DEF ReadVisits, list, writing, reading
<1>2. Placed /\ TypeOK'
  BY WhatIsPlaced DEF ListInv, Owners
<1>3. Numbered'
  BY <1>1 DEF Complete, Numbered
<1>4. AtTheEnd'
  BY <1>1 DEF Complete, AtTheEnd, At
<1>5. InOrder'
  <2> DEFINE m == Len(listed[r])
  <2>1. PICK k \in 0 .. Len(added) : Freed(k)
    BY DEF Complete
  <2>2. k = 0
    BY <1>1, <1>2, <2>1 DEF Freed, NodesApart
  <2>3. m \in Nat /\ listed[r] \in Seq(Nodes) /\ m <= Len(added) /\ cursor[r] = At(m + 1)
    BY <1>1, <1>2 DEF Complete, InOrder, TypeOK
  <2>4. m + 1 \in 1 .. Len(added) /\ cursor[r] = added[m + 1]
    BY <1>1, <1>2, <2>3 DEF At
  <2>5. next[cursor[r]] = At(m + 2)
    BY <2>1, <2>2, <2>4 DEF Freed
  <2>6. /\ Len(listed'[r]) = m + 1 /\ listed'[r][m + 1] = added[m + 1]
        /\ \A i \in 1 .. m : listed'[r][i] = listed[r][i]
        /\ cursor'[r] = At(m + 2)
    BY <1>1, <1>2, <2>3, <2>4, <2>5, AppendAdds DEF TypeOK
  <2>7. At(m + 2) = head_node => m + 1 = Len(added)
    BY <1>2, <2>3, <2>4
  <2>8. ASSUME NEW q \in Readers, q # r
        PROVE  listed'[q] = listed[q] /\ cursor'[q] = cursor[q]
    BY <1>1, <2>8
  <2> QED BY <1>1, <1>2, <2>3, <2>4, <2>6, <2>7, <2>8 DEF Complete, InOrder, At
<1>6. ASSUME NEW k \in 0 .. Len(added), Freed(k) PROVE Freed(k)'
  BY <1>1, <1>6 DEF Freed, At
<1>7. (xpc = "gone" => next[head_node] = head_node)'
  BY <1>1 DEF Complete
<1> QED BY <1>1, <1>3, <1>4, <1>5, <1>6, <1>7 DEF Complete

\* It is over at the head.
LEMMA ReadEndsKeepsComplete ==
    ASSUME ListInv, ListInv', Complete, NEW r \in Readers, ReadEnds(r), ~raced'
    PROVE  Complete'
<1> USE DEF Placed, Appending, Linking, Numbering
<1>1. /\ rpc[r] = "walk" /\ cursor[r] = head_node /\ rpc' = [rpc EXCEPT ![r] = "idle"]
      /\ UNCHANGED <<data, temp_value, next, prev, owned, added, xpc, wpc, node, before, temp,
                     todo, cursor, listed, floor>>
  BY DEF ReadEnds, list, writing, reading
<1>2. Placed /\ TypeOK'
  BY WhatIsPlaced DEF ListInv, Owners
<1>3. Numbered'
  BY <1>1 DEF Complete, Numbered
<1>4. AtTheEnd'
  BY <1>1 DEF Complete, AtTheEnd, At
<1>5. InOrder'
  BY <1>1 DEF Complete, InOrder, At
<1>6. ASSUME NEW k \in 0 .. Len(added), Freed(k) PROVE Freed(k)'
  BY <1>1, <1>6 DEF Freed, At
<1>7. (xpc = "gone" => next[head_node] = head_node)'
  BY <1>1 DEF Complete
<1> QED BY <1>1, <1>3, <1>4, <1>5, <1>6, <1>7 DEF Complete

\* The exit begins when nobody appends.
LEMMA ExitBeginsKeepsComplete ==
    ASSUME ListInv, ListInv', Complete, ExitBegins, ~raced'
    PROVE  Complete'
<1> USE DEF Placed, Appending, Linking, Numbering
<1>1. /\ xpc = "loaded" /\ (\A w \in Writers : ~Appending(w)) /\ xpc' = "free"
      /\ UNCHANGED <<data, temp_value, next, prev, owned, added, wpc, node, before, temp, todo,
                     rpc, cursor, listed, floor>>
  BY DEF ExitBegins, list, writing, reading
<1>2. Placed /\ TypeOK'
  BY WhatIsPlaced DEF ListInv, Owners
<1>3. Numbered'
  BY <1>1 DEF Complete, Numbered
<1>4. AtTheEnd'
  BY <1>1 DEF Complete, AtTheEnd, At
<1>5. InOrder'
  BY <1>1 DEF Complete, InOrder, At
<1>6. ASSUME NEW k \in 0 .. Len(added), Freed(k) PROVE Freed(k)'
  BY <1>1, <1>6 DEF Freed, At
<1>7. (xpc = "gone" => next[head_node] = head_node)'
  BY <1>1 DEF Complete
<1> QED BY <1>1, <1>3, <1>4, <1>5, <1>6, <1>7 DEF Complete

\* It takes the first node away.
LEMMA ExitFreesKeepsComplete ==
    ASSUME ListInv, ListInv', Complete, ExitFrees, ~raced'
    PROVE  Complete'
<1> USE DEF Placed, Appending, Linking, Numbering
<1>1. /\ xpc = "free" /\ next[head_node] # head_node
      /\ next' = [next EXCEPT ![prev[next[head_node]]] = next[next[head_node]]]
      /\ prev' = [prev EXCEPT ![next[next[head_node]]] = prev[next[head_node]]]
      /\ owned' = owned \ {next[head_node]}
      /\ UNCHANGED <<data, temp_value, added, xpc, wpc, node, before, temp, todo, rpc, cursor,
                     listed, floor>>
  BY DEF ExitFrees, list, writing, reading
<1>2. Placed /\ TypeOK'
  BY WhatIsPlaced DEF ListInv, Owners
<1>3. Numbered'
  BY <1>1 DEF Complete, Numbered
<1>4. AtTheEnd'
  BY <1>1, <1>2 DEF Complete, AtTheEnd, NodesApart, At
<1>5. InOrder'
  BY <1>1 DEF Complete, InOrder, At
<1>6. \E k \in 0 .. Len(added)' : Freed(k)'
  <2>1. PICK k \in 0 .. Len(added) : Freed(k)
    BY DEF Complete
  <2>2. /\ k + 1 \in 1 .. Len(added) /\ next[head_node] = added[k + 1]
    BY <1>1, <1>2, <2>1 DEF Freed, At
  <2>3. prev[added[k + 1]] = head_node
    BY <1>2, <2>1, <2>2 DEF Freed, Links, Listed
  <2>4. next[added[k + 1]] = At(k + 2)
    BY <2>1, <2>2 DEF Freed
  <2>5. /\ next'[head_node] = At(k + 2)
        /\ \A i \in 1 .. Len(added) : next'[added[i]] = next[added[i]]
    BY <1>1, <1>2, <2>2, <2>3, <2>4 DEF TypeOK, Cells
  <2>6. \A w \in Writers : ~Appending(w)
    BY <1>1, <1>2 DEF NodesApart
  <2>7. owned' = {added[i] : i \in k + 2 .. Len(added)}
    <3>1. owned = {added[i] : i \in k + 1 .. Len(added)}
      BY <2>1, <2>6 DEF Freed
    <3>2. \A i \in 1 .. Len(added) : added[i] = added[k + 1] => i = k + 1
      BY <2>2 DEF Complete, Numbered
    <3> QED BY <1>1, <1>2, <2>2, <3>1, <3>2
  <2>8. PICK j \in 0 .. Len(added) : j = k + 1
    BY <1>2, <2>2
  <2>9. \A i \in j + 1 .. Len(added) : next'[added[i]] = At(i + 1)
    BY <1>2, <2>1, <2>5, <2>8 DEF Freed
  <2>10. \A i \in Nat : At(i)' = At(i)
    BY <1>1 DEF At
  <2>11. j + 1 \in Nat /\ j + 1 = k + 2 /\ \A i \in j + 1 .. Len(added) : i + 1 \in Nat
    BY <1>2, <2>8
  <2>12. owned' = {added'[i] : i \in j + 1 .. Len(added')}
                   \cup {node'[w] : w \in {v \in Writers : Appending(v)'}}
    <3>1. owned' = {added[i] : i \in j + 1 .. Len(added)}
      BY <2>7, <2>11
    <3> QED BY <1>1, <2>6, <3>1
  <2>13. next'[head_node] = At(j + 1)'
    BY <2>5, <2>10, <2>11
  <2>14. ASSUME NEW i \in j + 1 .. Len(added)' PROVE next'[added'[i]] = At(i + 1)'
    BY <1>1, <2>9, <2>10, <2>11, <2>14
  <2>15. Freed(j)'
    BY <1>1, <2>12, <2>13, <2>14 DEF Freed
  <2> QED BY <1>1, <2>8, <2>15
<1>7. (xpc = "gone" => next[head_node] = head_node)'
  BY <1>1 DEF Complete
<1> QED BY <1>1, <1>3, <1>4, <1>5, <1>6, <1>7 DEF Complete

\* It ends when the head points to itself.
LEMMA ExitEndsKeepsComplete ==
    ASSUME ListInv, ListInv', Complete, ExitEnds, ~raced'
    PROVE  Complete'
<1> USE DEF Placed, Appending, Linking, Numbering
<1>1. /\ xpc = "free" /\ next[head_node] = head_node /\ xpc' = "gone"
      /\ UNCHANGED <<data, temp_value, next, prev, owned, added, wpc, node, before, temp, todo,
                     rpc, cursor, listed, floor>>
  BY DEF ExitEnds, list, writing, reading
<1>2. Placed /\ TypeOK'
  BY WhatIsPlaced DEF ListInv, Owners
<1>3. Numbered'
  BY <1>1 DEF Complete, Numbered
<1>4. AtTheEnd'
  BY <1>1 DEF Complete, AtTheEnd, At
<1>5. InOrder'
  BY <1>1 DEF Complete, InOrder, At
<1>6. ASSUME NEW k \in 0 .. Len(added), Freed(k) PROVE Freed(k)'
  BY <1>1, <1>6 DEF Freed, At
<1>7. (xpc = "gone" => next[head_node] = head_node)'
  BY <1>1 DEF Complete
<1> QED BY <1>1, <1>3, <1>4, <1>5, <1>6, <1>7 DEF Complete

\* Before the first append there is nothing to lose.
LEMMA InitIsComplete ==
    ASSUME Init
    PROVE  Complete
<1> USE DEF Init, list, writing, reading, Appending, Linking, Numbering
<1>1. /\ Len(added) = 0 /\ At(0) = head_node /\ At(1) = head_node /\ head_node \in Cells
      /\ (\A w \in Writers : wpc[w] = "idle") /\ (\A r \in Readers : rpc[r] = "idle")
  BY DEF At, Cells
<1>2. Numbered /\ AtTheEnd
  BY <1>1 DEF Numbered, AtTheEnd
<1>3. InOrder
  BY <1>1 DEF InOrder
<1>4. Freed(0)
  BY <1>1 DEF Freed
<1> QED BY <1>1, <1>2, <1>3, <1>4 DEF Complete

\* A step that changes nothing loses nothing.
LEMMA QuietKeepsComplete ==
    ASSUME Complete, UNCHANGED vars
    PROVE  Complete'
<1> USE DEF vars, list, writing, reading
<1>1. \A i : At(i)' = At(i)
  BY DEF At
<1>2. Numbered'
  BY DEF Complete, Numbered, Numbering, Appending
<1>3. AtTheEnd'
  BY <1>1 DEF Complete, AtTheEnd, Numbering, Linking
<1>4. InOrder'
  BY <1>1 DEF Complete, InOrder
<1>5. ASSUME NEW k \in 0 .. Len(added), Freed(k) PROVE Freed(k)'
  BY <1>1, <1>5 DEF Freed, Appending
<1> QED BY <1>2, <1>3, <1>4, <1>5 DEF Complete

\* The history variable never goes back.
LEMMA OverlapsAreRemembered ==
    ASSUME TypeOK, [Next]_vars, ~raced'
    PROVE  ~raced
<1> USE DEF vars
<1>1. ASSUME NEW w \in Writers, WriterStep(w) PROVE ~raced
  BY <1>1 DEF WriterStep, WriteFails, WriteAllocates, LoadNumber, StoreNumber, LoadTail,
              PlainStore, Publish
<1>2. ASSUME NEW r \in Readers, ReaderStep(r) PROVE ~raced
  BY <1>2 DEF ReaderStep, ReadEof, ReadBegins, ReadVisits, ReadEnds
<1>3. CASE ExitStep
  BY <1>3 DEF ExitStep, ExitBegins, ExitFrees, ExitEnds
<1> QED BY <1>1, <1>2, <1>3 DEF Next

LEMMA StepKeepsComplete ==
    ASSUME ListInv, ListInv', Complete, [Next]_vars, ~raced'
    PROVE  Complete'
<1>1. ASSUME NEW w \in Writers, WriterStep(w) PROVE Complete'
  BY <1>1, QuietKeepsComplete, WriteAllocatesKeepsComplete, LoadNumberKeepsComplete,
     StoreNumberKeepsComplete, LoadTailKeepsComplete, PlainStoreKeepsComplete,
     PublishKeepsComplete DEF WriterStep, WriteFails
<1>2. ASSUME NEW r \in Readers, ReaderStep(r) PROVE Complete'
  BY <1>2, QuietKeepsComplete, ReadBeginsKeepsComplete, ReadVisitsKeepsComplete,
     ReadEndsKeepsComplete DEF ReaderStep, ReadEof
<1>3. CASE ExitStep
  BY <1>3, ExitBeginsKeepsComplete, ExitFreesKeepsComplete, ExitEndsKeepsComplete
     DEF ExitStep
<1> QED BY <1>1, <1>2, <1>3, QuietKeepsComplete DEF Next

\* While no two appends have overlapped, list, numbers and walks keep the order of the writes.
THEOREM CompleteInductive == Spec => []CompleteInv
<1>1. Init => CompleteInv
  BY InitKeeps, InitIsComplete DEF CompleteInv
<1>2. CompleteInv /\ [Next]_vars => CompleteInv'
  <2> SUFFICES ASSUME CompleteInv, [Next]_vars PROVE CompleteInv'
    OBVIOUS
  <2>1. ListInv /\ ListInv'
    BY WriterKeeps, OthersKeep DEF Next, CompleteInv
  <2>2. ~raced' => Complete'
    BY <2>1, OverlapsAreRemembered, StepKeepsComplete DEF CompleteInv, ListInv, Owners
  <2> QED BY <2>1, <2>2 DEF CompleteInv
<1> QED BY <1>1, <1>2, PTL DEF Spec

\* WalkIsComplete of the run message_list: a walk lists the messages in the order written, from
\* 1 on and up to the last whose write had returned, and hello_exit gives every node back.
THEOREM WalksAreComplete == Spec => []WalkIsComplete
<1>1. CompleteInv => WalkIsComplete
  <2> SUFFICES ASSUME ListInv, Complete PROVE WalkIsComplete
    BY DEF CompleteInv, WalkIsComplete
  <2>1. /\ Len(added) \in Nat /\ \A i \in 1 .. Len(added) : added[i] # head_node
        /\ TypeOK /\ NodesApart
    BY WhatIsPlaced DEF Placed
  <2>2. ASSUME NEW r \in Readers
        PROVE  /\ \A i \in DOMAIN listed[r] : /\ data[listed[r][i]] = i
                                              /\ i <= Len(added) => listed[r][i] = added[i]
               /\ rpc[r] = "walk" /\ cursor[r] = head_node => Len(listed[r]) >= floor[r]
    <3>1. DOMAIN listed[r] = 1 .. Len(listed[r]) /\ Len(listed[r]) \in Nat /\ floor[r] \in Nat
      BY <2>1 DEF TypeOK
    <3>2. \A i \in DOMAIN listed[r] : i \in 1 .. Len(added) /\ listed[r][i] = added[i]
      BY <2>1, <3>1 DEF Complete, InOrder
    <3>3. \A i \in 1 .. Len(added) : data[added[i]] = i
      BY DEF Complete, Numbered
    <3>4. rpc[r] = "walk" /\ cursor[r] = head_node => floor[r] <= Len(listed[r])
      BY DEF Complete, InOrder
    <3> QED BY <3>1, <3>2, <3>3, <3>4
  <2>3. ASSUME xpc = "gone" PROVE owned = {}
    <3>1. PICK k \in 0 .. Len(added) : Freed(k)
      BY DEF Complete
    <3>2. At(k + 1) = head_node
      BY <2>3, <3>1 DEF Complete, Freed
    <3>3. k = Len(added)
      BY <2>1, <3>2 DEF At
    <3>4. \A w \in Writers : ~Appending(w)
      BY <2>1, <2>3 DEF NodesApart
    <3>5. k + 1 .. Len(added) = {}
      BY <2>1, <3>3
    <3> QED BY <3>1, <3>4, <3>5 DEF Freed
  <2> QED BY <2>2, <2>3 DEF WalkIsComplete
<1> QED BY <1>1, CompleteInductive, PTL
=============================================================================
