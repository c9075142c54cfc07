----------------------------- MODULE MessageList -----------------------------
(***************************************************************************)
(* The list that k_tasklet-18/tasklet_module.c and                         *)
(* k_linked_list-17/linked_list.c keep: my_write appends a node for every  *)
(* message with list_add_tail, my_read walks it, hello_exit deletes and    *)
(* frees it.  No lock is taken.  The file operations' owner is the module, *)
(* so hello_exit runs when no file is open: my_write and my_read run       *)
(* against each other, hello_exit runs alone.                              *)
(*                                                                         *)
(* list_add_tail(new, head) is, in include/linux/list.h,                   *)
(*      prev = head->prev;                                                 *)
(*      head->prev = new;  new->next = head;  new->prev = prev;            *)
(*      WRITE_ONCE(prev->next, new);                                       *)
(* The three plain stores may come in any order, the last one comes last.  *)
(* The copy to and from device_buffer is CharBuffer's.                     *)
(***************************************************************************)
EXTENDS Integers, Sequences, FiniteSets, Functions

CONSTANTS
    Writers,   \* processes that call write(2)
    Readers,   \* processes that call read(2)
    Nodes,     \* the memory kmalloc hands out; also the bound on messages
    head_node  \* the list's head

ASSUME HeadNodeAssumption == head_node \notin Nodes
ASSUME NodesFinite == IsFiniteSet(Nodes)

Cells == Nodes \cup {head_node}

VARIABLES
    next, prev,   \* the list_head of each node and of head_node
    data,         \* my_list.data
    temp_value,   \* temp_value
    owned,        \* nodes allocated and not freed
    used,         \* nodes ever allocated: TLC hands none out twice
    wpc, node, before, temp, todo,   \* my_write: where it stands and its locals
    rpc, cursor, listed,             \* my_read: where it stands, the walk
    xpc,          \* hello_exit
    added,        \* history: nodes whose list_add_tail returned, in that order
    floor,        \* history: how many were added when a walk began
    raced         \* history: two appends overlapped

list == <<next, prev>>
writing == <<wpc, node, before, temp, todo>>
reading == <<rpc, cursor, listed, floor>>
vars == <<list, data, temp_value, owned, used, writing, reading, xpc, added, raced>>

PlainStores == {"head_prev", "new_next", "new_prev"}

Init ==
    /\ next = [c \in Cells |-> c]
    /\ prev = [c \in Cells |-> c]
    /\ data = [n \in Nodes |-> 0]
    /\ temp_value = 0
    /\ owned = {} /\ used = {}
    /\ wpc = [w \in Writers |-> "idle"]
    /\ node = [w \in Writers |-> head_node]
    /\ before = [w \in Writers |-> head_node]
    /\ temp = [w \in Writers |-> 0]
    /\ todo = [w \in Writers |-> {}]
    /\ rpc = [r \in Readers |-> "idle"]
    /\ cursor = [r \in Readers |-> head_node]
    /\ listed = [r \in Readers |-> << >>]
    /\ floor = [r \in Readers |-> 0]
    /\ xpc = "loaded"
    /\ added = << >>
    /\ raced = FALSE

Appending(w) == wpc[w] # "idle"

-----------------------------------------------------------------------------
(* my_write *)

\* copy_from_user faults or kmalloc returns NULL: -EFAULT or -EINVAL, and the
\* list is as it was.
WriteFails(w) ==
    /\ xpc = "loaded"
    /\ ~Appending(w)
    /\ UNCHANGED vars

\* kmalloc, and INIT_LIST_HEAD, which nobody else sees.
WriteAllocates(w) ==
    /\ xpc = "loaded"
    /\ ~Appending(w)
    /\ \E n \in Nodes \ used :
        /\ node' = [node EXCEPT ![w] = n]
        /\ owned' = owned \cup {n}
        /\ used' = used \cup {n}
    /\ wpc' = [wpc EXCEPT ![w] = "number"]
    /\ raced' = (raced \/ \E v \in Writers : Appending(v))
    /\ UNCHANGED <<list, data, temp_value, before, temp, todo, reading, xpc, added>>

\* new_node->data = temp_value += 1 begins with a load ...
LoadNumber(w) ==
    /\ wpc[w] = "number"
    /\ temp' = [temp EXCEPT ![w] = temp_value + 1]
    /\ wpc' = [wpc EXCEPT ![w] = "data"]
    /\ UNCHANGED <<list, data, temp_value, owned, used, node, before, todo, reading,
                   xpc, added, raced>>

\* Mutant: the node gets the old number.
StoreNumberOld(w) ==
    /\ wpc[w] = "data"
    /\ temp_value' = temp[w]
    /\ data' = [data EXCEPT ![node[w]] = temp[w] - 1]
    /\ wpc' = [wpc EXCEPT ![w] = "add"]
    /\ UNCHANGED <<list, owned, used, node, before, temp, todo, reading, xpc,
                   added, raced>>

\* ... and ends with two stores.
StoreNumber(w) ==
    /\ wpc[w] = "data"
    /\ temp_value' = temp[w]
    /\ data' = [data EXCEPT ![node[w]] = temp[w]]
    /\ wpc' = [wpc EXCEPT ![w] = "add"]
    /\ UNCHANGED <<list, owned, used, node, before, temp, todo, reading, xpc,
                   added, raced>>

\* prev = head->prev
LoadTail(w) ==
    /\ wpc[w] = "add"
    /\ before' = [before EXCEPT ![w] = prev[head_node]]
    /\ todo' = [todo EXCEPT ![w] = PlainStores]
    /\ wpc' = [wpc EXCEPT ![w] = "link"]
    /\ UNCHANGED <<list, data, temp_value, owned, used, node, temp, reading, xpc,
                   added, raced>>

\* One of the plain stores.
PlainStore(w) ==
    /\ wpc[w] = "link"
    /\ \E s \in todo[w] :
        /\ next' = IF s = "new_next" THEN [next EXCEPT ![node[w]] = head_node] ELSE next
        /\ prev' = CASE s = "head_prev" -> [prev EXCEPT ![head_node] = node[w]]
                     [] s = "new_prev" -> [prev EXCEPT ![node[w]] = before[w]]
                     [] OTHER -> prev
        /\ todo' = [todo EXCEPT ![w] = @ \ {s}]
    /\ UNCHANGED <<data, temp_value, owned, used, wpc, node, before, temp, reading,
                   xpc, added, raced>>

PlainStoresDone(w) == todo[w] = {}

\* WRITE_ONCE(prev->next, new): the node is on the list; my_write returns.
Publish(w) ==
    /\ wpc[w] = "link"
    /\ PlainStoresDone(w)
    /\ next' = [next EXCEPT ![before[w]] = node[w]]
    /\ added' = Append(added, node[w])
    /\ wpc' = [wpc EXCEPT ![w] = "idle"]
    /\ UNCHANGED <<prev, data, temp_value, owned, used, node, before, temp, todo,
                   reading, xpc, raced>>

-----------------------------------------------------------------------------
(* my_read *)

\* *offset >= strlen(device_buffer): 0, before the list is looked at.
ReadEof(r) ==
    /\ xpc = "loaded"
    /\ rpc[r] = "idle"
    /\ UNCHANGED vars

\* list_for_each_entry(temp, &head_node, list); the buffer may hold a message
\* whose node is not there, yet or at all.
ReadBegins(r) ==
    /\ xpc = "loaded"
    /\ rpc[r] = "idle"
    /\ rpc' = [rpc EXCEPT ![r] = "walk"]
    /\ cursor' = [cursor EXCEPT ![r] = next[head_node]]
    /\ listed' = [listed EXCEPT ![r] = << >>]
    /\ floor' = [floor EXCEPT ![r] = Len(added)]
    /\ UNCHANGED <<list, data, temp_value, owned, used, writing, xpc, added, raced>>

\* pr_info("node : %d data = %d\n", ...) and on to the next.
ReadVisits(r) ==
    /\ rpc[r] = "walk"
    /\ cursor[r] # head_node
    /\ listed' = [listed EXCEPT ![r] = Append(@, cursor[r])]
    /\ cursor' = [cursor EXCEPT ![r] = next[@]]
    /\ UNCHANGED <<list, data, temp_value, owned, used, writing, rpc, floor, xpc,
                   added, raced>>

\* The walk is over; what follows is CharBuffer's.
ReadEnds(r) ==
    /\ rpc[r] = "walk"
    /\ cursor[r] = head_node
    /\ rpc' = [rpc EXCEPT ![r] = "idle"]
    /\ UNCHANGED <<list, data, temp_value, owned, used, writing, cursor, listed,
                   floor, xpc, added, raced>>

-----------------------------------------------------------------------------
(* hello_exit *)

\* rmmod, when every file is closed.
ExitBegins ==
    /\ xpc = "loaded"
    /\ \A w \in Writers : ~Appending(w)
    /\ \A r \in Readers : rpc[r] = "idle"
    /\ xpc' = "free"
    /\ UNCHANGED <<list, data, temp_value, owned, used, writing, reading, added, raced>>

\* Mutant: the node is freed and stays on the list.
ExitFreesOnly ==
    /\ xpc = "free"
    /\ next[head_node] # head_node
    /\ owned' = owned \ {next[head_node]}
    /\ UNCHANGED <<list, data, temp_value, used, writing, reading, xpc, added, raced>>

\* list_del(&cursor->list); kfree(cursor): the first node of the list.
ExitFrees ==
    /\ xpc = "free"
    /\ next[head_node] # head_node
    /\ LET c == next[head_node] IN
        /\ next' = [next EXCEPT ![prev[c]] = next[c]]
        /\ prev' = [prev EXCEPT ![next[c]] = prev[c]]
        /\ owned' = owned \ {c}
    /\ UNCHANGED <<data, temp_value, used, writing, reading, xpc, added, raced>>

\* The rest of hello_exit does not touch the list.
ExitEnds ==
    /\ xpc = "free"
    /\ next[head_node] = head_node
    /\ xpc' = "gone"
    /\ UNCHANGED <<list, data, temp_value, owned, used, writing, reading, added, raced>>

-----------------------------------------------------------------------------
WriterStep(w) ==
    \/ WriteFails(w) \/ WriteAllocates(w)
    \/ LoadNumber(w) \/ StoreNumber(w)
    \/ LoadTail(w) \/ PlainStore(w) \/ Publish(w)

ReaderStep(r) == ReadEof(r) \/ ReadBegins(r) \/ ReadVisits(r) \/ ReadEnds(r)

ExitStep == ExitBegins \/ ExitFrees \/ ExitEnds

Next ==
    \/ \E w \in Writers : WriterStep(w)
    \/ \E r \in Readers : ReaderStep(r)
    \/ ExitStep

Spec == Init /\ [][Next]_vars

-----------------------------------------------------------------------------
(* Properties *)

\* Every variable has its type.
TypeOK ==
    /\ next \in [Cells -> Cells] /\ prev \in [Cells -> Cells]
    /\ data \in [Nodes -> Nat]
    /\ temp_value \in Nat
    /\ owned \subseteq Nodes /\ used \subseteq Nodes
    /\ wpc \in [Writers -> {"idle", "number", "data", "add", "link"}]
    /\ node \in [Writers -> Cells] /\ before \in [Writers -> Cells]
    /\ temp \in [Writers -> Nat]
    /\ todo \in [Writers -> SUBSET PlainStores]
    /\ rpc \in [Readers -> {"idle", "walk"}]
    /\ cursor \in [Readers -> Cells]
    /\ listed \in [Readers -> Seq(Nodes)]
    /\ floor \in [Readers -> Nat]
    /\ xpc \in {"loaded", "free", "gone"}
    /\ added \in Seq(Nodes)
    /\ raced \in BOOLEAN

\* The cell k links behind c.
Hop(c, k) ==
    LET hop[i \in 0..k] == IF i = 0 THEN c ELSE next[hop[i - 1]] IN hop[k]

\* The cells a walk that stands at c has still to visit.
Ahead(c) == {Hop(c, k) : k \in 0..Cardinality(Nodes)}

\* A walk always gets back to head_node, touches no freed node and lists none
\* twice, however the appends overlapped: neither my_read's list_for_each_entry
\* nor hello_exit's can loop for ever or use memory after its kfree.
WalkIsSafe ==
    /\ \A c \in {next[head_node]} \cup {cursor[r] : r \in {q \in Readers : rpc[q] = "walk"}} :
         /\ head_node \in Ahead(c)
         /\ Ahead(c) \subseteq owned \cup {head_node}
    /\ \A r \in Readers : IsInjective(listed[r])

\* While no two appends have overlapped nothing is lost: a walk lists the
\* messages in the order written, numbered 1, 2, 3 ..., at least those whose
\* write had returned when the walk began, and hello_exit gives every node
\* back.
WalkIsComplete ==
    ~raced =>
        /\ \A r \in Readers :
             /\ \A i \in DOMAIN listed[r] :
                  /\ data[listed[r][i]] = i
                  /\ i <= Len(added) => listed[r][i] = added[i]
             /\ rpc[r] = "walk" /\ cursor[r] = head_node => Len(listed[r]) >= floor[r]
        /\ xpc = "gone" => owned = {}
=============================================================================
