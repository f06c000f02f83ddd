------------------------------- MODULE Events -------------------------------
(***************************************************************************)
(* EventManager: the ids of event types, given out per process, and the    *)
(* lists of receivers each manager keeps by id.  subscribe, unsubscribe    *)
(* and post remember the id of a type in static variables of their own,    *)
(* shared by all managers.  A post calls one receiver after the other, and *)
(* what receivers do meanwhile changes the list that is being walked.      *)
(***************************************************************************)
EXTENDS Naturals, Sequences, FiniteSets, SequencesExt, Functions

CONSTANTS
  Managers,      \* the event managers of the process
  Types,         \* the event types
  Receivers,     \* the receivers
  Kind,          \* Kind[r]: the type T of the Receiver<T> r
  Nobody,        \* no manager, no receiver, no list
  MaxEntries,    \* bound on the entries of a list
  MaxDepth       \* bound on posts within posts

(* A std::vector of receivers: its memory, and how much of it is in use.   *)
(* Memory beyond the size keeps what was there.                            *)
Lists == [memory : Seq(Receivers \cup {Nobody}), size : Nat]

ASSUME EventsAssumption ==
  /\ Kind \in [Receivers -> Types]
  /\ Nobody \notin Managers /\ Nobody \notin Receivers /\ Nobody \notin Lists
  /\ MaxEntries \in Nat /\ MaxDepth \in Nat

VARIABLES
  eventTypes,    \* the types in the order of their ids: type_map
  cached,        \* the <<function, type>> whose static id is initialised
  lists,         \* lists[m]: EventManager::subscriptions_ of m by id
  events,        \* events[r]: Receiver::events_
  live,          \* the receivers that exist
  posts,         \* the posts in progress, the innermost last
  gone,          \* the managers destroyed
  broken,        \* undefined behaviour has been reached
  used,          \* history: the managers that have been used
  subscribed,    \* history: subscribed[m]: the receivers that should get events
  misused        \* history: what the class does not provide for has happened

eventVars == <<eventTypes, cached, lists, events, live, posts, gone, broken,
               used, subscribed, misused>>

EmptyList == [memory |-> <<>>, size |-> 0]

EventsInit ==
  /\ eventTypes = <<>>
  /\ cached = {}
  /\ lists = [m \in Managers |-> <<>>]
  /\ events = [r \in Receivers |-> Nobody]
  /\ live = Receivers
  /\ posts = <<>>
  /\ gone = {}
  /\ broken = FALSE
  /\ used = {}
  /\ subscribed = [m \in Managers |-> {}]
  /\ misused = FALSE

-----------------------------------------------------------------------------
(* Ids and lists. *)

Id(ts, t) == CHOOSE i \in DOMAIN ts : ts[i] = t

(* registerEventType(name): the id a type has, or the next one. *)
WithType(ts, t) == IF Contains(ts, t) THEN ts ELSE Append(ts, t)

Resized(s, n) == [i \in 1..n |-> IF i \in DOMAIN s THEN s[i] ELSE Nobody]

(* registerEventType<T>(): a manager that has no list at the id gets one,  *)
(* after its table was resized to end with that id, even if it was longer. *)
WithList(s, id) ==
  IF id \in DOMAIN s /\ s[id] # Nobody THEN s
  ELSE [Resized(s, id) EXCEPT ![id] = EmptyList]

(* The table of m once function f has been entered for type t: the type is *)
(* registered by the first call of f for it, with whatever manager.        *)
Entered(m, f, t) ==
  IF <<f, t>> \in cached THEN lists[m]
  ELSE WithList(lists[m], Id(WithType(eventTypes, t), t))

HasList(s, ts, t) ==
  LET id == Id(ts, t) IN id \in DOMAIN s /\ s[id] # Nobody

(* push_back; a full vector moves to memory of twice the size. *)
Added(list, r) ==
  LET n == Len(list.memory)
      room == IF list.size < n THEN list.memory
              ELSE Resized(list.memory, IF n = 0 THEN 1 ELSE 2 * n)
  IN [memory |-> [room EXCEPT ![list.size + 1] = r], size |-> list.size + 1]

Entries(list) == SubSeq(list.memory, 1, list.size)

(* Mistaken variant: the last receiver is dropped instead. *)
ErasedLast(list, r) ==
  IF Contains(Entries(list), r) THEN [list EXCEPT !.size = @ - 1] ELSE list

(* Receivers::remove: the first entry of r is erased, those behind it move *)
(* up by one, and the memory of the last keeps its copy.                   *)
Erased(list, r) ==
  IF ~Contains(Entries(list), r) THEN list
  ELSE LET k == SelectInSeq(Entries(list), LAMBDA x : x = r)
       IN [memory |-> [i \in DOMAIN list.memory |->
                         IF i \in k..(list.size - 1) THEN list.memory[i + 1]
                         ELSE list.memory[i]],
           size |-> list.size - 1]

(* The posts that walk the list of type t of manager m. *)
Walking(m, t) == {i \in DOMAIN posts : posts[i].manager = m /\ posts[i].type = t}

(* A list that is walked is gone or has moved to other memory. *)
PulledAway(m, new) ==
  \E i \in DOMAIN posts :
    LET id == Id(eventTypes, posts[i].type) IN
    /\ posts[i].manager = m
    /\ \/ id \notin DOMAIN new
       \/ new[id] = Nobody
       \/ Len(new[id].memory) # Len(lists[m][id].memory)

-----------------------------------------------------------------------------
(* Calls, from outside or from the onEvent of the receiver being called. *)

MayCall == ~broken /\ (posts # <<>> => Last(posts).next > 1)

Use(m, misuse) ==
  /\ m \notin gone
  /\ used' = used \cup {m}
  /\ misused' = (misused \/ used' # {m} \/ misuse)

Enter(f, t) ==
  /\ eventTypes' = IF <<f, t>> \in cached THEN eventTypes ELSE WithType(eventTypes, t)
  /\ cached' = cached \cup {<<f, t>>}

(* registerEventType(name), which is static and public, gives a type an id *)
(* that no manager has a list for yet.                                     *)
RegisterName(t) ==
  /\ MayCall
  /\ ~Contains(eventTypes, t)
  /\ eventTypes' = Append(eventTypes, t)
  /\ misused' = TRUE
  /\ UNCHANGED <<cached, lists, events, live, posts, gone, broken, used, subscribed>>

(* registerEventType<T>(). *)
RegisterType(m, t) ==
  /\ MayCall
  /\ Use(m, FALSE)
  /\ eventTypes' = WithType(eventTypes, t)
  /\ lists' = [lists EXCEPT ![m] = WithList(@, Id(eventTypes', t))]
  /\ broken' = PulledAway(m, lists'[m])
  /\ UNCHANGED <<cached, events, live, posts, gone, subscribed>>

(* subscribe_: a receiver may be entered twice, and in several managers;   *)
(* its events_ names the last.  A table that has no list at the id is      *)
(* indexed all the same.                                                   *)
Subscribe(m, r) ==
  LET t == Kind[r]
      table == Entered(m, "subscribe", t)
      id == Id(eventTypes', t)
  IN /\ MayCall /\ r \in live
     /\ Use(m, Walking(m, t) # {} \/ \E o \in Managers : r \in subscribed[o])
     /\ Enter("subscribe", t)
     /\ IF HasList(table, eventTypes', t)
        THEN /\ table[id].size < MaxEntries
             /\ lists' = [lists EXCEPT ![m] = [table EXCEPT ![id] = Added(@, r)]]
             /\ broken' = PulledAway(m, lists'[m])
        ELSE broken' = TRUE /\ UNCHANGED lists
     /\ events' = [events EXCEPT ![r] = m]
     /\ subscribed' = [subscribed EXCEPT ![m] = @ \cup {r}]
     /\ UNCHANGED <<live, posts, gone>>

(* Receiver::unsubscribe, with its effect on the receivers that remain;    *)
(* nothing happens if the manager is gone.  The receiver's destructor      *)
(* calls it too.                                                           *)
Unsubscribe(r, remaining) ==
  LET m == events[r]
      t == Kind[r]
      table == Entered(m, "unsubscribe", t)
      id == Id(eventTypes', t)
  IN /\ MayCall /\ r \in live
     /\ live' = remaining
     /\ IF m = Nobody \/ m \in gone
        THEN UNCHANGED <<eventTypes, cached, lists, broken, used, subscribed, misused>>
        ELSE /\ Use(m, r \in subscribed[m] /\ Walking(m, t) # {})
             /\ Enter("unsubscribe", t)
             /\ IF HasList(table, eventTypes', t)
                THEN /\ lists' = [lists EXCEPT ![m] = [table EXCEPT ![id] = Erased(@, r)]]
                     /\ broken' = PulledAway(m, lists'[m])
                ELSE broken' = TRUE /\ UNCHANGED lists
             /\ subscribed' = [subscribed EXCEPT ![m] = @ \ {r}]
     /\ UNCHANGED <<events, posts, gone>>

DestroyReceiver(r) == Unsubscribe(r, live \ {r})

(* post up to the first receiver: the loop keeps the end it starts with. *)
Post(m, t) ==
  LET table == Entered(m, "post", t)
      id == Id(eventTypes', t)
  IN /\ MayCall /\ Len(posts) < MaxDepth
     /\ Use(m, FALSE)
     /\ Enter("post", t)
     /\ lists' = [lists EXCEPT ![m] = table]
     /\ broken' = (~HasList(table, eventTypes', t) \/ PulledAway(m, table))
     /\ posts' = IF broken' THEN posts
                 ELSE Append(posts, [manager |-> m, type |-> t, next |-> 1,
                                     end |-> table[id].size, got |-> <<>>])
     /\ UNCHANGED <<events, live, gone, subscribed>>

Walked(p) == lists[p.manager][Id(eventTypes, p.type)]

(* The innermost post calls the receiver its position points to now. *)
Deliver ==
  LET p == Last(posts)
      r == Walked(p).memory[p.next]
  IN /\ ~broken /\ posts # <<>> /\ p.next <= p.end
     /\ broken' = (r \notin live)
     /\ posts' = [posts EXCEPT ![Len(posts)].next = @ + 1, ![Len(posts)].got = Append(@, r)]
     /\ UNCHANGED <<eventTypes, cached, lists, events, live, gone, used, subscribed, misused>>

EndPost ==
  /\ ~broken /\ posts # <<>> /\ Last(posts).next > Last(posts).end
  /\ posts' = Front(posts)
  /\ UNCHANGED <<eventTypes, cached, lists, events, live, gone, broken, used, subscribed, misused>>

(* The manager ends with its world; its receivers find it gone. *)
DestroyEvents(m) ==
  /\ ~broken /\ posts = <<>> /\ m \in used \ gone
  /\ gone' = gone \cup {m}
  /\ lists' = [lists EXCEPT ![m] = <<>>]
  /\ subscribed' = [subscribed EXCEPT ![m] = {}]
  /\ UNCHANGED <<eventTypes, cached, events, live, posts, broken, used, misused>>

EventsNext ==
  \/ \E t \in Types : RegisterName(t)
  \/ \E m \in Managers, t \in Types : RegisterType(m, t) \/ Post(m, t)
  \/ \E m \in Managers, r \in Receivers : Subscribe(m, r)
  \/ \E r \in Receivers : Unsubscribe(r, live) \/ DestroyReceiver(r)
  \/ Deliver \/ EndPost
  \/ \E m \in Managers : DestroyEvents(m)

EventsSpec == EventsInit /\ [][EventsNext]_eventVars

-----------------------------------------------------------------------------
(* Properties. *)

(* Types of the variables; lists stay within their memory. *)
EventsTypeOK ==
  /\ ToSet(eventTypes) \subseteq Types /\ IsInjective(eventTypes)
  /\ \A m \in Managers : \A i \in DOMAIN lists[m] :
       lists[m][i] # Nobody =>
         /\ Entries(lists[m][i]) \in Seq(Receivers)
         /\ lists[m][i].size <= Len(lists[m][i].memory)
  /\ events \in [Receivers -> Managers \cup {Nobody}]
  /\ live \subseteq Receivers

(* As long as the process has used one manager only, no type was           *)
(* registered by its name, no receiver was subscribed twice and no list    *)
(* changed under a post that walks it, everything is defined, and each     *)
(* post calls each receiver subscribed to its type once and no other       *)
(* (EventManager::post, Receivers::onEvent).                               *)
EachReceiverOnce ==
  [][~misused' =>
       /\ ~broken'
       /\ Len(posts') < Len(posts) =>
            LET p == Last(posts)
                expected == {r \in subscribed[p.manager] : Kind[r] = p.type}
            IN ToSet(p.got) = expected /\ Len(p.got) = Cardinality(expected)]_eventVars

=============================================================================
