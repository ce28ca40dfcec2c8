--------------------------- MODULE EventLoopProofs ---------------------------
(***************************************************************************)
(* Theorems about EventLoop for every heap, every number of clients and    *)
(* frames, and every build, checked by TLAPS.                              *)
(*                                                                         *)
(* What a walk from a slot meets is a recursive function in EventLoop.     *)
(* Here it is the smallest set that is closed under next_, which serves as *)
(* well and needs no induction: what is to be shown of all pollers that a  *)
(* walk meets is shown of a closed set.                                    *)
(***************************************************************************)
EXTENDS EventLoop, TLAPS

Heap == [head_ : Chunk \cup {NULL}, node : [Chunk -> Poller], dead : BOOLEAN]

Closed(h, S) == \A c \in S : At(h, c) \in S \cup {NULL}

Reach(h, s) ==
  {c \in Chunk : \A S \in SUBSET Chunk : Closed(h, S) /\ At(h, s) \in S \cup {NULL} => c \in S}

List(h) == Reach(h, Head)

(* The list has no circle, and it ends. *)
Sane(h) ==
  /\ h \in Heap
  /\ \A c \in Chunk : c \notin Reach(h, c)
  /\ \E e \in {Head} \cup List(h) : At(h, e) = NULL

-----------------------------------------------------------------------------
(* Slots and what is reached from them *)

LEMMA Slots ==
  /\ NULL \notin Chunk /\ Head \notin Chunk /\ Head # NULL
  /\ Slot = Chunk \cup {Head}
  /\ 1 \in Chunk /\ 2 \in Chunk /\ 3 \in Chunk
BY EventLoopAssumption DEF NULL, Head, Chunk, Slot

LEMMA AtType ==
  ASSUME NEW h \in Heap, NEW s \in Slot
  PROVE  At(h, s) \in Chunk \cup {NULL}
BY Slots DEF At, Heap, Poller

LEMMA AtHead == \A h : At(h, Head) = h.head_
BY DEF At

LEMMA AtChunk == \A h : \A c \in Chunk : At(h, c) = h.node[c].next_
BY Slots DEF At

LEMMA ReachSmallest ==
  ASSUME NEW h, NEW s, NEW S \in SUBSET Chunk, Closed(h, S), At(h, s) \in S \cup {NULL}
  PROVE  Reach(h, s) \subseteq S
BY DEF Reach

LEMMA ReachClosed ==
  ASSUME NEW h \in Heap, NEW s \in Slot
  PROVE  /\ Reach(h, s) \subseteq Chunk
         /\ Closed(h, Reach(h, s))
         /\ At(h, s) \in Reach(h, s) \cup {NULL}
<1>1. Reach(h, s) \subseteq Chunk
  BY DEF Reach
<1>2. At(h, s) \in Reach(h, s) \cup {NULL}
  BY AtType, Slots DEF Reach
<1>3. ASSUME NEW c \in Reach(h, s) PROVE At(h, c) \in Reach(h, s) \cup {NULL}
  <2>1. c \in Chunk /\ At(h, c) \in Chunk \cup {NULL}
    BY <1>1, <1>3, AtType, Slots
  <2>2. SUFFICES ASSUME At(h, c) # NULL,
                        NEW S \in SUBSET Chunk, Closed(h, S), At(h, s) \in S \cup {NULL}
                 PROVE  At(h, c) \in S
    BY <2>1 DEF Reach
  <2>3. c \in S
    BY <1>3, <2>2 DEF Reach
  <2> QED BY <2>2, <2>3 DEF Closed
<1> QED BY <1>1, <1>2, <1>3 DEF Closed

(* From a slot that holds c: c, and all that is reached from it. *)
LEMMA ReachUnfold ==
  ASSUME NEW h \in Heap, NEW s \in Slot
  PROVE  Reach(h, s) = IF At(h, s) = NULL THEN {}
                       ELSE {At(h, s)} \cup Reach(h, At(h, s))
<1>1. CASE At(h, s) = NULL
  <2>1. Closed(h, {})
    BY DEF Closed
  <2> QED BY <1>1, <2>1, ReachSmallest
<1>2. CASE At(h, s) # NULL
  <2> DEFINE c == At(h, s)
             S == {c} \cup Reach(h, c)
  <2>1. c \in Chunk /\ c \in Slot
    BY <1>2, AtType, Slots
  <2>2. /\ Reach(h, c) \subseteq Chunk /\ Closed(h, Reach(h, c))
        /\ At(h, c) \in Reach(h, c) \cup {NULL}
    BY <2>1, ReachClosed
  <2>3. Closed(h, S) /\ S \in SUBSET Chunk
    BY <2>1, <2>2 DEF Closed
  <2>4. Reach(h, s) \subseteq S
    BY <2>3, ReachSmallest
  <2>5. Closed(h, Reach(h, s)) /\ c \in Reach(h, s) /\ Reach(h, s) \subseteq Chunk
    BY <1>2, ReachClosed
  <2>6. Reach(h, c) \subseteq Reach(h, s)
    <3>1. At(h, c) \in Reach(h, s) \cup {NULL}
      BY <2>5 DEF Closed
    <3> QED BY <2>5, <3>1, ReachSmallest
  <2> QED BY <1>2, <2>4, <2>5, <2>6
<1> QED BY <1>1, <1>2

LEMMA ReachWithin ==
  ASSUME NEW h \in Heap, NEW s \in Slot, NEW c \in Reach(h, s)
  PROVE  c \in Chunk /\ Reach(h, c) \subseteq Reach(h, s)
<1>1. Closed(h, Reach(h, s)) /\ Reach(h, s) \subseteq Chunk
  BY ReachClosed
<1>2. At(h, c) \in Reach(h, s) \cup {NULL}
  BY <1>1 DEF Closed
<1> QED BY <1>1, <1>2, ReachSmallest

(* What is reached depends on the links only. *)
LEMMA SameReach ==
  ASSUME NEW h, NEW g, \A s \in Slot : At(g, s) = At(h, s)
  PROVE  \A s \in Slot : Reach(g, s) = Reach(h, s)
<1>1. \A S \in SUBSET Chunk : Closed(g, S) <=> Closed(h, S)
  BY Slots DEF Closed
<1> QED BY <1>1 DEF Reach

LEMMA SameSane ==
  ASSUME NEW h, NEW g \in Heap, Sane(h), \A s \in Slot : At(g, s) = At(h, s)
  PROVE  Sane(g) /\ List(g) = List(h)
<1>1. \A s \in Slot : Reach(g, s) = Reach(h, s)
  BY SameReach
<1>2. List(g) = List(h) /\ \A c \in Chunk : Reach(g, c) = Reach(h, c)
  BY <1>1, Slots DEF List
<1>3. \A e \in {Head} \cup List(h) : e \in Slot
  BY Slots, ReachClosed DEF List, Sane
<1> QED BY <1>2, <1>3 DEF Sane

-----------------------------------------------------------------------------
(* The recursive functions *)

(* What no slot of the list may do that it does only if the next one does, *)
(* none does.                                                              *)
LEMMA NoBadSlot ==
  ASSUME NEW h, Sane(h), NEW Bad \in SUBSET Slot,
         \A s \in Bad : At(h, s) # NULL /\ At(h, s) \in Bad
  PROVE  Head \notin Bad
<1> SUFFICES ASSUME Head \in Bad PROVE FALSE
  OBVIOUS
<1>1. h \in Heap
  BY DEF Sane
<1> DEFINE S == Bad \cap Chunk
<1>2. Closed(h, S) /\ At(h, Head) \in S
  <2>1. \A s \in Bad : At(h, s) \in S
    BY <1>1, AtType, Slots
  <2> QED BY <2>1 DEF Closed
<1>3. List(h) \subseteq S
  BY <1>2, ReachSmallest DEF List
<1> QED BY <1>3 DEF Sane

(* OnList is what is reached from head_. *)
LEMMA OnListIs ==
  ASSUME NEW h, Sane(h)
  PROVE  OnList(h) = List(h)
<1>1. h \in Heap
  BY DEF Sane
<1> DEFINE Eq(w) == w = [s \in Slot |-> IF At(h, s) = NULL THEN {}
                                        ELSE {At(h, s)} \cup w[At(h, s)]]
           walk == CHOOSE w : Eq(w)
<1>2. OnList(h) = walk[Head]
  BY DEF OnList
<1>3. Eq(walk)
  <2> DEFINE W == [s \in Slot |-> Reach(h, s)]
  <2>1. \A s \in Slot : W[s] = IF At(h, s) = NULL THEN {} ELSE {At(h, s)} \cup W[At(h, s)]
    <3>1. \A s \in Slot : At(h, s) = NULL \/ At(h, s) \in Slot
      BY <1>1, AtType, Slots
    <3> QED BY <1>1, <3>1, ReachUnfold
  <2>2. Eq(W)
    BY <2>1
  <2> HIDE DEF W, Eq
  <2> QED BY <2>2
<1> HIDE DEF walk
<1> DEFINE Bad == {s \in Slot : walk[s] # Reach(h, s)}
<1>4. \A s \in Slot : walk[s] = IF At(h, s) = NULL THEN {} ELSE {At(h, s)} \cup walk[At(h, s)]
  BY <1>3
<1>5. ASSUME NEW s \in Bad PROVE At(h, s) # NULL /\ At(h, s) \in Bad
  <2>1. At(h, s) = NULL \/ At(h, s) \in Slot
    BY <1>1, AtType, Slots
  <2>2. Reach(h, s) = IF At(h, s) = NULL THEN {} ELSE {At(h, s)} \cup Reach(h, At(h, s))
    BY <1>1, ReachUnfold
  <2> QED BY <1>4, <2>1, <2>2
<1>6. Head \notin Bad
  BY <1>5, NoBadSlot
<1> QED BY <1>2, <1>6, Slots DEF List

Halts(h, fd, s) == At(h, s) = NULL \/ h.node[At(h, s)].fd_ = fd

(* FindSlot ends in a slot of the list that holds NULL or a poller of fd,  *)
(* and holds NULL only when the list has no poller of fd.                  *)
LEMMA FindSlotIs ==
  ASSUME NEW h, NEW fd, Sane(h)
  PROVE  LET s == FindSlot(h, fd)
         IN  /\ s \in {Head} \cup List(h)
             /\ Halts(h, fd, s)
             /\ At(h, s) = NULL => \A c \in List(h) : h.node[c].fd_ # fd
<1>1. h \in Heap
  BY DEF Sane
<1> DEFINE Eq(w) == w = [s \in Slot |-> LET c == At(h, s)
                                        IN  IF c = NULL \/ h.node[c].fd_ = fd THEN s ELSE w[c]]
           walk == CHOOSE w : Eq(w)
<1>2. FindSlot(h, fd) = walk[Head]
  BY DEF FindSlot
<1>0. \A s \in Slot : At(h, s) = NULL \/ At(h, s) \in Slot
  BY <1>1, AtType, Slots
<1>3. Eq(walk)
  <2> DEFINE All(s) == {t \in {s} \cup Reach(h, s) : Halts(h, fd, t)}
             First(s, t) == t \in All(s) /\ All(s) \subseteq {t} \cup Reach(h, t)
             W == [s \in Slot |-> CHOOSE t \in All(s) : All(s) \subseteq {t} \cup Reach(h, t)]
  <2>1. ASSUME NEW s \in Slot
        PROVE  W[s] = IF Halts(h, fd, s) THEN s ELSE W[At(h, s)]
    <3>1. CASE Halts(h, fd, s)
      <4>1. s \in All(s) /\ All(s) \subseteq {s} \cup Reach(h, s)
        BY <3>1
      <4>2. ASSUME NEW t \in All(s), All(s) \subseteq {t} \cup Reach(h, t) PROVE t = s
        <5>1. SUFFICES ASSUME t # s PROVE FALSE
          OBVIOUS
        <5>2. t \in Reach(h, s) /\ s \in Reach(h, t)
          BY <4>1, <4>2, <5>1
        <5>3. t \in Chunk /\ Reach(h, t) \subseteq Reach(h, s)
          BY <1>1, <5>2, ReachWithin
        <5>4. s \in Chunk
          BY <1>1, <5>2, <5>3, ReachClosed, Slots
        <5> QED BY <5>2, <5>3, <5>4 DEF Sane
      <4>3. W[s] = CHOOSE t \in All(s) : All(s) \subseteq {t} \cup Reach(h, t)
        OBVIOUS
      <4> HIDE DEF W, All
      <4> QED BY <3>1, <4>1, <4>2, <4>3
    <3>2. CASE ~Halts(h, fd, s)
      <4>1. At(h, s) \in Slot /\ Reach(h, s) = {At(h, s)} \cup Reach(h, At(h, s))
        BY <1>0, <1>1, <3>2, ReachUnfold DEF Halts
      <4>2. All(s) = All(At(h, s))
        BY <3>2, <4>1
      <4> HIDE DEF All
      <4> QED BY <3>2, <4>1, <4>2
    <3> QED BY <3>1, <3>2
  <2> HIDE DEF W
  <2>2. W = [s \in Slot |-> W[s]]
    BY DEF W
  <2>3. W = [s \in Slot |-> IF Halts(h, fd, s) THEN s ELSE W[At(h, s)]]
    BY <2>1, <2>2
  <2>4. Eq(W)
    BY <2>3 DEF Halts
  <2> HIDE DEF Eq
  <2> QED BY <2>4
<1> HIDE DEF walk
<1>4. \A s \in Slot : walk[s] = IF Halts(h, fd, s) THEN s ELSE walk[At(h, s)]
  BY <1>3 DEF Halts
<1> DEFINE Good(s) == /\ walk[s] \in {s} \cup Reach(h, s)
                      /\ Halts(h, fd, walk[s])
                      /\ At(h, walk[s]) = NULL => \A c \in Reach(h, s) : h.node[c].fd_ # fd
           Bad == {s \in Slot : ~Good(s)}
<1>5. ASSUME NEW s \in Bad PROVE At(h, s) # NULL /\ At(h, s) \in Bad
  <2>1. Reach(h, s) = IF At(h, s) = NULL THEN {} ELSE {At(h, s)} \cup Reach(h, At(h, s))
    BY <1>1, ReachUnfold
  <2>2. CASE Halts(h, fd, s)
    BY <1>4, <2>1, <2>2
  <2>3. CASE ~Halts(h, fd, s)
    <3>1. At(h, s) # NULL /\ h.node[At(h, s)].fd_ # fd
      BY <2>3 DEF Halts
    <3>2. walk[s] = walk[At(h, s)] /\ At(h, s) \in Slot
      BY <1>0, <1>4, <2>3, <3>1
    <3> QED BY <2>1, <3>1, <3>2
  <2> QED BY <2>2, <2>3
<1>6. Good(Head)
  <2>1. Head \notin Bad
    BY <1>5, NoBadSlot
  <2> QED BY <2>1, Slots
<1> QED BY <1>2, <1>6 DEF List

-----------------------------------------------------------------------------
(* Appending a poller *)

LEMMA AppendLinks ==
  ASSUME NEW h \in Heap, NEW s \in Slot, NEW n \in Chunk, s # n, NEW fd \in Fd,
         NEW fn \in {READABLE, WRITEABLE}
  PROVE  LET g == Append(h, s, n, fd, fn)
         IN  /\ g \in Heap /\ g.dead = h.dead
             /\ \A t \in Slot : At(g, t) = IF t = s THEN n ELSE IF t = n THEN NULL ELSE At(h, t)
             /\ g.node[n].fd_ = fd /\ g.node[n].sel_fn_ = {fn} /\ g.node[n].state = "live"
             /\ \A c \in Chunk \ {n} : /\ g.node[c].fd_ = h.node[c].fd_
                                       /\ g.node[c].sel_fn_ = h.node[c].sel_fn_
                                       /\ g.node[c].state = h.node[c].state
<1>1. CASE s = Head
  BY <1>1, Slots DEF Append, Store, At, Heap, Poller
<1>2. CASE s # Head
  <2> DEFINE new == [fd_ |-> fd, sel_fn_ |-> {fn}, next_ |-> NULL, state |-> "live"]
             g == Append(h, s, n, fd, fn)
             m == [h.node EXCEPT ![s].next_ = n]
  <2>1. s \in Chunk /\ h.node \in [Chunk -> Poller] /\ new \in Poller
    BY <1>2, Slots DEF Heap, Poller
  <2>2. /\ g.head_ = h.head_ /\ g.dead = h.dead /\ g.node = [m EXCEPT ![n] = new]
        /\ g = [head_ |-> g.head_, node |-> g.node, dead |-> g.dead]
    BY <1>2, <2>1 DEF Append, Store, Heap
  <2>3. m \in [Chunk -> Poller] /\ m[s].next_ = n
    BY <2>1 DEF Poller
  <2>4. \A c \in Chunk : /\ c # s => m[c] = h.node[c]
                         /\ m[c].fd_ = h.node[c].fd_ /\ m[c].sel_fn_ = h.node[c].sel_fn_
                         /\ m[c].state = h.node[c].state
    BY <2>1 DEF Poller
  <2> HIDE DEF m, g
  <2>5. g.node \in [Chunk -> Poller] /\ g.node[n] = new /\ \A c \in Chunk \ {n} : g.node[c] = m[c]
    BY <2>1, <2>2, <2>3
  <2>6. g \in Heap
    BY <2>2, <2>5 DEF Heap
  <2>7. \A t \in Slot : At(g, t) = IF t = s THEN n ELSE IF t = n THEN NULL ELSE At(h, t)
    BY <1>2, <2>1, <2>2, <2>3, <2>4, <2>5, Slots DEF At
  <2> QED BY <2>2, <2>4, <2>5, <2>6, <2>7 DEF g
<1> QED BY <1>1, <1>2

(* The list grows by the chunk, or ends with it when the chunk was one of  *)
(* its freed pollers; no walk from any slot meets anything else.           *)
LEMMA AppendReach ==
  ASSUME NEW h, Sane(h), NEW s \in {Head} \cup List(h), At(h, s) = NULL,
         NEW n \in Chunk, s # n, NEW g \in Heap,
         \A t \in Slot : At(g, t) = IF t = s THEN n ELSE IF t = n THEN NULL ELSE At(h, t)
  PROVE  /\ Sane(g)
         /\ \A t \in Slot : Reach(g, t) \subseteq Reach(h, t) \cup {n}
         /\ Reach(g, n) = {}
         /\ n \in List(g)
<1>1. h \in Heap /\ s \in Slot /\ n \in Slot /\ Head \in Slot /\ n # Head
  BY Slots, ReachClosed DEF Sane, List
<1>2. ASSUME NEW t \in Slot PROVE Reach(g, t) \subseteq Reach(h, t) \cup {n}
  <2> DEFINE S == Reach(h, t) \cup {n}
  <2>1. /\ Reach(h, t) \subseteq Chunk /\ Closed(h, Reach(h, t))
        /\ At(h, t) \in Reach(h, t) \cup {NULL}
    BY <1>1, ReachClosed
  <2>2. Closed(g, S)
    BY <2>1, Slots DEF Closed
  <2>3. At(g, t) \in S \cup {NULL}
    BY <2>1
  <2> QED BY <2>1, <2>2, <2>3, ReachSmallest
<1>3. At(g, n) = NULL
  BY <1>1
<1>4. Reach(g, n) = {}
  BY <1>1, <1>3, ReachUnfold
<1>5. \A c \in Chunk : c \notin Reach(g, c)
  BY <1>2, <1>4, Slots DEF Sane
<1>6. n \in List(g)
  <2>1. SUFFICES ASSUME NEW S \in SUBSET Chunk, Closed(g, S), At(g, Head) \in S \cup {NULL},
                        n \notin S
                 PROVE  FALSE
    BY DEF List, Reach
  <2>2. s \notin S
    BY <1>1, <2>1, Slots DEF Closed
  <2>3. Closed(h, S)
    BY <1>1, <2>1, <2>2, Slots DEF Closed
  <2>4. s # Head /\ At(h, Head) \in S \cup {NULL}
    BY <1>1, <2>1, Slots
  <2>5. List(h) \subseteq S
    BY <2>1, <2>3, <2>4, ReachSmallest DEF List
  <2> QED BY <2>2, <2>4, <2>5
<1> QED BY <1>2, <1>3, <1>4, <1>5, <1>6 DEF Sane

-----------------------------------------------------------------------------
(* What holds of every heap the main thread makes *)

(* A chunk that is not a poller is inert; the camera's poller is chunk 2,  *)
(* which nobody changes; only a connection is written to.                  *)
NodeOK(p, c) ==
  /\ p.state # "live" => p.fd_ = NoFd /\ p.sel_fn_ = {}
  /\ p.state = "live" => p.fd_ \in Fd
  /\ WRITEABLE \in p.sel_fn_ => p.fd_ = Conn
  /\ p.fd_ = Channel <=> c = 2
  /\ c = 2 => p.sel_fn_ = {READABLE}

Nodes(h) == \A c \in Chunk : NodeOK(h.node[c], c)

Single(h) ==
  \A c, d \in List(h) :
    /\ h.node[c].state = "live" /\ h.node[d].state = "live"
    /\ h.node[c].fd_ = h.node[d].fd_
    => c = d

(* The camera's poller is only ever met behind chunk 1, the first of the   *)
(* list, and no longer once chunk 1 has been used again.                   *)
CameraLinked(h) ==
  /\ h.head_ = 1
  /\ \A c \in Chunk : At(h, c) = 2 => c = 1
  /\ At(h, 1) = 2 => h.node[1].fd_ # Conn

HeapOK(h) == Sane(h) /\ Nodes(h) /\ Single(h) /\ CameraLinked(h)

(* One poller other than the camera's asks to read: it is on the list, and *)
(* its descriptor is fd.                                                   *)
Reader(h, k, fd) ==
  /\ k \in List(h) /\ h.node[k].fd_ = fd
  /\ \A c \in Chunk \ {2} : READABLE \in h.node[c].sel_fn_ <=> c = k

Alike(h, g) ==
  /\ g \in Heap
  /\ \A t \in Slot : At(g, t) = At(h, t)
  /\ \A c \in Chunk : g.node[c].state = "live" =>
                        h.node[c].state = "live" /\ g.node[c].fd_ = h.node[c].fd_

LEMMA AlikeOK ==
  ASSUME NEW h, HeapOK(h), NEW g, Alike(h, g), Nodes(g)
  PROVE  HeapOK(g) /\ List(g) = List(h) /\ \A t \in Slot : Reach(g, t) = Reach(h, t)
<1>1. Sane(g) /\ List(g) = List(h) /\ \A t \in Slot : Reach(g, t) = Reach(h, t)
  BY SameSane, SameReach DEF HeapOK, Alike
<1>2. List(h) \subseteq Chunk
  BY Slots, ReachClosed DEF List, Sane, HeapOK
<1>3. Single(g)
  BY <1>1, <1>2 DEF Single, HeapOK, Alike
<1>4. CameraLinked(g)
  <2>1. g.head_ = 1 /\ \A c \in Chunk : At(g, c) = 2 => c = 1
    BY AtHead, Slots DEF CameraLinked, HeapOK, Alike
  <2>2. ASSUME At(g, 1) = 2 PROVE g.node[1].fd_ # Conn
    <3>1. At(h, 1) = 2 /\ h.node[1].fd_ # Conn
      BY <2>2, Slots DEF CameraLinked, HeapOK, Alike
    <3>2. CASE g.node[1].state = "live"
      BY <3>1, <3>2, Slots DEF Alike
    <3>3. CASE g.node[1].state # "live"
      BY <3>3, Slots DEF Nodes, NodeOK, Conn, NoFd
    <3> QED BY <3>2, <3>3
  <2> QED BY <2>1, <2>2 DEF CameraLinked
<1> QED BY <1>1, <1>3, <1>4 DEF HeapOK

(* Another sel_fn_ for a poller. *)
Refitted(h, g, k, fns) ==
  /\ Alike(h, g)
  /\ g.dead = h.dead /\ g.node[k].sel_fn_ = fns
  /\ \A c \in Chunk : /\ g.node[c].fd_ = h.node[c].fd_ /\ g.node[c].state = h.node[c].state
                      /\ c # k => g.node[c].sel_fn_ = h.node[c].sel_fn_

LEMMA RefitIs ==
  ASSUME NEW h \in Heap, NEW k \in Chunk, NEW fns \in SUBSET {READABLE, WRITEABLE}
  PROVE  Refitted(h, [h EXCEPT !.node[k].sel_fn_ = fns], k, fns)
<1> DEFINE g == [h EXCEPT !.node[k].sel_fn_ = fns]
<1>1. /\ h.node \in [Chunk -> Poller] /\ g.head_ = h.head_ /\ g.dead = h.dead
      /\ g.node = [h.node EXCEPT ![k].sel_fn_ = fns]
      /\ g = [head_ |-> g.head_, node |-> g.node, dead |-> g.dead]
      /\ g.head_ \in Chunk \cup {NULL} /\ g.dead \in BOOLEAN
  BY DEF Heap
<1> HIDE DEF g
<1>2. /\ g.node \in [Chunk -> Poller] /\ g.node[k].sel_fn_ = fns
      /\ \A c \in Chunk : /\ g.node[c].fd_ = h.node[c].fd_ /\ g.node[c].state = h.node[c].state
                          /\ g.node[c].next_ = h.node[c].next_
                          /\ c # k => g.node[c].sel_fn_ = h.node[c].sel_fn_
  BY <1>1 DEF Poller
<1>3. g \in Heap
  BY <1>1, <1>2 DEF Heap
<1>4. \A t \in Slot : At(g, t) = At(h, t)
  BY <1>1, <1>2, Slots DEF At
<1>5. Refitted(h, g, k, fns)
  BY <1>1, <1>2, <1>3, <1>4 DEF Refitted, Alike
<1> QED BY <1>5 DEF g

LEMMA RefitOK ==
  ASSUME NEW h, HeapOK(h), NEW g, NEW k \in Chunk \ {2}, NEW fns,
         Refitted(h, g, k, fns), h.node[k].state = "live",
         WRITEABLE \in fns => h.node[k].fd_ = Conn
  PROVE  HeapOK(g) /\ List(g) = List(h) /\ \A t \in Slot : Reach(g, t) = Reach(h, t)
<1>1. Nodes(g)
  BY DEF HeapOK, Nodes, NodeOK, Refitted
<1> QED BY <1>1, AlikeOK DEF Refitted

LEMMA DeadIs ==
  ASSUME NEW h, HeapOK(h)
  PROVE  /\ Dead(h).dead /\ Dead(h).node = h.node /\ Dead(h).head_ = h.head_
         /\ HeapOK(Dead(h)) /\ List(Dead(h)) = List(h)
         /\ \A t \in Slot : /\ At(Dead(h), t) = At(h, t)
                            /\ Reach(Dead(h), t) = Reach(h, t)
<1>1. h \in Heap
  BY DEF HeapOK, Sane
<1>2. /\ Dead(h).dead /\ Dead(h).node = h.node /\ Dead(h).head_ = h.head_
      /\ Dead(h) \in Heap
  BY <1>1 DEF Dead, Heap
<1>3. \A t \in Slot : At(Dead(h), t) = At(h, t)
  BY <1>2 DEF At
<1>4. Alike(h, Dead(h)) /\ Nodes(Dead(h))
  BY <1>2, <1>3 DEF Alike, Nodes, HeapOK
<1> QED BY <1>2, <1>3, <1>4, AlikeOK

LEMMA MallocIs ==
  ASSUME NEW h, NEW n \in Malloc(h)
  PROVE  n \in Chunk /\ h.node[n].state # "live"
BY DEF Malloc

Appended(h, g, s, n, fd, fn) ==
  /\ s \in {Head} \cup List(h) /\ At(h, s) = NULL
  /\ n \in Chunk /\ n # s /\ h.node[n].state # "live"
  /\ \A c \in List(h) : h.node[c].fd_ # fd
  /\ g \in Heap /\ g.dead = h.dead
  /\ \A t \in Slot : At(g, t) = IF t = s THEN n ELSE IF t = n THEN NULL ELSE At(h, t)
  /\ g.node[n].fd_ = fd /\ g.node[n].sel_fn_ = {fn} /\ g.node[n].state = "live"
  /\ \A c \in Chunk \ {n} : /\ g.node[c].fd_ = h.node[c].fd_
                            /\ g.node[c].sel_fn_ = h.node[c].sel_fn_
                            /\ g.node[c].state = h.node[c].state

LEMMA AppendOK ==
  ASSUME NEW h, HeapOK(h), NEW g, NEW s, NEW n, NEW fd \in {Listen, Conn},
         NEW fn \in {READABLE, WRITEABLE}, fn = WRITEABLE => fd = Conn,
         Appended(h, g, s, n, fd, fn)
  PROVE  /\ HeapOK(g) /\ n # 2 /\ n \in List(g)
         /\ \A t \in Slot : Reach(g, t) \subseteq Reach(h, t) \cup {n}
<1>1. /\ Sane(g) /\ Reach(g, n) = {} /\ n \in List(g)
      /\ \A t \in Slot : Reach(g, t) \subseteq Reach(h, t) \cup {n}
  BY AppendReach DEF HeapOK, Appended
<1>2. h.node[2].fd_ = Channel /\ h.node[2].state = "live" /\ n # 2
  BY Slots DEF HeapOK, Nodes, NodeOK, Appended, Channel, NoFd
<1>3. Nodes(g)
  <2>1. ASSUME NEW c \in Chunk PROVE NodeOK(g.node[c], c)
    <3>1. CASE c = n
      BY <1>2, <3>1
         DEF NodeOK, Appended, Fd, Listen, Channel, Conn, READABLE, WRITEABLE
    <3>2. CASE c # n
      BY <3>2 DEF NodeOK, Appended, HeapOK, Nodes
    <3> QED BY <3>1, <3>2
  <2> QED BY <2>1 DEF Nodes
<1>4. List(g) \subseteq List(h) \cup {n} /\ List(h) \subseteq Chunk
  BY <1>1, Slots, ReachClosed DEF List, HeapOK, Sane
<1>5. Single(g)
  BY <1>4 DEF Single, HeapOK, Appended
<1>6. CameraLinked(g)
  <2>1. h.head_ = 1 /\ At(h, Head) = 1 /\ 1 # NULL /\ 2 # NULL
    BY AtHead, Slots DEF HeapOK, CameraLinked
  <2>2. s # Head /\ Head # n /\ s \in Chunk
    BY <2>1, <1>4, Slots DEF Appended
  <2>3. At(g, Head) = 1 /\ g.head_ = 1
    BY <2>1, <2>2, AtHead, Slots DEF Appended
  <2>4. \A c \in Chunk : At(g, c) = 2 => c # s /\ c # n /\ At(h, c) = 2
    BY <1>2, <2>1, Slots DEF Appended
  <2> QED BY <2>3, <2>4, Slots DEF CameraLinked, HeapOK, Appended
<1> QED BY <1>1, <1>2, <1>3, <1>5, <1>6 DEF HeapOK

-----------------------------------------------------------------------------
(* The operations on the list *)

(* No walk comes to meet the camera's poller, and what a slot holds        *)
(* changes only at the end of the list or to the end of the list.          *)
Trims(h, g) ==
  \A t \in Slot : /\ 2 \in Reach(g, t) => 2 \in Reach(h, t)
                  /\ At(g, t) = At(h, t) \/ At(h, t) = NULL \/ At(g, t) = NULL

(* c, the poller of fd, asks for fn as well. *)
Added(h, g, c, fd, fn) ==
  /\ g.dead = h.dead
  /\ c \in List(g) /\ List(g) \subseteq List(h) \cup {c} /\ c # 2
  /\ h.node[c].state = "live" => h.node[c].fd_ = fd
  /\ g.node[c].fd_ = fd /\ g.node[c].sel_fn_ = h.node[c].sel_fn_ \cup {fn}
  /\ \A d \in Chunk \ {c} : /\ g.node[d].fd_ = h.node[d].fd_
                            /\ g.node[d].sel_fn_ = h.node[d].sel_fn_

LEMMA AddOutcomes ==
  ASSUME NEW h, HeapOK(h), NEW fd \in {Listen, Conn}, NEW fn \in {READABLE, WRITEABLE},
         NEW g \in selecter_add(h, fd, fn)
  PROVE  \/ \E c \in List(h) : /\ h.node[c].fd_ = fd
                               /\ Refitted(h, g, c, h.node[c].sel_fn_ \cup {fn})
         \/ /\ g = Dead(h) /\ \E n \in Malloc(h) : n \in List(h)
            /\ \A c \in List(h) : h.node[c].fd_ # fd
         \/ \E s, n : n \in Malloc(h) /\ Appended(h, g, s, n, fd, fn)
<1> DEFINE s == FindSlot(h, fd)
           c == At(h, s)
<1>1. h \in Heap /\ Sane(h) /\ List(h) \subseteq Chunk
  BY Slots, ReachClosed DEF HeapOK, Sane, List
<1>2. /\ s \in {Head} \cup List(h) /\ Halts(h, fd, s)
      /\ c = NULL => \A d \in List(h) : h.node[d].fd_ # fd
  BY <1>1, FindSlotIs
<1>3. g \in IF c = NULL THEN {Append(h, s, new, fd, fn) : new \in Malloc(h)}
            ELSE {[h EXCEPT !.node[c].sel_fn_ = @ \cup {fn}]}
  BY DEF selecter_add
<1> HIDE DEF s
<1>4. s \in Slot
  BY <1>1, <1>2, Slots
<1>5. CASE c # NULL
  <2>1. c \in List(h) /\ c \in Chunk /\ h.node[c].fd_ = fd
    <3>1. c \in List(h)
      <4>1. c \in Reach(h, s) /\ (s # Head => Reach(h, s) \subseteq List(h))
        BY <1>1, <1>2, <1>4, <1>5, ReachClosed, ReachWithin, Slots DEF List
      <4> QED BY <4>1 DEF List
    <3> QED BY <1>1, <1>2, <1>5, <3>1 DEF Halts
  <2>2. h.node[c].sel_fn_ \cup {fn} \in SUBSET {READABLE, WRITEABLE}
    BY <1>1, <2>1 DEF Heap, Poller
  <2>3. g = [h EXCEPT !.node[c].sel_fn_ = h.node[c].sel_fn_ \cup {fn}]
    BY <1>3, <1>5
  <2> HIDE DEF c
  <2>4. Refitted(h, g, c, h.node[c].sel_fn_ \cup {fn})
    BY <1>1, <2>1, <2>2, <2>3, RefitIs
  <2> QED BY <2>1, <2>4
<1>6. CASE c = NULL
  <2>1. PICK n \in Malloc(h) : g = Append(h, s, n, fd, fn)
    BY <1>3, <1>6
  <2>2. n \in Chunk /\ h.node[n].state # "live" /\ fd \in Fd
    BY MallocIs DEF Fd
  <2>3. CASE s = n
    <3>1. n \in List(h)
      BY <1>2, <2>2, <2>3, Slots
    <3> QED BY <1>2, <1>6, <2>1, <2>3, <3>1 DEF Append
  <2>4. CASE s # n
    <3>1. Appended(h, g, s, n, fd, fn)
      BY <1>1, <1>2, <1>4, <1>6, <2>1, <2>2, <2>4, AppendLinks DEF Appended
    <3> QED BY <3>1
  <2> QED BY <2>3, <2>4
<1> QED BY <1>5, <1>6

(* Asking keeps the heap in order: the poller of the descriptor, an old    *)
(* one or a new one, then asks; or the process is lost.                    *)
LEMMA AddOK ==
  ASSUME NEW h, HeapOK(h), NEW fd \in {Listen, Conn}, NEW fn \in {READABLE, WRITEABLE},
         fn = WRITEABLE => fd = Conn,
         NEW g \in selecter_add(h, fd, fn)
  PROVE  /\ HeapOK(g) /\ Trims(h, g)
         /\ g = Dead(h) \/ \E c \in Chunk : Added(h, g, c, fd, fn)
<1>1. h \in Heap /\ Sane(h) /\ List(h) \subseteq Chunk /\ Nodes(h)
  BY Slots, ReachClosed DEF HeapOK, Sane, List
<1>2. CASE g = Dead(h)
  BY <1>2, DeadIs DEF Trims
<1>3. ASSUME NEW c \in List(h), h.node[c].fd_ = fd,
             Refitted(h, g, c, h.node[c].sel_fn_ \cup {fn})
      PROVE  HeapOK(g) /\ Trims(h, g) /\ \E d \in Chunk : Added(h, g, d, fd, fn)
  <2>1. c \in Chunk \ {2} /\ h.node[c].state = "live"
    BY <1>1, <1>3 DEF Nodes, NodeOK, NoFd, Listen, Conn, Channel
  <2>2. WRITEABLE \in h.node[c].sel_fn_ \cup {fn} => h.node[c].fd_ = Conn
    BY <1>1, <1>3, <2>1 DEF Nodes, NodeOK
  <2>3. HeapOK(g) /\ List(g) = List(h) /\ \A t \in Slot : Reach(g, t) = Reach(h, t)
    BY <1>3, <2>1, <2>2, RefitOK
  <2>4. Trims(h, g)
    BY <1>3, <2>3 DEF Trims, Refitted, Alike
  <2>5. Added(h, g, c, fd, fn)
    BY <1>3, <2>1, <2>3 DEF Added, Refitted
  <2> QED BY <2>1, <2>3, <2>4, <2>5
<1>4. ASSUME NEW s, NEW n \in Malloc(h), Appended(h, g, s, n, fd, fn)
      PROVE  HeapOK(g) /\ Trims(h, g) /\ \E d \in Chunk : Added(h, g, d, fd, fn)
  <2>1. /\ HeapOK(g) /\ n # 2 /\ n \in List(g)
        /\ \A t \in Slot : Reach(g, t) \subseteq Reach(h, t) \cup {n}
    BY <1>4, AppendOK
  <2>2. n \in Chunk /\ h.node[n].sel_fn_ = {}
    BY <1>1, MallocIs DEF Nodes, NodeOK
  <2>3. Trims(h, g)
    BY <1>4, <2>1 DEF Trims, Appended
  <2>4. List(g) \subseteq List(h) \cup {n}
    BY <2>1, Slots DEF List
  <2>5. Added(h, g, n, fd, fn)
    BY <1>4, <2>1, <2>2, <2>4 DEF Added, Appended
  <2> QED BY <2>1, <2>2, <2>3, <2>5
<1> QED BY <1>2, <1>3, <1>4, AddOutcomes

(* selecter_remove of the one poller that reads leaves no reader. *)
LEMMA RemoveOK ==
  ASSUME NEW h, HeapOK(h), NEW k, NEW fd \in {Listen, Conn}, Reader(h, k, fd)
  PROVE  LET g == selecter_remove(h, fd, READABLE)
         IN  /\ HeapOK(g) /\ Trims(h, g) /\ List(g) = List(h)
             /\ Refitted(h, g, k, h.node[k].sel_fn_ \ {READABLE})
<1> DEFINE s == FindSlot(h, fd)
           c == At(h, s)
           g == selecter_remove(h, fd, READABLE)
<1>1. h \in Heap /\ Sane(h) /\ List(h) \subseteq Chunk /\ Nodes(h)
  BY Slots, ReachClosed DEF HeapOK, Sane, List
<1>2. /\ s \in {Head} \cup List(h) /\ Halts(h, fd, s)
      /\ c = NULL => \A d \in List(h) : h.node[d].fd_ # fd
  BY <1>1, FindSlotIs
<1>3. k \in List(h) /\ k \in Chunk \ {2} /\ h.node[k].fd_ = fd
  BY <1>1 DEF Reader, Nodes, NodeOK, Listen, Conn, Channel
<1>4. g = IF c = NULL THEN h ELSE [h EXCEPT !.node[c].sel_fn_ = @ \ {READABLE}]
  BY DEF selecter_remove
<1> HIDE DEF s, g
<1>5. c # NULL /\ h.node[c].fd_ = fd
  BY <1>2, <1>3 DEF Halts
<1>6. c \in List(h)
  <2>1. s \in Slot /\ c \in Reach(h, s) /\ (s # Head => Reach(h, s) \subseteq List(h))
    BY <1>1, <1>2, <1>5, ReachClosed, ReachWithin, Slots DEF List
  <2> QED BY <2>1 DEF List
<1>7. h.node[k].state = "live" /\ h.node[c].state = "live"
  BY <1>1, <1>3, <1>5, <1>6 DEF Nodes, NodeOK, NoFd, Listen, Conn
<1>8. c = k
  BY <1>3, <1>5, <1>6, <1>7 DEF HeapOK, Single
<1>9. g = [h EXCEPT !.node[k].sel_fn_ = h.node[k].sel_fn_ \ {READABLE}]
  BY <1>4, <1>5, <1>8
<1>10. h.node[k].sel_fn_ \ {READABLE} \in SUBSET {READABLE, WRITEABLE}
  BY <1>1, <1>3 DEF Heap, Poller
<1>11. Refitted(h, g, k, h.node[k].sel_fn_ \ {READABLE})
  BY <1>1, <1>3, <1>9, <1>10, RefitIs
<1>12. WRITEABLE \in h.node[k].sel_fn_ \ {READABLE} => h.node[k].fd_ = Conn
  BY <1>1, <1>3 DEF Nodes, NodeOK
<1>13. HeapOK(g) /\ List(g) = List(h) /\ \A t \in Slot : Reach(g, t) = Reach(h, t)
  BY <1>3, <1>7, <1>11, <1>12, RefitOK
<1>14. Trims(h, g)
  BY <1>11, <1>13 DEF Trims, Refitted, Alike
<1> QED BY <1>11, <1>13, <1>14 DEF g

(* A callback's return value takes fn from the poller the cursor shows, or *)
(* the process is lost when the cursor shows none any more.                *)
LEMMA ToggleOK ==
  ASSUME NEW h, HeapOK(h), sel \in Slot, NEW k \in Chunk \ {2}, NEW fn \in h.node[k].sel_fn_,
         At(h, sel) \in {k, NULL}
  PROVE  LET g == Toggle(h, fn, 1)
         IN  /\ HeapOK(g) /\ Trims(h, g) /\ List(g) = List(h)
             /\ \A t \in Slot : At(g, t) = At(h, t)
             /\ IF At(h, sel) = NULL THEN g = Dead(h)
                ELSE Refitted(h, g, k, h.node[k].sel_fn_ \ {fn})
<1> DEFINE g == Toggle(h, fn, 1)
<1>1. CASE At(h, sel) = NULL
  <2>1. g = Dead(h)
    BY <1>1 DEF Toggle
  <2> HIDE DEF g
  <2>2. HeapOK(g) /\ Trims(h, g) /\ List(g) = List(h) /\ \A t \in Slot : At(g, t) = At(h, t)
    BY <2>1, DeadIs DEF Trims
  <2> QED BY <1>1, <2>1, <2>2 DEF g
<1>2. CASE At(h, sel) # NULL
  <2>0. h \in Heap /\ Nodes(h) /\ At(h, sel) = k
    BY <1>2 DEF HeapOK, Sane
  <2>1. g = [h EXCEPT !.node[k].sel_fn_ = IF fn \in @ THEN @ \ {fn} ELSE @ \cup {fn}]
    BY <1>2, <2>0 DEF Toggle
  <2>2. g = [h EXCEPT !.node[k].sel_fn_ = h.node[k].sel_fn_ \ {fn}]
    BY <2>1
  <2> HIDE DEF g
  <2>3. h.node[k].sel_fn_ \ {fn} \in SUBSET {READABLE, WRITEABLE}
    BY <2>0 DEF Heap, Poller
  <2>4. Refitted(h, g, k, h.node[k].sel_fn_ \ {fn})
    BY <2>0, <2>2, <2>3, RefitIs
  <2>5. /\ h.node[k].state = "live"
        /\ WRITEABLE \in h.node[k].sel_fn_ \ {fn} => h.node[k].fd_ = Conn
    BY <2>0 DEF Nodes, NodeOK
  <2>6. HeapOK(g) /\ List(g) = List(h) /\ \A t \in Slot : Reach(g, t) = Reach(h, t)
    BY <2>4, <2>5, RefitOK
  <2>7. Trims(h, g) /\ \A t \in Slot : At(g, t) = At(h, t)
    BY <2>4, <2>6 DEF Trims, Refitted, Alike
  <2> QED BY <1>2, <2>4, <2>6, <2>7 DEF g
<1> QED BY <1>1, <1>2

(* The poller that reads is the one that is asked to do more. *)
LEMMA AskMoreOK ==
  ASSUME NEW h, HeapOK(h), NEW k, NEW fd \in {Listen, Conn}, Reader(h, k, fd),
         NEW fn \in {READABLE, WRITEABLE}, fn = WRITEABLE => fd = Conn,
         NEW g \in selecter_add(h, fd, fn)
  PROVE  /\ k \in Chunk \ {2} /\ Refitted(h, g, k, h.node[k].sel_fn_ \cup {fn})
         /\ HeapOK(g) /\ Trims(h, g) /\ List(g) = List(h)
<1>1. Nodes(h) /\ Single(h) /\ List(h) \subseteq Chunk
  BY Slots, ReachClosed DEF HeapOK, Sane, List
<1>2. k \in List(h) /\ k \in Chunk \ {2} /\ h.node[k].fd_ = fd
  BY <1>1 DEF Reader, Nodes, NodeOK, Listen, Conn, Channel
<1>3. ~ \A c \in List(h) : h.node[c].fd_ # fd
  BY <1>2
<1>4. PICK c \in List(h) : /\ h.node[c].fd_ = fd
                           /\ Refitted(h, g, c, h.node[c].sel_fn_ \cup {fn})
  <2>1. \/ \E c \in List(h) : /\ h.node[c].fd_ = fd
                               /\ Refitted(h, g, c, h.node[c].sel_fn_ \cup {fn})
        \/ \A c \in List(h) : h.node[c].fd_ # fd
        \/ \E s, n : Appended(h, g, s, n, fd, fn)
    BY AddOutcomes
  <2>2. ~ \E s, n : Appended(h, g, s, n, fd, fn)
    BY <1>3 DEF Appended
  <2> QED BY <1>3, <2>1, <2>2
<1>5. h.node[k].state = "live" /\ h.node[c].state = "live"
  BY <1>1, <1>2, <1>4 DEF Nodes, NodeOK, NoFd, Listen, Conn
<1>6. c = k
  BY <1>1, <1>2, <1>4, <1>5 DEF Single
<1>7. Refitted(h, g, k, h.node[k].sel_fn_ \cup {fn})
  BY <1>4, <1>6
<1>8. WRITEABLE \in h.node[k].sel_fn_ \cup {fn} => h.node[k].fd_ = Conn
  BY <1>1, <1>2 DEF Nodes, NodeOK
<1>9. HeapOK(g) /\ List(g) = List(h) /\ \A t \in Slot : Reach(g, t) = Reach(h, t)
  BY <1>2, <1>5, <1>7, <1>8, RefitOK
<1>10. Trims(h, g)
  BY <1>7, <1>9 DEF Trims, Refitted, Alike
<1> QED BY <1>2, <1>7, <1>9, <1>10

(* A callback that has another descriptor read and gives up its own by its *)
(* return value: the reader is then the other one, on the list for certain.*)
LEMMA SwitchOK ==
  ASSUME NEW h, HeapOK(h), NEW k, NEW old \in {Listen, Conn}, Reader(h, k, old),
         NEW new \in {Listen, Conn}, new # old,
         sel \in Slot, At(h, sel) = k,
         NEW g \in selecter_add(h, new, READABLE)
  PROVE  LET t == Toggle(g, READABLE, 1)
         IN  /\ HeapOK(t) /\ Trims(h, t)
             /\ ~t.dead => ~h.dead /\ \E j \in Chunk : /\ Reader(t, j, new)
                                                       /\ List(t) \subseteq List(h) \cup {j}
                                                       /\ \A d \in Chunk \ {j} :
                                                            t.node[d].fd_ = h.node[d].fd_
<1> DEFINE t == Toggle(g, READABLE, 1)
<1>1. Nodes(h) /\ Single(h) /\ List(h) \subseteq Chunk
  BY Slots, ReachClosed DEF HeapOK, Sane, List
<1>2. /\ k \in List(h) /\ k \in Chunk \ {2} /\ k # NULL /\ h.node[k].fd_ = old
      /\ READABLE \in h.node[k].sel_fn_
  BY <1>1, Slots DEF Reader, Nodes, NodeOK, Listen, Conn, Channel
<1>3. /\ HeapOK(g) /\ Trims(h, g)
      /\ g = Dead(h) \/ \E c \in Chunk : Added(h, g, c, new, READABLE)
  BY AddOK DEF READABLE, WRITEABLE
<1>4. READABLE \in g.node[k].sel_fn_
  BY <1>2, <1>3, DeadIs DEF Added
<1>5. At(g, sel) \in {k, NULL}
  BY <1>2, <1>3 DEF Trims
<1>6. /\ HeapOK(t) /\ Trims(g, t) /\ List(t) = List(g)
      /\ \A s \in Slot : At(t, s) = At(g, s)
      /\ IF At(g, sel) = NULL THEN t = Dead(g)
         ELSE Refitted(g, t, k, g.node[k].sel_fn_ \ {READABLE})
  BY <1>2, <1>3, <1>4, <1>5, ToggleOK
<1> HIDE DEF t
<1>7. Trims(h, t)
  BY <1>3, <1>6 DEF Trims
<1>8. ASSUME ~t.dead PROVE ~h.dead /\ \E j \in Chunk : /\ Reader(t, j, new)
                                                       /\ List(t) \subseteq List(h) \cup {j}
                                                       /\ \A d \in Chunk \ {j} :
                                                            t.node[d].fd_ = h.node[d].fd_
  <2>1. At(g, sel) # NULL /\ Refitted(g, t, k, g.node[k].sel_fn_ \ {READABLE}) /\ ~g.dead
    BY <1>3, <1>6, <1>8, DeadIs DEF Refitted
  <2>2. g # Dead(h)
    BY <2>1, DeadIs
  <2>3. PICK c \in Chunk : Added(h, g, c, new, READABLE)
    BY <1>3, <2>2
  <2>4. c \in List(t) /\ List(t) \subseteq List(h) \cup {c} /\ t.node[c].fd_ = new
    BY <1>6, <2>1, <2>3 DEF Added, Refitted
  <2>5. c # k
    <3>1. h.node[k].state = "live"
      BY <1>1, <1>2 DEF Nodes, NodeOK
    <3> QED BY <1>2, <2>3, <3>1 DEF Added
  <2>6. \A d \in Chunk \ {2} : READABLE \in t.node[d].sel_fn_ <=> d = c
    <3>1. ASSUME NEW d \in Chunk \ {2} PROVE READABLE \in t.node[d].sel_fn_ <=> d = c
      <4>1. CASE d = c
        BY <2>1, <2>3, <2>5, <4>1 DEF Refitted, Added
      <4>2. CASE d = k
        BY <2>1, <2>5, <4>2 DEF Refitted
      <4>3. CASE d # c /\ d # k
        BY <2>1, <2>3, <4>3 DEF Refitted, Added, Reader
      <4> QED BY <4>1, <4>2, <4>3
    <3> QED BY <3>1
  <2>7. \A d \in Chunk \ {c} : t.node[d].fd_ = h.node[d].fd_
    BY <2>1, <2>3 DEF Added, Refitted
  <2> QED BY <2>1, <2>3, <2>4, <2>6, <2>7 DEF Reader, Added
<1> QED BY <1>6, <1>7, <1>8 DEF t

(* The same in two steps, for a callback of another poller. *)
LEMMA MoveOK ==
  ASSUME NEW h, HeapOK(h), NEW k, NEW old \in {Listen, Conn}, Reader(h, k, old),
         NEW new \in {Listen, Conn}, new # old,
         NEW g \in selecter_add(selecter_remove(h, old, READABLE), new, READABLE)
  PROVE  /\ HeapOK(g) /\ Trims(h, g)
         /\ ~g.dead => ~h.dead /\ \E j \in Chunk : Reader(g, j, new)
<1> DEFINE m == selecter_remove(h, old, READABLE)
<1>1. HeapOK(m) /\ Trims(h, m) /\ Refitted(h, m, k, h.node[k].sel_fn_ \ {READABLE})
  BY RemoveOK
<1> HIDE DEF m
<1>2. /\ HeapOK(g) /\ Trims(m, g)
      /\ g = Dead(m) \/ \E c \in Chunk : Added(m, g, c, new, READABLE)
  BY <1>1, AddOK DEF READABLE, WRITEABLE, m
<1>3. Trims(h, g)
  BY <1>1, <1>2 DEF Trims, Refitted, Alike
<1>4. ASSUME ~g.dead PROVE ~h.dead /\ \E j \in Chunk : Reader(g, j, new)
  <2>1. g # Dead(m)
    BY <1>1, <1>4, DeadIs
  <2>2. PICK c \in Chunk : Added(m, g, c, new, READABLE)
    BY <1>2, <2>1
  <2>3. \A d \in Chunk \ {2} : READABLE \notin m.node[d].sel_fn_
    BY <1>1 DEF Refitted, Reader
  <2>4. Reader(g, c, new)
    BY <2>2, <2>3 DEF Added, Reader
  <2>5. ~h.dead
    BY <1>1, <1>4, <2>2 DEF Added, Refitted
  <2> QED BY <2>4, <2>5
<1> QED BY <1>2, <1>3, <1>4

-----------------------------------------------------------------------------
(* The list before the first connection is closed *)

(* Nothing but the two pollers main() began with. *)
Untouched(h) ==
  /\ At(h, Head) = 1 /\ At(h, 1) = 2 /\ At(h, 2) = NULL /\ h.node[1].state = "live"
  /\ \A c \in Chunk \ {1, 2} : h.node[c].state = "fresh" /\ At(h, c) = NULL

(* The connection's poller is chunk 3 and asks to write if output waits.   *)
Serving(h, output) ==
  /\ At(h, Head) = 1 /\ At(h, 1) = 2 /\ At(h, 2) = 3 /\ At(h, 3) = NULL
  /\ h.node[3].fd_ = Conn /\ (WRITEABLE \in h.node[3].sel_fn_ <=> output)
  /\ \A c \in Chunk \ {1, 2, 3} : h.node[c].state = "fresh" /\ At(h, c) = NULL

LEMMA UntouchedList ==
  ASSUME NEW h, HeapOK(h), Untouched(h)
  PROVE  /\ List(h) = {1, 2} /\ Malloc(h) \subseteq {3}
         /\ h.node[1].fd_ # Conn /\ h.node[2].fd_ = Channel
<1>1. h \in Heap /\ {1, 2, Head} \subseteq Slot /\ 1 # NULL /\ 2 # NULL
  BY Slots DEF HeapOK, Sane
<1>2. /\ Reach(h, 2) = {} /\ Reach(h, 1) = {2} \cup Reach(h, 2)
      /\ Reach(h, Head) = {1} \cup Reach(h, 1)
  BY <1>1, ReachUnfold DEF Untouched
<1>3. h.node[1].fd_ # Conn /\ h.node[2].fd_ = Channel /\ h.node[2].state = "live"
  BY Slots DEF HeapOK, CameraLinked, Untouched, Nodes, NodeOK, Channel, NoFd
<1>4. ASSUME NEW n \in Malloc(h) PROVE n = 3
  <2>1. n \in Chunk \ {1, 2}
    BY <1>3, MallocIs DEF Untouched
  <2>2. h.node[n].state = "fresh" /\ h.node[3].state = "fresh"
    BY <2>1, Slots DEF Untouched
  <2>3. \A d \in 1..(n - 1) : h.node[d].state # "fresh"
    BY <2>2 DEF Malloc
  <2>4. 3 \notin 1..(n - 1) /\ n \in 1..NChunks
    BY <2>1, <2>2, <2>3 DEF Chunk
  <2> QED BY <2>1, <2>4, EventLoopAssumption
<1> QED BY <1>2, <1>3, <1>4 DEF List

LEMMA ServingList ==
  ASSUME NEW h, HeapOK(h), NEW output, Serving(h, output)
  PROVE  /\ List(h) = {1, 2, 3}
         /\ h.node[1].fd_ # Conn /\ h.node[2].fd_ = Channel
<1>1. h \in Heap /\ {1, 2, 3, Head} \subseteq Slot /\ 1 # NULL /\ 2 # NULL /\ 3 # NULL
  BY Slots DEF HeapOK, Sane
<1>2. /\ Reach(h, 3) = {} /\ Reach(h, 2) = {3} \cup Reach(h, 3)
      /\ Reach(h, 1) = {2} \cup Reach(h, 2) /\ Reach(h, Head) = {1} \cup Reach(h, 1)
  BY <1>1, ReachUnfold DEF Serving
<1>3. h.node[1].fd_ # Conn /\ h.node[2].fd_ = Channel
  BY Slots DEF HeapOK, CameraLinked, Serving, Nodes, NodeOK
<1> QED BY <1>2, <1>3 DEF List

(* The first client's poller is put behind the camera's, in fresh memory. *)
LEMMA FirstClient ==
  ASSUME NEW h, HeapOK(h), Untouched(h), NEW k, Reader(h, k, Listen),
         sel \in Slot, At(h, sel) = k, NEW g \in selecter_add(h, Conn, READABLE)
  PROVE  LET t == Toggle(g, READABLE, 1)
         IN  Serving(t, FALSE) /\ t.dead = h.dead /\ At(t, sel) # NULL
<1> DEFINE t == Toggle(g, READABLE, 1)
<1>1. /\ List(h) = {1, 2} /\ Malloc(h) \subseteq {3}
      /\ h.node[1].fd_ # Conn /\ h.node[2].fd_ = Channel
  BY UntouchedList
<1>2. \A c \in List(h) : h.node[c].fd_ # Conn
  BY <1>1 DEF Channel, Conn
<1>3. PICK s, n : n \in Malloc(h) /\ Appended(h, g, s, n, Conn, READABLE)
  <2>1. \/ \E c \in List(h) : h.node[c].fd_ = Conn
        \/ \E n \in Malloc(h) : n \in List(h)
        \/ \E s, n : n \in Malloc(h) /\ Appended(h, g, s, n, Conn, READABLE)
    BY AddOutcomes DEF READABLE, WRITEABLE
  <2> QED BY <1>1, <1>2, <2>1
<1>4. n = 3 /\ s \in {Head, 1, 2} /\ At(h, s) = NULL
  BY <1>1, <1>3 DEF Appended
<1>5. s = 2
  BY <1>4, Slots DEF Untouched
<1>6. Appended(h, g, 2, 3, Conn, READABLE)
  BY <1>3, <1>4, <1>5
<1>7. HeapOK(g)
  BY <1>6, AppendOK DEF READABLE, WRITEABLE
<1>8. k = 1 /\ READABLE \in h.node[1].sel_fn_
  BY <1>1, Slots DEF Reader, Listen, Channel
<1>9. sel # 2 /\ sel # 3 /\ At(g, sel) = 1
  BY <1>6, <1>8, Slots DEF Appended, Untouched
<1>10. READABLE \in g.node[1].sel_fn_ /\ 1 \in Chunk \ {2}
  BY <1>6, <1>8, Slots DEF Appended
<1>11. /\ Refitted(g, t, 1, g.node[1].sel_fn_ \ {READABLE})
       /\ \A u \in Slot : At(t, u) = At(g, u)
  BY <1>7, <1>9, <1>10, ToggleOK, Slots
<1> HIDE DEF t
<1>12. \A u \in Slot : At(t, u) = IF u = 2 THEN 3 ELSE IF u = 3 THEN NULL ELSE At(h, u)
  BY <1>6, <1>11 DEF Appended
<1>13. /\ t.node[3].fd_ = Conn /\ t.node[3].sel_fn_ = {READABLE}
       /\ \A c \in Chunk \ {1, 2, 3} : t.node[c].state = "fresh"
  BY <1>6, <1>11, Slots DEF Appended, Refitted, Untouched
<1>14. At(t, sel) # NULL
  BY <1>9, <1>11, Slots
<1>15. t.dead = h.dead
  BY <1>6, <1>11 DEF Refitted, Appended
<1>16. Serving(t, FALSE)
  BY <1>12, <1>13, Slots DEF Serving, Untouched, READABLE, WRITEABLE
<1> QED BY <1>14, <1>15, <1>16 DEF t

(* Output that is left over makes the connection's poller ask to write. *)
LEMMA MoreOutput ==
  ASSUME NEW h, HeapOK(h), NEW output, Serving(h, output), NEW k, Reader(h, k, Conn),
         NEW g \in selecter_add(h, Conn, WRITEABLE)
  PROVE  Serving(g, TRUE)
<1>1. Refitted(h, g, k, h.node[k].sel_fn_ \cup {WRITEABLE})
  BY AskMoreOK DEF READABLE, WRITEABLE
<1>2. k = 3
  BY ServingList DEF Reader, Channel, Conn
<1> QED BY <1>1, <1>2, Slots DEF Refitted, Alike, Serving

-----------------------------------------------------------------------------
(* The inductive invariant *)

Walking == pc \in {"read", "write", "reap"}

(* What the walk has still to meet. *)
Ahead == IF pc = "read" THEN Reach(heap, sel) ELSE Reach(heap, sel) \ {At(heap, sel)}

(* A frame that select saw is there until the camera's poller is met. *)
Fresh == Walking /\ Channel \in rfs /\ 2 \in Ahead => frames > 0

Standing == pc = "reap" => At(heap, sel) # NULL

(* The read callback has cut the list at the cursor: line 138 will crash. *)
Doomed == pc = "write" /\ At(heap, sel) = NULL

(* A poller of a closed connection without interest is met by this walk,   *)
(* which frees it.                                                         *)
Leftover ==
  accepted_fd_ = 0 /\ ~Doomed =>
    \A c \in List(heap) : heap.node[c].fd_ = Conn /\ heap.node[c].sel_fn_ = {}
                            => Walking /\ c \in Reach(heap, sel)

Served == IF accepted_fd_ = 0 THEN Listen ELSE Conn

(* Every close had a client, and so has every connection. *)
Counted == closes + waiting + (IF accepted_fd_ = 0 THEN 0 ELSE 1) <= clients

Before ==
  closes = 0 =>
    /\ heap.dead => "abort" \in build
    /\ pc \in {"write", "reap"} => At(heap, sel) # NULL
    /\ IF accepted_fd_ = 0 THEN ~pending /\ Untouched(heap) ELSE Serving(heap, pending)

InStep == ~heap.dead => \E k \in Chunk : Reader(heap, k, Served)

Inv ==
  /\ TypeOK
  /\ HeapOK(heap)
  /\ InStep
  /\ Running => Fresh /\ Standing /\ Leftover
  /\ Counted
  /\ Before

-----------------------------------------------------------------------------
(* Facts that hold where the invariant does *)

LEMMA Distinct ==
  /\ Listen # Channel /\ Listen # Conn /\ Channel # Conn /\ READABLE # WRITEABLE
  /\ 0 # Listen /\ 0 # Channel /\ 0 # Conn /\ Fd = {Listen, Channel, Conn} /\ NoFd = 0
BY DEF Listen, Channel, Conn, READABLE, WRITEABLE, Fd, NoFd

LEMMA HeapFacts ==
  ASSUME NEW h, HeapOK(h)
  PROVE  /\ h \in Heap /\ Sane(h) /\ Nodes(h) /\ Single(h) /\ CameraLinked(h)
         /\ List(h) \subseteq Chunk /\ OnList(h) = List(h)
BY Slots, ReachClosed, OnListIs DEF HeapOK, Sane, List

LEMMA InterestIs ==
  ASSUME NEW h, HeapOK(h), NEW fn \in {READABLE, WRITEABLE}
  PROVE  Interest(h, fn) \subseteq Fd
<1>1. Nodes(h) /\ OnList(h) \subseteq Chunk
  BY HeapFacts
<1>2. \A c \in OnList(h) : fn \in h.node[c].sel_fn_ => h.node[c].fd_ \in Fd
  BY <1>1 DEF Nodes, NodeOK
<1> QED BY <1>2 DEF Interest

(* A poller whose read callback is due, but for the camera's, is the one   *)
(* reader, and so of the descriptor that the connection decides.           *)
LEMMA DueIsReader ==
  ASSUME Inv, Running, Fires(READABLE, rfs), Current.fd_ # Channel
  PROVE  /\ Reader(heap, At(heap, sel), Served) /\ Current.fd_ = Served
         /\ At(heap, sel) \in Chunk \ {2}
<1>1. HeapOK(heap) /\ sel \in Slot /\ ~heap.dead
  BY DEF Inv, TypeOK, Running
<1>2. At(heap, sel) \in Chunk /\ READABLE \in heap.node[At(heap, sel)].sel_fn_
  BY <1>1, HeapFacts, AtType DEF Fires, Current
<1>3. At(heap, sel) # 2
  BY <1>1, <1>2, HeapFacts DEF Nodes, NodeOK, Current
<1>4. PICK k \in Chunk : Reader(heap, k, Served)
  BY <1>1 DEF Inv, InStep
<1>5. At(heap, sel) = k
  BY <1>2, <1>3, <1>4 DEF Reader
<1> QED BY <1>2, <1>3, <1>4, <1>5 DEF Reader, Current

(* What the walk has ahead of it after a read callback. *)
LEMMA AfterRead ==
  ASSUME NEW h, NEW g, HeapOK(h), HeapOK(g), NEW s \in Slot, At(h, s) # NULL, Trims(h, g),
         2 \in Reach(g, s) \ {At(g, s)}
  PROVE  2 \in Reach(h, s) /\ At(h, s) # 2
<1>1. 2 \in Reach(h, s)
  BY DEF Trims
<1>2. At(g, s) # NULL
  BY HeapFacts, ReachUnfold
<1> QED BY <1>1, <1>2 DEF Trims

(* What remains to be shown of a read callback, when the rest is known. *)
LEMMA ReadKeeps ==
  ASSUME Inv, Running, pc = "read", At(heap, sel) # NULL, HeapOK(heap'), Trims(heap, heap'),
         At(heap, sel) # 2 => frames' = frames, pc' = "write", sel' = sel, rfs' = rfs
  PROVE  Fresh' /\ Standing'
<1>1. SUFFICES ASSUME Channel \in rfs, 2 \in Reach(heap', sel) \ {At(heap', sel)}
               PROVE  frames' > 0
  BY DEF Fresh, Standing, Ahead
<1>2. 2 \in Reach(heap, sel) /\ At(heap, sel) # 2
  BY <1>1, AfterRead DEF Inv, TypeOK
<1>3. frames > 0
  BY <1>1, <1>2 DEF Inv, Fresh, Walking, Ahead
<1> QED BY <1>2, <1>3

-----------------------------------------------------------------------------
(* The initial states *)

LEMMA InitInv == ASSUME Init PROVE Inv
<1>0. /\ build \in Builds /\ rfs \subseteq Fd /\ wfs \subseteq Fd /\ pc = "poll" /\ sel = Head
      /\ accepted_fd_ = 0 /\ pending = FALSE /\ active_ = TRUE /\ waiting = 0
      /\ clients = 0 /\ input = "none" /\ frames = 0 /\ closes = 0
  BY DEF Init
<1>1. TypeOK
  <2> DEFINE P(c) == CASE c = 1 -> [fd_ |-> Listen, sel_fn_ |-> {READABLE},
                                    next_ |-> 2, state |-> "live"]
                       [] c = 2 -> [fd_ |-> Channel, sel_fn_ |-> {READABLE},
                                    next_ |-> NULL, state |-> "live"]
                       [] OTHER -> [fd_ |-> NoFd, sel_fn_ |-> {},
                                    next_ |-> NULL, state |-> "fresh"]
  <2>1. heap = [head_ |-> 1, dead |-> FALSE, node |-> [c \in Chunk |-> P(c)]]
    BY DEF Init
  <2>2. \A c \in Chunk : P(c) \in Poller
    BY Slots, Distinct DEF Poller
  <2> HIDE DEF P
  <2>3. heap \in Heap
    BY <2>1, <2>2, Slots DEF Heap
  <2>4. 0 \in 0..MaxClients /\ 0 \in 0..MaxFrames /\ 0 \in 0..0
    BY EventLoopAssumption
  <2> QED BY <1>0, <2>3, <2>4, Slots DEF TypeOK, Heap
<1>2. /\ heap.head_ = 1 /\ ~heap.dead
      /\ heap.node[1] = [fd_ |-> Listen, sel_fn_ |-> {READABLE}, next_ |-> 2, state |-> "live"]
      /\ heap.node[2] = [fd_ |-> Channel, sel_fn_ |-> {READABLE}, next_ |-> NULL, state |-> "live"]
      /\ \A c \in Chunk \ {1, 2} :
           heap.node[c] = [fd_ |-> NoFd, sel_fn_ |-> {}, next_ |-> NULL, state |-> "fresh"]
  BY Slots DEF Init
<1>3. /\ At(heap, Head) = 1 /\ At(heap, 1) = 2 /\ At(heap, 2) = NULL
      /\ \A c \in Chunk \ {1, 2} : At(heap, c) = NULL
  BY <1>2, Slots DEF At
<1>4. heap \in Heap
  BY <1>1 DEF TypeOK, Heap
<1>5. /\ Reach(heap, 2) = {} /\ Reach(heap, 1) = {2} /\ List(heap) = {1, 2}
      /\ \A c \in Chunk \ {1, 2} : Reach(heap, c) = {}
  <2>1. Reach(heap, 2) = {} /\ \A c \in Chunk \ {1, 2} : Reach(heap, c) = {}
    BY <1>3, <1>4, ReachUnfold, Slots
  <2>2. Reach(heap, 1) = {2} \cup Reach(heap, 2)
    BY <1>3, <1>4, ReachUnfold, Slots
  <2>3. Reach(heap, Head) = {1} \cup Reach(heap, 1)
    BY <1>3, <1>4, ReachUnfold, Slots
  <2> QED BY <2>1, <2>2, <2>3 DEF List
<1>6. Sane(heap)
  BY <1>3, <1>4, <1>5, Slots DEF Sane
<1>7. Nodes(heap)
  <2>1. ASSUME NEW c \in Chunk PROVE NodeOK(heap.node[c], c)
    BY <1>2, Distinct DEF NodeOK
  <2> QED BY <2>1 DEF Nodes
<1>8. Single(heap) /\ CameraLinked(heap)
  BY <1>2, <1>3, <1>5, Distinct, Slots DEF Single, CameraLinked
<1>9. HeapOK(heap) /\ Untouched(heap)
  BY <1>2, <1>3, <1>6, <1>7, <1>8 DEF HeapOK, Untouched
<1>10. Reader(heap, 1, Listen)
  BY <1>2, <1>5, Slots DEF Reader
<1>11. InStep /\ Before /\ Counted
  <2>1. InStep
    BY <1>0, <1>10, Slots DEF InStep, Served
  <2>2. Before
    BY <1>0, <1>2, <1>9 DEF Before
  <2>3. Counted
    BY <1>0 DEF Counted
  <2> QED BY <2>1, <2>2, <2>3
<1>12. Fresh /\ Standing /\ Leftover
  <2>1. \A c \in List(heap) : heap.node[c].fd_ # Conn
    BY <1>2, <1>5, Distinct
  <2> QED BY <1>0, <2>1 DEF Fresh, Standing, Leftover, Walking
<1> QED BY <1>1, <1>9, <1>11, <1>12 DEF Inv

-----------------------------------------------------------------------------
(* Clients, camera, signals; the steps that leave the heap alone *)

LEMMA OutsideInv ==
  ASSUME Inv, ClientConnects \/ ClientSends \/ CameraSends \/ signal_handler, UNCHANGED build
  PROVE  Inv'
<1>1. UNCHANGED <<heap, rfs, wfs, pc, sel, accepted_fd_, pending, closes, build>>
  BY DEF ClientConnects, ClientSends, CameraSends, signal_handler, sets, loop, server, world
<1>2. TypeOK' /\ Counted' /\ frames' \in Int /\ frames' >= frames
  <2>0. /\ clients \in Nat /\ waiting \in Nat /\ frames \in Nat /\ closes \in Nat
        /\ clients <= MaxClients /\ waiting <= clients /\ frames <= MaxFrames
        /\ closes <= clients
    BY EventLoopAssumption DEF Inv, TypeOK
  <2>1. CASE ClientConnects
    <3>1. /\ clients' = clients + 1 /\ waiting' = waiting + 1 /\ clients < MaxClients
          /\ UNCHANGED <<active_, input, frames>>
      BY <2>1 DEF ClientConnects
    <3> HIDE DEF ClientConnects
    <3>2. /\ clients' \in 0..MaxClients /\ waiting' \in 0..clients' /\ closes \in 0..clients'
          /\ Counted'
      BY <1>1, <2>0, <3>1, EventLoopAssumption DEF Counted, Inv
    <3> QED BY <1>1, <2>0, <3>1, <3>2 DEF Inv, TypeOK
  <2>2. CASE ClientSends \/ signal_handler
    <3>1. /\ UNCHANGED <<clients, waiting, frames>> /\ active_' \in BOOLEAN
          /\ input' \in {"none", "data", "end"}
      BY <2>2 DEF ClientSends, signal_handler, world, Inv, TypeOK
    <3> QED BY <1>1, <2>0, <3>1 DEF Inv, TypeOK, Counted
  <2>3. CASE CameraSends
    <3>1. /\ UNCHANGED <<clients, waiting, active_, input>> /\ frames' = frames + 1
          /\ frames < MaxFrames
      BY <2>3 DEF CameraSends
    <3>2. frames' \in 0..MaxFrames
      BY <2>0, <3>1, EventLoopAssumption
    <3> QED BY <1>1, <2>0, <3>1, <3>2 DEF Inv, TypeOK, Counted
  <2> QED BY <2>1, <2>2, <2>3
<1>3. InStep' /\ Before' /\ HeapOK(heap')
  BY <1>1 DEF Inv, InStep, Before, Served
<1>4. Running' => Fresh' /\ Standing' /\ Leftover'
  BY <1>1, <1>2, EventLoopAssumption
     DEF Inv, TypeOK, Running, Fresh, Standing, Leftover, Walking, Ahead, Doomed
<1> QED BY <1>2, <1>3, <1>4 DEF Inv

LEMMA PollFailsInv == ASSUME Inv, PollFails, UNCHANGED build PROVE Inv'
<1>1. /\ UNCHANGED <<heap, pc, sel, accepted_fd_, pending, active_, waiting, clients, input,
                     frames, closes, build>>
      /\ rfs' = WantRead /\ wfs' = WantWrite /\ pc = "poll" /\ Running
  BY DEF PollFails, loop, server, world
<1>2. rfs' \subseteq Fd /\ wfs' \subseteq Fd
  BY <1>1, InterestIs DEF Inv, TypeOK, WantRead, WantWrite
<1>3. TypeOK'
  BY <1>1, <1>2 DEF Inv, TypeOK
<1>4. Counted' /\ InStep' /\ Before' /\ HeapOK(heap')
  BY <1>1 DEF Inv, Counted, InStep, Before, Served
<1>5. Fresh' /\ Standing' /\ Leftover'
  BY <1>1 DEF Inv, Fresh, Standing, Leftover, Walking, Doomed
<1> QED BY <1>3, <1>4, <1>5 DEF Inv

LEMMA PollInv == ASSUME Inv, Poll, UNCHANGED build PROVE Inv'
<1>1. /\ UNCHANGED <<heap, accepted_fd_, pending, active_, waiting, clients, input,
                     frames, closes, build>>
      /\ pc' \in {"poll", "read"} /\ sel' = Head /\ pc = "poll" /\ Running
  BY DEF Poll, server, world
<1>2. /\ rfs' \subseteq WantRead /\ wfs' \subseteq WantWrite
      /\ Channel \in rfs' => frames > 0
  BY Distinct DEF Poll, Readable
<1>3. rfs' \subseteq Fd /\ wfs' \subseteq Fd
  BY <1>2, InterestIs DEF Inv, TypeOK, WantRead, WantWrite
<1>4. TypeOK'
  BY <1>1, <1>3, Slots DEF Inv, TypeOK
<1>5. Counted' /\ InStep' /\ Before' /\ HeapOK(heap')
  BY <1>1 DEF Inv, Counted, InStep, Before, Served
<1>6. Fresh' /\ Standing'
  BY <1>1, <1>2 DEF Fresh, Standing
<1>7. Leftover'
  <2>1. Leftover /\ ~Doomed /\ ~Walking
    BY <1>1 DEF Inv, Doomed, Walking
  <2> QED BY <1>1, <2>1 DEF Leftover
<1> QED BY <1>4, <1>5, <1>6, <1>7 DEF Inv

LEMMA ExitInv == ASSUME Inv, Exit, UNCHANGED build PROVE Inv'
<1>1. /\ UNCHANGED <<heap, rfs, wfs, sel, accepted_fd_, pending, active_, waiting, clients,
                     input, frames, closes, build>>
      /\ pc' = "exit"
  BY DEF Exit, sets, server, world
<1>2. TypeOK'
  BY <1>1 DEF Inv, TypeOK
<1>3. Counted' /\ InStep' /\ Before' /\ HeapOK(heap')
  BY <1>1 DEF Inv, Counted, InStep, Before, Served
<1> QED BY <1>1, <1>2, <1>3 DEF Inv, Running

LEMMA EndOfListInv == ASSUME Inv, EndOfList, UNCHANGED build PROVE Inv'
<1>1. /\ UNCHANGED <<heap, rfs, wfs, sel, accepted_fd_, pending, active_, waiting, clients,
                     input, frames, closes, build>>
      /\ pc' = "poll" /\ pc = "read" /\ At(heap, sel) = NULL /\ Running
  BY DEF EndOfList, sets, server, world
<1>2. TypeOK'
  BY <1>1 DEF Inv, TypeOK
<1>3. Counted' /\ InStep' /\ Before' /\ HeapOK(heap')
  BY <1>1 DEF Inv, Counted, InStep, Before, Served
<1>4. Fresh' /\ Standing'
  BY <1>1 DEF Fresh, Standing, Walking
<1>5. Leftover'
  <2>1. Reach(heap, sel) = {}
    BY <1>1, HeapFacts, ReachUnfold DEF Inv, TypeOK
  <2>2. Leftover /\ ~Doomed
    BY <1>1 DEF Inv, Doomed
  <2> QED BY <1>1, <2>1, <2>2 DEF Leftover
<1> QED BY <1>2, <1>3, <1>4, <1>5 DEF Inv

LEMMA SkipReadInv == ASSUME Inv, SkipRead, UNCHANGED build PROVE Inv'
<1>1. /\ UNCHANGED <<heap, rfs, wfs, sel, accepted_fd_, pending, active_, waiting, clients,
                     input, frames, closes, build>>
      /\ pc' = "write" /\ pc = "read" /\ At(heap, sel) # NULL /\ Running
  BY DEF SkipRead, sets, server, world
<1>2. TypeOK'
  BY <1>1 DEF Inv, TypeOK
<1>3. Counted' /\ InStep' /\ Before' /\ HeapOK(heap')
  BY <1>1 DEF Inv, Counted, InStep, Before, Served
<1>4. Fresh' /\ Standing'
  BY <1>1 DEF Inv, Fresh, Standing, Walking, Ahead
<1>5. Leftover'
  BY <1>1 DEF Inv, Leftover, Doomed, Walking
<1> QED BY <1>2, <1>3, <1>4, <1>5 DEF Inv

LEMMA SkipWriteInv == ASSUME Inv, SkipWrite, UNCHANGED build PROVE Inv'
<1>1. /\ UNCHANGED <<rfs, wfs, sel, accepted_fd_, pending, active_, waiting, clients,
                     input, frames, closes, build>>
      /\ pc' = "reap" /\ pc = "write" /\ Running
      /\ heap' = IF At(heap, sel) = NULL THEN Dead(heap) ELSE heap
  BY DEF SkipWrite, sets, server, world
<1>2. Counted' /\ HeapOK(heap)
  BY <1>1 DEF Inv, Counted
<1>3. CASE At(heap, sel) = NULL
  <2>1. HeapOK(heap') /\ heap'.dead
    BY <1>1, <1>2, <1>3, DeadIs
  <2>2. TypeOK'
    BY <1>1, <2>1, HeapFacts DEF Inv, TypeOK, Heap
  <2>3. closes # 0
    BY <1>1, <1>3 DEF Inv, Before
  <2> QED BY <1>1, <1>2, <2>1, <2>2, <2>3 DEF Inv, InStep, Before, Running
<1>4. CASE At(heap, sel) # NULL
  <2>1. TypeOK' /\ InStep' /\ Before' /\ HeapOK(heap')
    BY <1>1, <1>4 DEF Inv, TypeOK, InStep, Before, Served
  <2>2. Fresh' /\ Standing' /\ Leftover'
    BY <1>1, <1>4 DEF Inv, Fresh, Standing, Leftover, Walking, Ahead, Doomed
  <2> QED BY <1>2, <2>1, <2>2 DEF Inv
<1> QED BY <1>3, <1>4

-----------------------------------------------------------------------------
(* The write callback, and the freeing of pollers *)

LEMMA OnWriteInv == ASSUME Inv, on_write, UNCHANGED build PROVE Inv'
<1>1. /\ UNCHANGED <<rfs, wfs, sel, accepted_fd_, active_, waiting, clients,
                     input, frames, closes, build>>
      /\ pc = "write" /\ Running /\ Fires(WRITEABLE, wfs)
      /\ \/ pc' = "reap" /\ UNCHANGED <<heap, pending>>
         \/ pc' = "killed" /\ UNCHANGED <<heap, pending>>
         \/ /\ accepted_fd_ # 0 /\ pending' = FALSE /\ pc' = "reap"
            /\ heap' = Toggle(heap, WRITEABLE, 1)
  BY DEF on_write, sets, world
<1>2. Counted' /\ HeapOK(heap) /\ At(heap, sel) # NULL /\ sel \in Slot
  BY <1>1 DEF Inv, Counted, Fires, TypeOK
<1>3. CASE pc' = "reap" /\ UNCHANGED <<heap, pending>>
  <2>1. TypeOK' /\ InStep' /\ Before' /\ HeapOK(heap')
    BY <1>1, <1>2, <1>3 DEF Inv, TypeOK, InStep, Before, Served
  <2>2. Fresh' /\ Standing' /\ Leftover'
    BY <1>1, <1>2, <1>3 DEF Inv, Fresh, Standing, Leftover, Walking, Ahead, Doomed
  <2> QED BY <1>2, <2>1, <2>2 DEF Inv
<1>5. CASE pc' = "killed" /\ UNCHANGED <<heap, pending>>
  <2>1. TypeOK' /\ InStep' /\ Before' /\ HeapOK(heap')
    BY <1>1, <1>2, <1>5 DEF Inv, TypeOK, InStep, Before, Served
  <2> QED BY <1>2, <1>5, <2>1 DEF Inv, Running
<1>4. CASE /\ accepted_fd_ # 0 /\ pending' = FALSE /\ pc' = "reap"
           /\ heap' = Toggle(heap, WRITEABLE, 1)
  <2> DEFINE k == At(heap, sel)
  <2>1. k \in Chunk /\ WRITEABLE \in heap.node[k].sel_fn_ /\ heap.node[k].fd_ = Conn
    BY <1>1, <1>2, HeapFacts, AtType DEF Fires, Current, Nodes, NodeOK
  <2>2. k # 2
    BY <1>2, <2>1, HeapFacts, Distinct DEF Nodes, NodeOK
  <2> HIDE DEF k
  <2>3. /\ HeapOK(heap') /\ Trims(heap, heap') /\ List(heap') = List(heap)
        /\ \A t \in Slot : At(heap', t) = At(heap, t)
        /\ Refitted(heap, heap', k, heap.node[k].sel_fn_ \ {WRITEABLE})
    BY <1>2, <1>4, <2>1, <2>2, ToggleOK DEF k
  <2>4. TypeOK'
    BY <1>1, <1>4, <2>3, HeapFacts DEF Inv, TypeOK, Heap
  <2>5. InStep'
    <3>1. ASSUME NEW r \in Chunk, Reader(heap, r, Served) PROVE Reader(heap', r, Served)
      BY <2>3, <3>1, Distinct DEF Reader, Refitted
    <3> QED BY <1>1, <2>3, <3>1 DEF Inv, InStep, Served, Refitted
  <2>6. Before'
    <3>1. SUFFICES ASSUME closes = 0
                   PROVE  /\ heap'.dead => "abort" \in build
                          /\ At(heap', sel) # NULL /\ Serving(heap', FALSE)
      BY <1>1, <1>4 DEF Before
    <3>2. Serving(heap, pending) /\ (heap.dead => "abort" \in build)
      BY <1>4, <3>1 DEF Inv, Before
    <3>3. k = 3
      <4>1. k \in {1, 2, 3}
        BY <2>1, <3>2, Distinct, HeapFacts, <1>2 DEF Serving, Nodes, NodeOK
      <4> QED BY <1>2, <2>1, <2>2, <3>2, <4>1, ServingList
    <3> QED BY <1>2, <2>3, <3>2, <3>3, Slots DEF Serving, Refitted, k
  <2>7. Standing' /\ Leftover'
    BY <1>1, <1>2, <1>4, <2>3 DEF Standing, Leftover
  <2>8. Fresh'
    <3>1. SUFFICES ASSUME Channel \in rfs, 2 \in Reach(heap', sel) \ {At(heap', sel)}
                   PROVE  frames > 0
      BY <1>1 DEF Fresh, Ahead
    <3>2. 2 \in Reach(heap, sel) \ {At(heap, sel)}
      BY <1>2, <2>3, <3>1 DEF Trims
    <3> QED BY <1>1, <3>1, <3>2 DEF Inv, Fresh, Walking, Ahead
  <2> QED BY <1>2, <2>3, <2>4, <2>5, <2>6, <2>7, <2>8 DEF Inv
<1> QED BY <1>1, <1>3, <1>4, <1>5

Freed(h, k) ==
  [h EXCEPT !.node[k] = [fd_ |-> NoFd, sel_fn_ |-> {}, next_ |-> h.node[k].next_,
                         state |-> "freed"]]

(* A poller that is freed stays linked, and was nobody's. *)
LEMMA FreeOK ==
  ASSUME NEW h, HeapOK(h), NEW k \in Chunk, h.node[k].sel_fn_ = {}, h.node[k].state = "live",
         NEW g, g = Freed(h, k)
  PROVE  /\ HeapOK(g) /\ List(g) = List(h) /\ k # 2 /\ g.dead = h.dead
         /\ \A t \in Slot : At(g, t) = At(h, t) /\ Reach(g, t) = Reach(h, t)
         /\ g.node[k].fd_ = NoFd /\ g.node[k].sel_fn_ = {}
         /\ \A c \in Chunk \ {k} : g.node[c] = h.node[c]
<1> DEFINE p == [fd_ |-> NoFd, sel_fn_ |-> {}, next_ |-> h.node[k].next_, state |-> "freed"]
<1>1. h \in Heap /\ h.node \in [Chunk -> Poller] /\ Nodes(h)
  BY HeapFacts DEF Heap
<1>2. k # 2
  BY <1>1 DEF Nodes, NodeOK
<1>3. p \in Poller
  BY <1>1 DEF Poller
<1>4. p.fd_ = NoFd /\ p.sel_fn_ = {} /\ p.next_ = h.node[k].next_ /\ p.state = "freed"
  OBVIOUS
<1>5. /\ g.head_ = h.head_ /\ g.dead = h.dead /\ g.node = [h.node EXCEPT ![k] = p]
      /\ g = [head_ |-> g.head_, node |-> g.node, dead |-> g.dead]
  BY <1>1 DEF Heap, Freed
<1> HIDE DEF p
<1>6. g.node \in [Chunk -> Poller] /\ g.node[k] = p /\ \A c \in Chunk \ {k} : g.node[c] = h.node[c]
  BY <1>1, <1>3, <1>5
<1>7. g \in Heap
  BY <1>1, <1>5, <1>6 DEF Heap
<1>8. \A t \in Slot : At(g, t) = At(h, t)
  BY <1>4, <1>5, <1>6, Slots DEF At
<1>9. Nodes(g)
  <2>1. ASSUME NEW c \in Chunk PROVE NodeOK(g.node[c], c)
    <3>1. CASE c = k
      BY <1>2, <1>4, <1>6, <3>1, Distinct DEF NodeOK
    <3>2. CASE c # k
      BY <1>1, <1>6, <3>2 DEF Nodes
    <3> QED BY <3>1, <3>2
  <2> QED BY <2>1 DEF Nodes
<1>10. Alike(h, g)
  BY <1>4, <1>6, <1>7, <1>8 DEF Alike
<1>11. HeapOK(g) /\ List(g) = List(h) /\ \A t \in Slot : Reach(g, t) = Reach(h, t)
  BY <1>9, <1>10, AlikeOK
<1> QED BY <1>2, <1>4, <1>5, <1>6, <1>8, <1>11

LEMMA ReapInv == ASSUME Inv, Reap, UNCHANGED build PROVE Inv'
<1> DEFINE k == At(heap, sel)
<1>1. /\ UNCHANGED <<rfs, wfs, accepted_fd_, pending, active_, waiting, clients,
                     input, frames, closes, build>>
      /\ pc' = "read" /\ pc = "reap" /\ Running /\ sel' = k
  BY DEF Reap, sets, server, world
<1>2. /\ HeapOK(heap) /\ sel \in Slot /\ k \in Chunk /\ k \in Slot /\ Counted'
      /\ Nodes(heap) /\ ~heap.dead
  <2>1. HeapOK(heap) /\ sel \in Slot /\ k # NULL /\ ~heap.dead /\ Counted'
    BY <1>1 DEF Inv, Standing, TypeOK, Counted, Running
  <2> QED BY <2>1, HeapFacts, AtType, Slots
<1>3. Reach(heap, k) = Reach(heap, sel) \ {k}
  <2>1. Reach(heap, sel) = {k} \cup Reach(heap, k)
    BY <1>2, HeapFacts, ReachUnfold, Slots
  <2>2. k \notin Reach(heap, k)
    BY <1>2 DEF HeapOK, Sane
  <2> QED BY <2>1, <2>2
<1>4. 2 \in Reach(heap, k) /\ Channel \in rfs => frames > 0
  BY <1>1, <1>3 DEF Inv, Fresh, Walking, Ahead
<1>5. \A c \in List(heap) : accepted_fd_ = 0 /\ heap.node[c].fd_ = Conn
                            /\ heap.node[c].sel_fn_ = {} /\ c # k => c \in Reach(heap, k)
  BY <1>1, <1>3 DEF Inv, Leftover, Doomed
<1>6. PICK r \in Chunk : Reader(heap, r, Served)
  BY <1>2 DEF Inv, InStep
<1>7. CASE heap' = heap /\ (Current.sel_fn_ # {} \/ Current.state = "freed")
  <2>1. TypeOK' /\ InStep' /\ Before' /\ HeapOK(heap')
    BY <1>1, <1>2, <1>7 DEF Inv, TypeOK, InStep, Before, Served
  <2>2. heap.node[k].fd_ = Conn => heap.node[k].sel_fn_ # {}
    BY <1>2, <1>7, Distinct DEF Current, Nodes, NodeOK
  <2>3. Fresh' /\ Standing'
    BY <1>1, <1>4, <1>7 DEF Fresh, Standing, Ahead
  <2>4. Leftover'
    BY <1>1, <1>5, <1>7, <2>2 DEF Leftover, Walking
  <2> QED BY <1>2, <2>1, <2>3, <2>4 DEF Inv
<1>8. CASE /\ Current.sel_fn_ = {} /\ Current.state = "live"
           /\ heap' = [heap EXCEPT !.node[At(heap, sel)] =
                [fd_ |-> NoFd, sel_fn_ |-> {}, next_ |-> @.next_, state |-> "freed"]]
  <2>0. heap.node[k].sel_fn_ = {} /\ heap.node[k].state = "live"
    BY <1>8 DEF Current
  <2> HIDE DEF k
  <2>1. /\ HeapOK(heap') /\ List(heap') = List(heap) /\ k # 2 /\ heap'.dead = heap.dead
        /\ \A t \in Slot : At(heap', t) = At(heap, t) /\ Reach(heap', t) = Reach(heap, t)
        /\ heap'.node[k].fd_ = NoFd /\ heap'.node[k].sel_fn_ = {}
        /\ \A c \in Chunk \ {k} : heap'.node[c] = heap.node[c]
    <3>1. heap' = Freed(heap, k)
      BY <1>8 DEF k, Freed
    <3> QED BY <1>2, <2>0, <3>1, FreeOK
  <2>2. TypeOK'
    BY <1>1, <1>2, <2>1, HeapFacts DEF Inv, TypeOK, Heap
  <2>3. Reader(heap', r, Served) /\ r # k
    <3>1. r # k
      BY <1>2, <1>6, <2>0, HeapFacts, Distinct DEF Reader, Nodes, NodeOK, Served
    <3> QED BY <1>2, <1>6, <2>0, <2>1, <3>1 DEF Reader
  <2>4. InStep'
    BY <1>1, <2>3 DEF InStep, Served
  <2>5. Before'
    <3>1. SUFFICES ASSUME closes = 0
                   PROVE  IF accepted_fd_ = 0 THEN ~pending /\ Untouched(heap')
                                              ELSE Serving(heap', pending)
      BY <1>1, <1>2, <2>1 DEF Before
    <3>2. CASE accepted_fd_ = 0
      <4>1. Untouched(heap) /\ List(heap) = {1, 2} /\ heap.node[2].fd_ = Channel
        BY <1>2, <3>1, <3>2, UntouchedList DEF Inv, Before
      <4>2. r = 1
        BY <1>6, <3>2, <4>1, Distinct DEF Reader, Served
      <4>3. k \in Chunk \ {1, 2}
        BY <1>2, <2>1, <2>3, <4>2
      <4> QED BY <2>0, <4>1, <4>3 DEF Untouched
    <3>3. CASE accepted_fd_ # 0
      <4>1. /\ Serving(heap, pending) /\ List(heap) = {1, 2, 3} /\ heap.node[2].fd_ = Channel
            /\ heap.node[1].fd_ # Conn
        BY <1>2, <3>1, <3>3, ServingList DEF Inv, Before
      <4>2. r = 3
        BY <1>6, <3>3, <4>1, Distinct DEF Reader, Served
      <4>3. k \notin Chunk \ {1, 2, 3}
        BY <2>0, <4>1 DEF Serving
      <4>4. /\ heap'.node[3] = heap.node[3]
            /\ \A c \in Chunk \ {1, 2, 3} : heap'.node[c] = heap.node[c]
        BY <2>1, <2>3, <4>2, <4>3, <1>2, Slots
      <4>5. Serving(heap', pending)
        BY <2>1, <4>1, <4>4, Slots DEF Serving
      <4> QED BY <3>3, <4>5
    <3> QED BY <3>2, <3>3
  <2>6. Fresh' /\ Standing'
    BY <1>1, <1>2, <1>4, <2>1 DEF Fresh, Standing, Ahead
  <2>7. Leftover'
    BY <1>1, <1>2, <1>5, <2>1, HeapFacts, Distinct DEF Leftover, Walking
  <2> QED BY <1>2, <2>1, <2>2, <2>4, <2>5, <2>6, <2>7 DEF Inv
<1>9. CASE "abort" \in build /\ heap' = Dead(heap)
  <2>1. /\ HeapOK(heap') /\ heap'.dead /\ heap'.node = heap.node
        /\ \A t \in Slot : At(heap', t) = At(heap, t)
    BY <1>2, <1>9, DeadIs
  <2>2. TypeOK'
    BY <1>1, <1>2, <2>1, HeapFacts DEF Inv, TypeOK, Heap
  <2>3. Before'
    BY <1>1, <1>9, <2>1, Slots DEF Inv, Before, Untouched, Serving
  <2> QED BY <1>2, <2>1, <2>2, <2>3 DEF Inv, InStep, Running
<1> QED BY <1>7, <1>8, <1>9 DEF Reap

-----------------------------------------------------------------------------
(* The read callbacks *)

LEMMA Numbers ==
  ASSUME TypeOK
  PROVE  /\ clients \in Nat /\ waiting \in Nat /\ frames \in Nat /\ closes \in Nat
         /\ waiting <= clients /\ closes <= clients /\ frames <= MaxFrames
BY EventLoopAssumption DEF TypeOK

LEMMA OnAcceptInv == ASSUME Inv, on_accept, UNCHANGED build PROVE Inv'
<1> DEFINE k == At(heap, sel)
<1>1. /\ UNCHANGED <<rfs, wfs, sel, pending, active_, clients, frames, closes, build>>
      /\ pc' = "write" /\ pc = "read" /\ Running /\ Fires(READABLE, rfs) /\ Current.fd_ = Listen
  BY DEF on_accept, ReadReturns, sets
<1>2. HeapOK(heap) /\ sel \in Slot /\ TypeOK /\ ~heap.dead
  BY <1>1 DEF Inv, TypeOK, Running
<1>3. Reader(heap, k, Listen) /\ k \in Chunk \ {2} /\ accepted_fd_ = 0
  BY <1>1, DueIsReader, Distinct DEF Served
<1>4. k # NULL
  BY <1>3, Slots
<1>5. CASE /\ UNCHANGED <<heap, accepted_fd_, input>>
           /\ waiting' = IF waiting > 0 THEN waiting - 1 ELSE 0
  <2>1. waiting' \in 0..clients /\ waiting' <= waiting
    BY <1>2, <1>5, Numbers
  <2>2. TypeOK' /\ Counted'
    <3>1. TypeOK'
      BY <1>1, <1>5, <2>1 DEF Inv, TypeOK
    <3>2. Counted'
      BY <1>1, <1>2, <1>3, <1>5, <2>1, Numbers DEF Inv, Counted
    <3> QED BY <3>1, <3>2
  <2>3. InStep' /\ Before' /\ HeapOK(heap')
    BY <1>1, <1>4, <1>5 DEF Inv, InStep, Before, Served
  <2>4. Fresh' /\ Standing'
    BY <1>1, <1>4, <1>5 DEF Inv, Fresh, Standing, Walking, Ahead
  <2>5. Leftover'
    BY <1>1, <1>4, <1>5 DEF Inv, Leftover, Doomed, Walking
  <2> QED BY <2>2, <2>3, <2>4, <2>5 DEF Inv
<1>6. CASE /\ waiting > 0 /\ waiting' = waiting - 1 /\ accepted_fd_' = Conn /\ input' = "none"
           /\ \E g \in selecter_add(heap, Conn, READABLE) : heap' = Toggle(g, READABLE, 1)
  <2>1. PICK g \in selecter_add(heap, Conn, READABLE) : heap' = Toggle(g, READABLE, 1)
    BY <1>6
  <2>2. /\ HeapOK(heap') /\ Trims(heap, heap')
        /\ ~heap'.dead => \E j \in Chunk : Reader(heap', j, Conn)
    BY <1>2, <1>3, <2>1, SwitchOK, Distinct
  <2>3. waiting' \in 0..clients /\ Counted'
    <3>1. accepted_fd_' # 0
      BY <1>6, Distinct
    <3> QED BY <1>1, <1>2, <1>3, <1>6, <3>1, Numbers DEF Inv, Counted
  <2>4. TypeOK'
    BY <1>1, <1>6, <2>2, <2>3, HeapFacts DEF Inv, TypeOK, Heap
  <2>5. InStep' /\ Leftover'
    BY <1>6, <2>2, Distinct DEF InStep, Served, Leftover
  <2>6. Before'
    <3>1. SUFFICES ASSUME closes = 0
                   PROVE  /\ ~heap'.dead /\ At(heap', sel) # NULL /\ pending = FALSE
                          /\ Serving(heap', FALSE)
      BY <1>1, <1>6, Distinct DEF Before
    <3>2. Untouched(heap) /\ pending = FALSE
      BY <1>2, <1>3, <3>1 DEF Inv, Before, TypeOK
    <3>3. Serving(heap', FALSE) /\ heap'.dead = heap.dead /\ At(heap', sel) # NULL
      BY <1>2, <1>3, <2>1, <3>2, FirstClient
    <3> QED BY <1>2, <3>2, <3>3
  <2>7. Fresh' /\ Standing'
    BY <1>1, <1>4, <2>2, ReadKeeps
  <2> QED BY <2>2, <2>3, <2>4, <2>5, <2>6, <2>7 DEF Inv
<1> QED BY <1>3, <1>5, <1>6 DEF on_accept

LEMMA OnReadInv == ASSUME Inv, on_read, UNCHANGED build PROVE Inv'
<1> DEFINE k == At(heap, sel)
<1>1. /\ UNCHANGED <<rfs, wfs, sel, pending, active_, clients, waiting, frames, build>>
      /\ pc' = "write" /\ pc = "read" /\ Running /\ Fires(READABLE, rfs) /\ Current.fd_ = Conn
  BY DEF on_read, ReadReturns, sets
<1>2. HeapOK(heap) /\ sel \in Slot /\ TypeOK /\ ~heap.dead
  BY <1>1 DEF Inv, TypeOK, Running
<1>3. Reader(heap, k, Conn) /\ k \in Chunk \ {2} /\ accepted_fd_ # 0
  BY <1>1, DueIsReader, Distinct DEF Served
<1>4. k # NULL
  BY <1>3, Slots
<1>5. CASE /\ input' = IF input = "data" THEN "none" ELSE input
           /\ UNCHANGED <<heap, accepted_fd_, closes>>
  <2>1. TypeOK'
    BY <1>1, <1>5 DEF Inv, TypeOK
  <2>2. Counted' /\ InStep' /\ Before' /\ HeapOK(heap')
    BY <1>1, <1>4, <1>5 DEF Inv, Counted, InStep, Before, Served
  <2>3. Fresh' /\ Standing'
    BY <1>1, <1>4, <1>5 DEF Inv, Fresh, Standing, Walking, Ahead
  <2>4. Leftover'
    BY <1>3, <1>5 DEF Leftover
  <2> QED BY <2>1, <2>2, <2>3, <2>4 DEF Inv
<1>6. CASE /\ accepted_fd_' = 0 /\ input' = "none" /\ closes' = closes + 1
           /\ \E g \in selecter_add(heap, Listen, READABLE) : heap' = Toggle(g, READABLE, 1)
  <2>1. PICK g \in selecter_add(heap, Listen, READABLE) : heap' = Toggle(g, READABLE, 1)
    BY <1>6
  <2>2. /\ HeapOK(heap') /\ Trims(heap, heap')
        /\ ~heap'.dead => \E j \in Chunk : /\ Reader(heap', j, Listen)
                                           /\ List(heap') \subseteq List(heap) \cup {j}
                                           /\ \A d \in Chunk \ {j} :
                                                heap'.node[d].fd_ = heap.node[d].fd_
    BY <1>2, <1>3, <2>1, SwitchOK, Distinct
  <2>3. closes' \in 0..clients /\ closes' # 0 /\ Counted'
    BY <1>1, <1>2, <1>3, <1>6, Numbers DEF Inv, Counted
  <2>4. TypeOK'
    BY <1>1, <1>6, <2>2, <2>3, HeapFacts DEF Inv, TypeOK, Heap
  <2>5. InStep' /\ Before'
    BY <1>6, <2>2, <2>3 DEF InStep, Served, Before
  <2>6. Fresh' /\ Standing'
    BY <1>1, <1>4, <2>2, ReadKeeps
  <2>7. Running' => Leftover'
    <3>1. SUFFICES ASSUME ~heap'.dead, At(heap', sel) # NULL, NEW c \in List(heap'),
                          heap'.node[c].fd_ = Conn
                   PROVE  c \in Reach(heap', sel)
      BY <1>1 DEF Running, Leftover, Doomed, Walking
    <3>2. PICK j \in Chunk : /\ Reader(heap', j, Listen)
                             /\ List(heap') \subseteq List(heap) \cup {j}
                             /\ \A d \in Chunk \ {j} : heap'.node[d].fd_ = heap.node[d].fd_
      BY <2>2, <3>1
    <3>3. c # j /\ c \in Chunk
      BY <2>2, <3>1, <3>2, HeapFacts, Distinct DEF Reader
    <3>4. c \in List(heap) /\ heap.node[c].fd_ = Conn
      BY <3>1, <3>2, <3>3
    <3>5. heap.node[c].state = "live" /\ heap.node[k].state = "live"
      BY <1>2, <1>3, <3>3, <3>4, HeapFacts, Distinct DEF Reader, Nodes, NodeOK
    <3>6. c = k
      BY <1>2, <1>3, <3>4, <3>5, HeapFacts DEF Reader, Single
    <3>7. At(heap', sel) = k
      BY <1>2, <1>4, <2>2, <3>1 DEF Trims
    <3> QED BY <1>2, <1>4, <2>2, <3>6, <3>7, HeapFacts, ReachUnfold
  <2> QED BY <2>2, <2>3, <2>4, <2>5, <2>6, <2>7 DEF Inv
<1> QED BY <1>5, <1>6 DEF on_read

LEMMA CameraProcInv == ASSUME Inv, camera_proc, UNCHANGED build PROVE Inv'
<1>1. /\ UNCHANGED <<waiting, build>> /\ pc = "read" /\ Running /\ Fires(READABLE, rfs)
      /\ Current.fd_ = Channel /\ frames > 0 /\ frames' = frames - 1
      /\ \/ accepted_fd_ # 0 /\ Send
         \/ ReadReturns /\ UNCHANGED <<heap, server, input, closes>>
  BY DEF camera_proc
<1>2. HeapOK(heap) /\ sel \in Slot /\ TypeOK /\ ~heap.dead
  BY <1>1 DEF Inv, TypeOK, Running
<1>3. At(heap, sel) = 2
  BY <1>1, <1>2, HeapFacts, AtType DEF Fires, Current, Nodes, NodeOK
<1>4. 2 # NULL /\ frames' \in 0..MaxFrames
  <2>1. frames - 1 \in 0..MaxFrames
    BY <1>1, <1>2, Numbers, EventLoopAssumption
  <2> QED BY <1>1, <2>1, Slots
<1>5. ASSUME accepted_fd_ # 0 PROVE \E r \in Chunk : Reader(heap, r, Conn)
  BY <1>2, <1>5 DEF Inv, InStep, Served
<1>6. CASE ReadReturns /\ UNCHANGED <<heap, server, input, closes>>
  <2>1. /\ UNCHANGED <<heap, rfs, wfs, sel, accepted_fd_, pending, active_, clients, input, closes>>
        /\ pc' = "write"
    BY <1>6 DEF ReadReturns, server, sets
  <2>2. TypeOK'
    BY <1>1, <1>4, <2>1 DEF Inv, TypeOK
  <2>3. Counted' /\ InStep' /\ Before' /\ HeapOK(heap')
    BY <1>1, <1>3, <1>4, <2>1 DEF Inv, Counted, InStep, Before, Served
  <2>4. Trims(heap, heap')
    BY <2>1 DEF Trims
  <2>5. Fresh' /\ Standing'
    BY <1>1, <1>3, <1>4, <2>1, <2>3, <2>4, ReadKeeps
  <2>6. Leftover'
    BY <1>1, <1>3, <1>4, <2>1 DEF Inv, Leftover, Doomed, Walking
  <2> QED BY <2>2, <2>3, <2>5, <2>6 DEF Inv
<1>7. CASE /\ accepted_fd_ # 0 /\ pending' = TRUE
           /\ heap' \in selecter_add(heap, Conn, WRITEABLE)
           /\ ReadReturns /\ UNCHANGED <<accepted_fd_, input, closes>>
  <2>1. /\ UNCHANGED <<rfs, wfs, sel, accepted_fd_, active_, clients, input, closes>>
        /\ pc' = "write"
    BY <1>7 DEF ReadReturns, sets
  <2>2. PICK r \in Chunk : Reader(heap, r, Conn)
    BY <1>5, <1>7
  <2>3. /\ r # 2 /\ Refitted(heap, heap', r, heap.node[r].sel_fn_ \cup {WRITEABLE})
        /\ HeapOK(heap') /\ Trims(heap, heap') /\ List(heap') = List(heap)
    BY <1>2, <1>7, <2>2, AskMoreOK, Distinct
  <2>4. TypeOK'
    BY <1>1, <1>4, <1>7, <2>1, <2>3, HeapFacts DEF Inv, TypeOK, Heap
  <2>5. Reader(heap', r, Conn)
    BY <2>2, <2>3, Distinct DEF Reader, Refitted
  <2>6. InStep' /\ Counted' /\ Leftover'
    BY <1>1, <1>7, <2>1, <2>5 DEF Inv, InStep, Counted, Served, Leftover
  <2>7. Before'
    <3>1. SUFFICES ASSUME closes = 0
                   PROVE  ~heap'.dead /\ At(heap', sel) # NULL /\ Serving(heap', TRUE)
      BY <1>7, <2>1 DEF Before
    <3>2. Serving(heap, pending)
      BY <1>7, <3>1 DEF Inv, Before
    <3>3. Serving(heap', TRUE)
      BY <1>2, <1>7, <2>2, <3>2, MoreOutput
    <3> QED BY <1>2, <1>3, <1>4, <2>3, <3>3 DEF Refitted, Alike
  <2>8. Fresh' /\ Standing'
    BY <1>1, <1>3, <1>4, <2>1, <2>3, ReadKeeps
  <2> QED BY <2>3, <2>4, <2>6, <2>7, <2>8 DEF Inv
<1>8. CASE /\ accepted_fd_ # 0 /\ accepted_fd_' = 0 /\ input' = "none" /\ closes' = closes + 1
           /\ heap' \in selecter_add(selecter_remove(heap, Conn, READABLE), Listen, READABLE)
           /\ ReadReturns /\ UNCHANGED pending
  <2>1. UNCHANGED <<rfs, wfs, sel, active_, clients>> /\ pc' = "write"
    BY <1>8 DEF ReadReturns, sets
  <2>2. PICK r \in Chunk : Reader(heap, r, Conn)
    BY <1>5, <1>8
  <2>3. /\ HeapOK(heap') /\ Trims(heap, heap')
        /\ ~heap'.dead => \E j \in Chunk : Reader(heap', j, Listen)
    BY <1>2, <1>8, <2>2, MoveOK, Distinct
  <2>4. closes' \in 0..clients /\ closes' # 0 /\ Counted'
    BY <1>1, <1>2, <1>8, <2>1, Numbers DEF Inv, Counted
  <2>5. TypeOK'
    BY <1>1, <1>4, <1>8, <2>1, <2>3, <2>4, HeapFacts DEF Inv, TypeOK, Heap
  <2>6. InStep' /\ Before'
    BY <1>8, <2>3, <2>4 DEF InStep, Served, Before
  <2>7. Fresh' /\ Standing'
    BY <1>1, <1>3, <1>4, <2>1, <2>3, ReadKeeps
  <2>8. Leftover'
    <3>1. SUFFICES ASSUME At(heap', sel) # NULL, NEW c \in List(heap'), heap'.node[c].fd_ = Conn
                   PROVE  c \in Reach(heap', sel)
      BY <2>1 DEF Leftover, Doomed, Walking
    <3>2. At(heap', sel) = 2
      BY <1>2, <1>3, <1>4, <2>3, <3>1 DEF Trims
    <3>3. sel = 1
      BY <1>2, <2>3, <3>2, HeapFacts, AtHead, Slots DEF CameraLinked
    <3>4. /\ heap'.node[1].fd_ # Conn /\ heap'.node[2].fd_ # Conn /\ At(heap', Head) = 1
      BY <2>3, <3>2, <3>3, HeapFacts, AtHead, Slots, Distinct
         DEF CameraLinked, Nodes, NodeOK
    <3>5. List(heap') = {1} \cup Reach(heap', 1)
      BY <2>3, <3>4, HeapFacts, ReachUnfold, Slots DEF List
    <3> QED BY <3>1, <3>3, <3>4, <3>5
  <2> QED BY <2>3, <2>4, <2>5, <2>6, <2>7, <2>8 DEF Inv
<1>9. CASE /\ pc' = "killed"
           /\ UNCHANGED <<heap, sets, sel, server, active_, clients, input, closes>>
  <2>1. UNCHANGED <<heap, rfs, wfs, sel, accepted_fd_, pending, active_, clients, input, closes>>
    BY <1>9 DEF sets, server
  <2>2. TypeOK'
    BY <1>1, <1>4, <1>9, <2>1 DEF Inv, TypeOK
  <2>3. Counted' /\ InStep' /\ Before' /\ HeapOK(heap')
    BY <1>1, <1>9, <2>1 DEF Inv, Counted, InStep, Before, Served
  <2> QED BY <1>9, <2>2, <2>3 DEF Inv, Running
<1> QED BY <1>1, <1>6, <1>7, <1>8, <1>9 DEF Send

-----------------------------------------------------------------------------
(* The invariant, and what follows *)

LEMMA NextInv == ASSUME Inv, [Next]_vars PROVE Inv'
<1>1. CASE Next
  <2>1. UNCHANGED build
    BY <1>1 DEF Next
  <2> QED BY <1>1, <2>1, PollFailsInv, PollInv, ExitInv, EndOfListInv, SkipReadInv, OnAcceptInv,
             OnReadInv, CameraProcInv, SkipWriteInv, OnWriteInv, ReapInv, OutsideInv
         DEF Next, Main
<1>2. CASE UNCHANGED vars
  <2>1. UNCHANGED <<build, heap, rfs, wfs, pc, sel, accepted_fd_, pending, active_, waiting,
                    clients, input, frames, closes>>
    BY <1>2 DEF vars, sets, loop, server, world
  <2>2. TypeOK'
    BY <2>1 DEF Inv, TypeOK
  <2>3. Counted' /\ InStep' /\ Before' /\ HeapOK(heap')
    BY <2>1 DEF Inv, Counted, InStep, Before, Served
  <2>4. Running' => Fresh' /\ Standing' /\ Leftover'
    BY <2>1 DEF Inv, Running, Fresh, Standing, Leftover, Walking, Ahead, Doomed
  <2> QED BY <2>2, <2>3, <2>4 DEF Inv
<1> QED BY <1>1, <1>2

LEMMA SpecInv == Spec => []Inv
BY InitInv, NextInv, PTL DEF Spec

LEMMA WatchedIs ==
  ASSUME Inv, ~heap.dead, NEW fd \in {Listen, Conn}
  PROVE  Watched(fd, READABLE) <=> Served = fd
<1>1. HeapOK(heap)
  BY DEF Inv
<1>2. PICK r \in Chunk : Reader(heap, r, Served)
  BY DEF Inv, InStep
<1>3. r # 2 /\ READABLE \in heap.node[r].sel_fn_ /\ heap.node[r].fd_ = Served
  BY <1>1, <1>2, HeapFacts, Distinct DEF Reader, Nodes, NodeOK, Served
<1>4. ASSUME Served = fd PROVE Watched(fd, READABLE)
  BY <1>1, <1>2, <1>3, <1>4, HeapFacts DEF Watched, Reader
<1>5. ASSUME Watched(fd, READABLE) PROVE Served = fd
  <2>1. PICK c \in List(heap) : heap.node[c].fd_ = fd /\ READABLE \in heap.node[c].sel_fn_
    BY <1>1, <1>5, HeapFacts DEF Watched
  <2>2. c \in Chunk \ {2}
    BY <1>1, <2>1, HeapFacts, Distinct DEF Nodes, NodeOK
  <2> QED BY <1>2, <1>3, <2>1, <2>2 DEF Reader
<1> QED BY <1>4, <1>5

(* select.c, server.c:115-134, 180-218: descriptors, cursor, interest and  *)
(* counts stay within their types, a closed connection having been one.    *)
THEOREM LoopTypeOK == Spec => []TypeOK
<1>1. Inv => TypeOK
  BY DEF Inv
<1> QED BY <1>1, SpecInv, PTL

(* select.c:26-52: in a heap of any size, the list never holds two pollers *)
(* of one descriptor.                                                      *)
THEOREM LoopOnePollerPerFd == Spec => []OnePollerPerFd
<1>1. Inv => OnePollerPerFd
  BY HeapFacts DEF Inv, OnePollerPerFd, Single
<1> QED BY <1>1, SpecInv, PTL

(* server.c:82-88, 115-134, 190-197: the loop reads from the connection    *)
(* when there is one and else waits for a client, whatever was freed.      *)
THEOREM LoopInterestFollowsConnection == Spec => []InterestFollowsConnection
<1>1. ASSUME Inv PROVE InterestFollowsConnection
  <2>1. SUFFICES ASSUME ~heap.dead
                 PROVE  /\ Watched(Listen, READABLE) <=> accepted_fd_ = 0
                        /\ Watched(Conn, READABLE) <=> accepted_fd_ # 0
    BY DEF InterestFollowsConnection, AtPoll, Running
  <2> QED BY <1>1, <2>1, WatchedIs, Distinct DEF Served
<1> QED BY <1>1, SpecInv, PTL

(* select.c:26-52, 144-149, server.c:91-113, main.c:68: until a connection *)
(* is closed the camera's poller is on the list, no pointer is null, and   *)
(* the loop waits to write exactly while sendbuf_ holds bytes.             *)
THEOREM LoopUntilClose == Spec => []UntilClose
<1>1. ASSUME Inv, closes = 0
      PROVE  /\ Watched(Channel, READABLE) /\ (heap.dead => "abort" \in build)
             /\ Watched(Conn, WRITEABLE) <=> pending
  <2>1. /\ HeapOK(heap) /\ (heap.dead => "abort" \in build) /\ TypeOK
        /\ IF accepted_fd_ = 0 THEN ~pending /\ Untouched(heap) ELSE Serving(heap, pending)
    BY <1>1 DEF Inv, Before
  <2>2. 2 \in Chunk /\ heap.node[2].fd_ = Channel /\ heap.node[2].sel_fn_ = {READABLE}
    BY <2>1, HeapFacts, Slots DEF Nodes, NodeOK
  <2>3. CASE accepted_fd_ = 0
    <3>1. List(heap) = {1, 2} /\ heap.node[1].fd_ # Conn /\ ~pending
      BY <2>1, <2>3, UntouchedList
    <3> QED BY <2>1, <2>2, <3>1, HeapFacts, Distinct DEF Watched
  <2>4. CASE accepted_fd_ # 0
    <3>1. List(heap) = {1, 2, 3} /\ heap.node[1].fd_ # Conn /\ Serving(heap, pending)
      BY <2>1, <2>4, ServingList
    <3> QED BY <2>1, <2>2, <3>1, HeapFacts, Distinct DEF Watched, Serving
  <2> QED BY <2>3, <2>4
<1>2. Inv => UntilClose
  BY <1>1 DEF UntilClose, SoundUntilClose, WriteInterestUntilClose
<1> QED BY <1>2, SpecInv, PTL

(* main.c:134, server.c:38, 121: no read callback is called on a bit that  *)
(* an earlier callback of the walk made stale.                             *)
THEOREM LoopReadyBitsAreFresh == Spec => []ReadyBitsAreFresh
<1>1. ASSUME Inv, Running, pc = "read", Fires(READABLE, rfs)
      PROVE  /\ Current.fd_ = Listen => accepted_fd_ = 0
             /\ Current.fd_ = Channel => frames > 0
             /\ Current.fd_ = Conn => accepted_fd_ # 0
  <2>1. ASSUME Current.fd_ # Channel PROVE Current.fd_ = Served
    BY <1>1, <2>1, DueIsReader
  <2>2. ASSUME Current.fd_ = Channel PROVE frames > 0
    <3>1. HeapOK(heap) /\ sel \in Slot /\ At(heap, sel) # NULL /\ Channel \in rfs
      BY <1>1, <2>2 DEF Inv, TypeOK, Fires
    <3>2. At(heap, sel) = 2
      BY <2>2, <3>1, HeapFacts, AtType DEF Current, Nodes, NodeOK
    <3>3. 2 \in Reach(heap, sel)
      BY <3>1, <3>2, HeapFacts, ReachUnfold
    <3> QED BY <1>1, <3>1, <3>3 DEF Inv, Fresh, Walking, Ahead
  <2> QED BY <2>1, <2>2, Distinct DEF Served
<1>2. Inv => ReadyBitsAreFresh
  BY <1>1 DEF ReadyBitsAreFresh
<1> QED BY <1>2, SpecInv, PTL

(* select.c:122-127: where a freed poller looks inert, select fails only   *)
(* for a poller of a closed connection that still asks to write.           *)
THEOREM LoopPollFailsOnlyAfterLostOutput == Spec => PollFailsOnlyAfterLostOutput
<1>1. ASSUME Inv, PollFails, build = {} PROVE accepted_fd_ = 0 /\ Watched(Conn, WRITEABLE)
  <2>1. /\ HeapOK(heap) /\ pc = "poll" /\ Running /\ rfs \subseteq Fd /\ wfs \subseteq Fd
    BY <1>1 DEF Inv, TypeOK, PollFails
  <2>2. PICK nfds \in Nfds(heap) : BadFd(nfds)
    BY <1>1 DEF PollFails
  <2>3. Conn <= nfds /\ accepted_fd_ = 0
    BY <2>2 DEF BadFd, Open
  <2>4. \E c \in List(heap) : heap.node[c].fd_ = Conn
    <3> DEFINE fds == {heap.node[c].fd_ : c \in OnList(heap)} \cup {0}
               Top(m) == m \in fds /\ \A n \in fds : n <= m
    <3>1. nfds = CHOOSE m \in 0..Conn : Top(m)
      BY <1>1, <2>2 DEF Nfds
    <3>2. fds \subseteq Fd \cup {0}
      BY <2>1, HeapFacts, Distinct DEF Nodes, NodeOK
    <3>3. \E m \in 0..Conn : Top(m)
      <4>1. CASE Conn \in fds
        BY <3>2, <4>1 DEF Fd, Listen, Channel, Conn
      <4>2. CASE Conn \notin fds /\ Channel \in fds
        BY <3>2, <4>2 DEF Fd, Listen, Channel, Conn
      <4>3. CASE Conn \notin fds /\ Channel \notin fds /\ Listen \in fds
        BY <3>2, <4>3 DEF Fd, Listen, Channel, Conn
      <4>4. CASE fds = {0}
        BY <4>4 DEF Conn
      <4> QED BY <3>2, <4>1, <4>2, <4>3, <4>4 DEF Fd
    <3>4. nfds \in 0..Conn /\ nfds \in fds
      BY <3>1, <3>3
    <3>5. nfds = Conn
      BY <2>3, <3>4 DEF Conn
    <3> QED BY <2>1, <3>4, <3>5, HeapFacts, Distinct
  <2>5. PICK c \in List(heap) : heap.node[c].fd_ = Conn
    BY <2>4
  <2>6. heap.node[c].sel_fn_ # {}
    BY <1>1, <2>1, <2>3, <2>5 DEF Inv, Leftover, Doomed, Walking
  <2>7. READABLE \notin heap.node[c].sel_fn_
    BY <1>1, <2>1, <2>3, <2>5, WatchedIs, HeapFacts, Distinct DEF Watched, Served, Running
  <2>8. WRITEABLE \in heap.node[c].sel_fn_
    <3>1. c \in Chunk /\ heap \in Heap
      BY <2>1, <2>5, HeapFacts
    <3>2. heap.node[c].sel_fn_ \subseteq {READABLE, WRITEABLE}
      BY <3>1 DEF Heap, Poller
    <3> QED BY <2>6, <2>7, <3>2
  <2> QED BY <2>1, <2>3, <2>5, <2>8, HeapFacts DEF Watched
<1>2. Inv => [PollFails /\ build = {} => accepted_fd_ = 0 /\ Watched(Conn, WRITEABLE)]_vars
  BY <1>1
<1> QED BY <1>2, SpecInv, PTL DEF PollFailsOnlyAfterLostOutput

(* select.c:26-52, 101-151: however pollers are freed and chunks are used  *)
(* again while a walk stands in the list, the list never closes to a ring: *)
(* from every slot of it, following next_ comes to an end.                 *)
THEOREM LoopListEnds ==
  Spec => [](/\ \A c \in OnList(heap) : c \notin Reach(heap, c)
             /\ \E e \in {Head} \cup OnList(heap) : At(heap, e) = NULL)
<1>1. Inv => /\ \A c \in OnList(heap) : c \notin Reach(heap, c)
             /\ \E e \in {Head} \cup OnList(heap) : At(heap, e) = NULL
  BY HeapFacts DEF Inv, Sane
<1> QED BY <1>1, SpecInv, PTL
=============================================================================
