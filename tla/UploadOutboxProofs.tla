------------------------- MODULE UploadOutboxProofs -------------------------
(***************************************************************************)
(* Proofs about the pending-upload worker, for every finite set of QSOs    *)
(* and destinations, every capacity and every behaviour of the services:   *)
(* what the queue file holds, and that the worker implements the durable   *)
(* queue.                                                                  *)
(***************************************************************************)
EXTENDS UploadOutbox, FiniteSetTheorems, WellFoundedInduction, TLAPS

\* The queue itself: it keeps its capacity, a held entry has been tried, a
\* tried one is queued, and the order of attempts is an antisymmetric relation
\* over the entries.
StoreOK(s) ==
    /\ s \in StoreType
    /\ Cardinality(s.entries) <= Capacity
    /\ s.held \subseteq s.tried /\ s.tried \subseteq s.entries
    /\ s.ahead \subseteq s.entries \X s.entries
    /\ \A u, v \in s.entries : <<u, v>> \in s.ahead => <<v, u>> \notin s.ahead

\* The worker of a process that is not running has nothing in memory.
DownIsEmpty ==
    pc = "down" =>
        /\ done = {} /\ store = EmptyStore /\ unsaved = {} /\ ~blocked
        /\ retry = "none" /\ sending = {} /\ results = {}
        /\ events = <<>> /\ inbox = <<>> /\ phase = "run"

\* Where the worker goes on after a write; a blocked queue is never written.
WriteHasAReturn == pc = "write" => after # "idle" /\ ~blocked

\* Only the running loop is at its top or dispatches; the drain does not.
TopIsRun ==
    (pc \in {"top", "dispatch"} \/ (pc = "write" /\ after \in {"top", "dispatch"}))
        => phase = "run"

\* A destination has at most one upload under way, sent or answered, and its
\* lane is busy meanwhile.
OneInFlight ==
    /\ \A u \in sending : /\ lane[u[2]].busy
                          /\ \A v \in sending : u[2] = v[2] => u = v
    /\ \A r \in results : /\ lane[r[1][2]].busy
                          /\ \A u \in sending : u[2] # r[1][2]
                          /\ \A t \in results : t[1][2] = r[1][2] => t = r

\* An answer that says accepted is true.
AcceptedArrived == \A u \in Upload : <<u, "accepted">> \in results => u \in arrived

\* What has been saved is in the file, and only that is under way.
SavedIsOnDisk ==
    /\ store.entries \ unsaved \subseteq disk.entries
    /\ sending \cap unsaved = {}
    /\ \A r \in results : r[1] \notin unsaved

\* What the file still holds and memory does not has arrived.
GoneHasArrived ==
    (pc # "down" /\ ~blocked) => disk.entries \ store.entries \subseteq arrived

\* A subscriber that is gone has drained its events, and when the worker has
\* seen every handle go, nothing is left to come.
NothingToCome ==
    /\ ~subscriber => events = <<>>
    /\ pc # "down" /\ ~open => inbox = <<>> /\ ~subscriber

Queued(q, s) == \E i \in DOMAIN s : s[i] = q

\* Until the channel is closed over a live handle, every completed QSO is
\* waiting, or each of its uploads is queued, arrived or was refused.
DoneIsTracked ==
    (phase # "rest" \/ ~open) =>
        \A q \in done : \/ Queued(q, events) \/ Queued(q, inbox)
                        \/ {q} \X enabled \subseteq store.entries \cup arrived \cup refused

\* The inductive invariant.
OutboxInv ==
    /\ TypeOK
    /\ StoreOK(store) /\ StoreOK(disk)
    /\ DownIsEmpty /\ WriteHasAReturn /\ TopIsRun
    /\ OneInFlight /\ AcceptedArrived
    /\ SavedIsOnDisk /\ GoneHasArrived
    /\ DiskBehindIsMarked
    /\ NothingToCome /\ DoneIsTracked

-----------------------------------------------------------------------------
(* OutboxStore.                                                            *)

\* The capacity is a number.
LEMMA CapacityIsNat == Capacity \in Nat
BY OutboxAssumption

\* There are finitely many uploads.
LEMMA UploadIsFinite == IsFiniteSet(Upload)
BY OutboxAssumption, FS_Product DEF Upload

\* The empty queue is a queue.
LEMMA EmptyStoreOK == StoreOK(EmptyStore)
BY FS_EmptySet, CapacityIsNat DEF StoreOK, EmptyStore, StoreType

\* Releasing the held entries keeps everything queued.
LEMMA ReleaseHeldOK ==
    ASSUME NEW s, StoreOK(s)
    PROVE  /\ StoreOK(ReleaseHeld(s))
           /\ ReleaseHeld(s).entries = s.entries
           /\ s.held = {} => ReleaseHeld(s) = s
BY DEF StoreOK, ReleaseHeld, StoreType

\* A delivered upload leaves the queue, and no other does.
LEMMA DeliveredOK ==
    ASSUME NEW s, StoreOK(s), NEW u \in Upload
    PROVE  /\ StoreOK(Delivered(s, u))
           /\ Delivered(s, u).entries = s.entries \ {u}
<1>1. s.entries \subseteq Upload
  BY DEF StoreOK, StoreType
<1>2. IsFiniteSet(s.entries) /\ Cardinality(s.entries) \in Nat
  BY <1>1, UploadIsFinite, FS_Subset, FS_CardinalityType
<1>3. Cardinality(s.entries \ {u}) <= Capacity
  <2>1. /\ Cardinality(s.entries \ {u}) <= Cardinality(s.entries)
        /\ Cardinality(s.entries \ {u}) \in Nat
    BY <1>2, FS_Subset, FS_CardinalityType
  <2>2. QED
    BY <1>2, <2>1, CapacityIsNat DEF StoreOK
<1>4. QED
  BY <1>3 DEF StoreOK, Delivered, Without, StoreType

\* A failed upload stays queued, behind every other of its destination.
LEMMA RecordFailureOK ==
    ASSUME NEW s, StoreOK(s), NEW u \in Upload
    PROVE  /\ StoreOK(RecordFailure(s, u))
           /\ RecordFailure(s, u).entries = s.entries
           /\ RecordFailure(s, u).held = s.held
           /\ u \in s.entries => u \in RecordFailure(s, u).tried
<1>1. CASE u \notin s.entries
  BY <1>1 DEF RecordFailure
<1>2. CASE u \in s.entries
  <2> DEFINE t == RecordFailure(s, u)
  <2>1. /\ t.entries = s.entries /\ t.held = s.held
        /\ t.tried = s.tried \cup {u}
        /\ t.ahead = Without(s, u) \cup {<<v, u>> : v \in Same(s, u)}
        /\ t = [entries |-> t.entries, held |-> t.held, tried |-> t.tried,
                ahead |-> t.ahead]
    BY <1>2 DEF RecordFailure, StoreOK, StoreType
  <2> HIDE DEF t
  <2>2. /\ t.ahead \subseteq s.entries \X s.entries
        /\ \A v, w \in s.entries : <<v, w>> \in t.ahead => <<w, v>> \notin t.ahead
    BY <1>2, <2>1 DEF StoreOK, StoreType, Without, Same
  <2>3. t \in StoreType
    <3>1. /\ t.entries \in SUBSET Upload /\ t.held \in SUBSET Upload
          /\ t.tried \in SUBSET Upload /\ t.ahead \in SUBSET (Upload \X Upload)
      BY <1>2, <2>1, <2>2 DEF StoreOK, StoreType
    <3>2. QED
      BY <2>1, <3>1 DEF StoreType
  <2>4. StoreOK(t)
    BY <1>2, <2>1, <2>2, <2>3 DEF StoreOK
  <2>5. QED
    BY <2>1, <2>4 DEF t
<1>3. QED
  BY <1>1, <1>2

\* A held upload stays queued too.
LEMMA HoldOK ==
    ASSUME NEW s, StoreOK(s), NEW u \in Upload
    PROVE  StoreOK(Hold(s, u)) /\ Hold(s, u).entries = s.entries
<1> DEFINE t == RecordFailure(s, u)
<1>1. /\ StoreOK(t) /\ t.entries = s.entries
      /\ u \in s.entries => u \in t.tried
  BY RecordFailureOK
<1> HIDE DEF t
<1>2. Hold(s, u) = IF u \in s.entries THEN [t EXCEPT !.held = @ \cup {u}] ELSE s
  BY DEF Hold, t
<1>3. QED
  BY <1>1, <1>2 DEF StoreOK, StoreType

\* A set of uploads of one QSO that is not empty has one with the last
\* destination in display order.
LEMMA LastDestination ==
    ASSUME NEW S \in SUBSET Upload, IsFiniteSet(S), S # {}
    PROVE  \E u \in S : \A v \in S : v[2] <= u[2]
<1> DEFINE Above(u) == {v \in S : v[2] > u[2]}
           Counts == {Cardinality(Above(u)) : u \in S}
<1>1. \A u \in S : u[2] \in Nat
  BY OutboxAssumption DEF Upload
<1>2. \A u \in S : IsFiniteSet(Above(u)) /\ Cardinality(Above(u)) \in Nat
  BY FS_Subset, FS_CardinalityType
<1>3. Counts \subseteq Nat /\ Counts # {}
  BY <1>2
<1>4. PICK n \in Counts : \A k \in Counts : ~ (<<k, n>> \in OpToRel(<, Nat))
  BY <1>3, WFMin, NatLessThanWellFounded
<1>5. \A k \in Counts : k >= n
  <2>1. \A k \in Counts : ~ (k < n)
    BY <1>3, <1>4, Zenon DEF OpToRel
  <2>2. n \in Nat
    BY <1>3, <1>4, Zenon
  <2>3. QED
    BY <1>3, <2>1, <2>2
<1>6. PICK u \in S : n = Cardinality(Above(u))
  BY <1>4
<1>9. \A v \in S : Cardinality(Above(v)) >= Cardinality(Above(u))
  BY <1>5, <1>6
<1> HIDE DEF Counts
<1>7. ASSUME NEW v \in S, v[2] > u[2] PROVE FALSE
  <2>1. Above(v) \subseteq Above(u)
    BY <1>1, <1>7
  <2>5. /\ IsFiniteSet(Above(u)) /\ Cardinality(Above(u)) \in Nat
        /\ Cardinality(Above(v)) \in Nat
    BY <1>2
  <2>2. v \in Above(u) /\ v \notin Above(v)
    BY <1>1, <1>7
  <2> HIDE DEF Above
  <2>3. Cardinality(Above(v)) < Cardinality(Above(u))
    <3>1. /\ Cardinality(Above(v)) <= Cardinality(Above(u))
          /\ Cardinality(Above(u)) = Cardinality(Above(v)) => Above(u) = Above(v)
      BY <2>1, <2>5, FS_Subset
    <3>2. QED
      BY <2>2, <2>5, <3>1
  <2>4. QED
    BY <1>9, <2>3, <2>5
<1>8. QED
  BY <1>1, <1>7

\* What fits of a batch is new and no more than the room there is: the queue
\* keeps its capacity (OutboxStore::add).
LEMMA FitsTheRoom ==
    ASSUME NEW s, StoreOK(s), NEW q \in Qso, NEW ds \in SUBSET Dest
    PROVE  LET batch == {q} \X ds
           IN  /\ Fits(s, batch) \subseteq Upload /\ Fits(s, batch) \cap s.entries = {}
               /\ \A u \in Fits(s, batch) : u[1] = q
               /\ Cardinality(s.entries \cup Fits(s, batch)) <= Capacity
<1> DEFINE batch == {q} \X ds
           F == Fits(s, batch)
           Before(u) == {v \in New(s, batch) : v[2] < u[2]}
<1>2. New(s, batch) \subseteq Upload /\ New(s, batch) \cap s.entries = {}
  BY DEF New, Upload
<1>3. /\ F \subseteq New(s, batch)
      /\ \A u \in F : Cardinality(Before(u)) < Capacity - Cardinality(s.entries)
  BY DEF Fits
<1>4. \A u \in New(s, batch) : u[1] = q /\ u = <<q, u[2]>>
  BY DEF New
<1>11. \A u \in New(s, batch) : u[2] \in Nat
  BY OutboxAssumption DEF New
<1> HIDE DEF batch, F
<1>5. /\ IsFiniteSet(F) /\ IsFiniteSet(s.entries)
      /\ Cardinality(F) \in Nat /\ Cardinality(s.entries) \in Nat
  <2>1. F \subseteq Upload /\ s.entries \subseteq Upload
    BY <1>2, <1>3 DEF StoreOK, StoreType
  <2>2. QED
    BY <2>1, UploadIsFinite, FS_Subset, FS_CardinalityType
<1>12. Cardinality(s.entries) <= Capacity
  BY DEF StoreOK
<1>6. Cardinality(F) <= Capacity - Cardinality(s.entries)
  <2>1. CASE F = {}
    <3>1. Cardinality(F) = 0
      BY <2>1, FS_EmptySet
    <3>2. QED
      BY <1>5, <1>12, <3>1, CapacityIsNat
  <2>2. CASE F # {}
    <3>1. PICK u \in F : \A v \in F : v[2] <= u[2]
      BY <1>2, <1>3, <1>5, <2>2, LastDestination
    <3>3. F \ {u} \subseteq Before(u)
      <4> SUFFICES ASSUME NEW v \in F, v # u PROVE v \in Before(u)
        OBVIOUS
      <4>1. /\ v \in New(s, batch) /\ u \in New(s, batch)
            /\ v[2] \in Nat /\ u[2] \in Nat /\ v[2] # u[2]
        BY <1>3, <1>4, <1>11
      <4>2. QED
        BY <3>1, <4>1
    <3>4. IsFiniteSet(Before(u)) /\ Cardinality(Before(u)) \in Nat
      BY <1>2, UploadIsFinite, FS_Subset, FS_CardinalityType
    <3>7. Cardinality(Before(u)) < Capacity - Cardinality(s.entries)
      BY <1>3
    <3> HIDE DEF Before
    <3>5. Cardinality(F) - 1 <= Cardinality(Before(u))
      <4>1. Cardinality(F \ {u}) = Cardinality(F) - 1
        BY <1>5, <3>1, FS_RemoveElement
      <4>2. Cardinality(F \ {u}) <= Cardinality(Before(u))
        BY <3>3, <3>4, FS_Subset
      <4>3. QED
        BY <4>1, <4>2
    <3>6. QED
      BY <1>5, <3>4, <3>5, <3>7, CapacityIsNat
  <2>3. QED
    BY <2>1, <2>2
<1>7. F \cap s.entries = {} /\ F \subseteq Upload /\ \A u \in F : u[1] = q
  BY <1>2, <1>3, <1>4
<1>8. Cardinality(s.entries \cup F) = Cardinality(s.entries) + Cardinality(F)
  <2>1. s.entries \cap F = {}
    BY <1>7
  <2>2. Cardinality(s.entries \cap F) = 0
    BY <2>1, FS_EmptySet
  <2>3. QED
    <3>1. Cardinality(s.entries \cup F)
            = Cardinality(s.entries) + Cardinality(F) - Cardinality(s.entries \cap F)
      BY <1>5, FS_Union
    <3>2. QED
      BY <1>5, <2>2, <3>1
<1>9. Cardinality(s.entries \cup F) <= Capacity
  BY <1>5, <1>6, <1>8, CapacityIsNat
<1>10. QED
  BY <1>7, <1>9 DEF F, batch

\* Adding a batch of one QSO keeps the queue in order.
LEMMA AddOK ==
    ASSUME NEW s, StoreOK(s), NEW q \in Qso, NEW ds \in SUBSET Dest
    PROVE  LET batch == {q} \X ds
           IN  /\ StoreOK(Add(s, batch))
               /\ Add(s, batch).entries = s.entries \cup Fits(s, batch)
               /\ Fits(s, batch) = {} => Add(s, batch) = s
<1> DEFINE batch == {q} \X ds
           F == Fits(s, batch)
           Placed(u) == {IF v \in s.tried THEN <<u, v>> ELSE <<v, u>> : v \in Same(s, u)}
           A == UNION {Placed(u) : u \in F}
           t == Add(s, batch)
<1>1. /\ F \subseteq Upload /\ F \cap s.entries = {} /\ \A u \in F : u[1] = q
      /\ Cardinality(s.entries \cup F) <= Capacity
  BY FitsTheRoom
<1>11. t = [s EXCEPT !.entries = s.entries \cup F, !.ahead = s.ahead \cup A]
  BY DEF Add
<1> HIDE DEF t, F, A
<1>2. /\ t.entries = s.entries \cup F /\ t.held = s.held /\ t.tried = s.tried
      /\ t.ahead = s.ahead \cup A
      /\ t = [entries |-> t.entries, held |-> t.held, tried |-> t.tried,
              ahead |-> t.ahead]
  BY <1>11 DEF StoreOK, StoreType
<1>3. /\ s.entries \subseteq Upload /\ s.ahead \subseteq s.entries \X s.entries
      /\ s.held \subseteq s.tried /\ s.tried \subseteq s.entries
  BY DEF StoreOK, StoreType
<1>4. ASSUME NEW p \in A
      PROVE  \E u \in F, v \in s.entries : \/ p = <<u, v>> /\ v \in s.tried
                                           \/ p = <<v, u>> /\ v \notin s.tried
  BY <1>4 DEF Same, A
<1>5. t.ahead \subseteq t.entries \X t.entries
  BY <1>2, <1>3, <1>4
<1>6. ASSUME NEW u \in t.entries, NEW v \in t.entries,
             <<u, v>> \in t.ahead, <<v, u>> \in t.ahead
      PROVE  FALSE
  <2>1. CASE <<u, v>> \in s.ahead
    <3>1. u \in s.entries /\ v \in s.entries
      BY <1>3, <2>1
    <3>2. <<v, u>> \in s.ahead
      <4>1. <<v, u>> \notin A
        BY <1>1, <1>4, <3>1
      <4>2. QED
        BY <1>2, <1>6, <4>1
    <3>3. QED
      BY <2>1, <3>1, <3>2 DEF StoreOK
  <2>2. CASE <<v, u>> \in s.ahead
    <3>1. u \in s.entries /\ v \in s.entries
      BY <1>3, <2>2
    <3>2. <<u, v>> \in s.ahead
      <4>1. <<u, v>> \notin A
        BY <1>1, <1>4, <3>1
      <4>2. QED
        BY <1>2, <1>6, <4>1
    <3>3. QED
      BY <2>2, <3>1, <3>2 DEF StoreOK
  <2>3. CASE <<u, v>> \notin s.ahead /\ <<v, u>> \notin s.ahead
    <3>1. PICK a \in F, b \in s.entries : \/ <<u, v>> = <<a, b>> /\ b \in s.tried
                                          \/ <<u, v>> = <<b, a>> /\ b \notin s.tried
      BY <1>2, <1>4, <1>6, <2>3
    <3>2. PICK c \in F, d \in s.entries : \/ <<v, u>> = <<c, d>> /\ d \in s.tried
                                          \/ <<v, u>> = <<d, c>> /\ d \notin s.tried
      BY <1>2, <1>4, <1>6, <2>3
    <3>3. QED
      BY <1>1, <3>1, <3>2
  <2>4. QED
    BY <2>1, <2>2, <2>3
<1>7. t \in StoreType
  <2>1. /\ t.entries \in SUBSET Upload /\ t.held \in SUBSET Upload
        /\ t.tried \in SUBSET Upload /\ t.ahead \in SUBSET (Upload \X Upload)
    BY <1>1, <1>2, <1>3, <1>5
  <2>2. QED
    BY <1>2, <2>1 DEF StoreType
<1>8. StoreOK(t)
  BY <1>1, <1>2, <1>3, <1>5, <1>6, <1>7 DEF StoreOK
<1>9. F = {} => t = s
  <2>1. F = {} => t.entries = s.entries /\ t.ahead = s.ahead
    BY <1>2 DEF A
  <2>2. s = [entries |-> s.entries, held |-> s.held, tried |-> s.tried,
             ahead |-> s.ahead]
    BY DEF StoreOK, StoreType
  <2>3. QED
    BY <1>2, <2>1, <2>2
<1>10. QED
  BY <1>2, <1>8, <1>9 DEF t, F

\* At most one entry of a destination is next.
LEMMA NextForUnique ==
    ASSUME NEW s, StoreOK(s), NEW u, NEW v, NEW d,
           u \in NextFor(s, d), v \in NextFor(s, d)
    PROVE  u = v /\ u \in s.entries /\ u[2] = d
BY DEF NextFor, Same, StoreOK

-----------------------------------------------------------------------------
(* The queues of QSOs.                                                     *)

\* The queue after one more QSO.
LEMMA QueuedAppend ==
    ASSUME NEW s \in Seq(Qso), NEW q \in Qso
    PROVE  /\ Append(s, q) \in Seq(Qso) /\ Len(Append(s, q)) = Len(s) + 1
           /\ \A x : Queued(x, Append(s, q)) <=> (Queued(x, s) \/ x = q)
<1>1. /\ Append(s, q) \in Seq(Qso) /\ Len(Append(s, q)) = Len(s) + 1
      /\ Len(s) \in Nat /\ DOMAIN s = 1..Len(s)
      /\ DOMAIN Append(s, q) = 1..(Len(s) + 1)
      /\ \A i \in 1..Len(s) : Append(s, q)[i] = s[i]
      /\ Append(s, q)[Len(s) + 1] = q
  OBVIOUS
<1>2. ASSUME NEW x PROVE Queued(x, Append(s, q)) <=> (Queued(x, s) \/ x = q)
  <2>1. ASSUME NEW i \in 1..(Len(s) + 1) PROVE i \in 1..Len(s) \/ i = Len(s) + 1
    BY <1>1
  <2>2. \A i \in 1..Len(s) : i \in 1..(Len(s) + 1)
    BY <1>1
  <2>3. Len(s) + 1 \in 1..(Len(s) + 1)
    BY <1>1
  <2> HIDE DEF Append
  <2>4. QED
    BY <1>1, <2>1, <2>2, <2>3, Zenon DEF Queued
<1>3. QED
  BY <1>1, <1>2

\* The queue without its first QSO.
LEMMA QueuedTail ==
    ASSUME NEW s \in Seq(Qso), s # <<>>
    PROVE  /\ Head(s) \in Qso /\ Tail(s) \in Seq(Qso) /\ Len(Tail(s)) = Len(s) - 1
           /\ \A x : Queued(x, s) => Queued(x, Tail(s)) \/ x = Head(s)
<1>1. /\ Head(s) \in Qso /\ Tail(s) \in Seq(Qso) /\ Len(Tail(s)) = Len(s) - 1
      /\ Len(s) \in Nat /\ DOMAIN s = 1..Len(s) /\ Head(s) = s[1]
      /\ DOMAIN Tail(s) = 1..(Len(s) - 1)
      /\ \A i \in 1..(Len(s) - 1) : Tail(s)[i] = s[i + 1]
  OBVIOUS
<1>2. ASSUME NEW x, NEW i \in 1..Len(s), s[i] = x
      PROVE  Queued(x, Tail(s)) \/ x = Head(s)
  <2>1. CASE i = 1
    BY <1>1, <1>2, <2>1
  <2>2. CASE i # 1
    <3>1. i - 1 \in 1..(Len(s) - 1) /\ (i - 1) + 1 = i
      BY <1>1, <2>2
    <3>2. Tail(s)[i - 1] = x
      BY <1>1, <1>2, <3>1
    <3>3. QED
      BY <1>1, <3>1, <3>2, Zenon DEF Queued
  <2>3. QED
    BY <2>1, <2>2
<1>3. ASSUME NEW x, Queued(x, s) PROVE Queued(x, Tail(s)) \/ x = Head(s)
  BY <1>1, <1>2, <1>3 DEF Queued
<1>4. QED
  BY <1>1, <1>3
-----------------------------------------------------------------------------
(* The inductive step: the actions that move uploads, one lemma each.      *)

\* Starting the worker: the queue it reads, or puts aside, is the file's.
LEMMA StartStep == OutboxInv /\ Start => OutboxInv'
<1> SUFFICES ASSUME OutboxInv, Start PROVE OutboxInv'
  OBVIOUS
<1>1. /\ pc = "down" /\ phase = "run" /\ done = {} /\ unsaved = {} /\ ~blocked /\ retry = "none"
      /\ sending = {} /\ results = {} /\ events = <<>> /\ inbox = <<>>
  BY DEF OutboxInv, Start, DownIsEmpty
<1>2. /\ StoreOK(disk) /\ StoreOK(EmptyStore) /\ StoreOK(ReleaseHeld(disk))
      /\ ReleaseHeld(disk).entries = disk.entries
      /\ disk.held = {} => ReleaseHeld(disk) = disk
      /\ EmptyStore.entries = {}
  BY EmptyStoreOK, ReleaseHeldOK DEF OutboxInv, EmptyStore
<1>3. /\ done' = {} /\ unsaved' = {} /\ retry' = "none" /\ sending' = {}
      /\ results' = {} /\ events' = <<>> /\ inbox' = <<>> /\ subscriber' /\ open'
      /\ phase' = "run" /\ pc' # "down" /\ pc' \in {"write", "top"}
      /\ pc' = "write" => after' = "top" /\ ~blocked'
  BY <1>1 DEF Start, air, OpenQueue, Quarantine, OutboxInv, TypeOK
<1>4. /\ StoreOK(store)' /\ StoreOK(disk)'
      /\ store'.entries \subseteq disk'.entries
      /\ ~blocked' => store'.entries = disk'.entries
      /\ ~blocked' => disk' = store' \/ pc' = "write"
  BY <1>2 DEF Start, OpenQueue, Quarantine, durable
<1>5. TypeOK'
  <2>1. \A s \in {store', disk'} :
           s \in StoreType /\ s.held \subseteq s.tried /\ s.tried \subseteq s.entries
    BY <1>4 DEF StoreOK
  <2>2. Cardinality(store'.entries) <= Capacity
    BY <1>4 DEF StoreOK
  <2>3. disk.entries \subseteq Upload
    BY <1>2 DEF StoreOK, StoreType
  <2>4. QED
    BY <1>1, <1>3, <2>1, <2>2, <2>3 DEF OutboxInv, TypeOK, Start, OpenQueue,
       Quarantine, durable, air
<1>6. QED
  BY <1>3, <1>4, <1>5 DEF OutboxInv, DownIsEmpty, WriteHasAReturn, TopIsRun, OneInFlight,
     AcceptedArrived, SavedIsOnDisk, GoneHasArrived, DiskBehindIsMarked,
     NothingToCome, DoneIsTracked

\* The end of the process, by a crash or after a stop: only the file is left.
LEMMA VanishStep == OutboxInv /\ Vanish => OutboxInv'
<1> SUFFICES ASSUME OutboxInv, Vanish PROVE OutboxInv'
  OBVIOUS
<1>1. StoreOK(store)' /\ StoreOK(disk)' /\ store'.entries = {}
  BY EmptyStoreOK DEF OutboxInv, Vanish, durable, EmptyStore
<1>2. TypeOK'
  <2>1. lane' \in [Dest -> [busy : BOOLEAN, due : BOOLEAN, rejected : BOOLEAN]]
    BY DEF Vanish, FreshLane
  <2>2. <<>> \in Seq(Qso) /\ Len(<<>>) <= ChannelCap
    BY OutboxAssumption
  <2>3. \A s \in {store', disk'} :
           s \in StoreType /\ s.held \subseteq s.tried /\ s.tried \subseteq s.entries
    BY <1>1 DEF StoreOK
  <2>4. QED
    BY <1>1, <2>1, <2>2, <2>3 DEF Vanish, OutboxInv, TypeOK, StoreOK, durable
<1>3. QED
  BY <1>1, <1>2 DEF Vanish, OutboxInv, DownIsEmpty, WriteHasAReturn, TopIsRun, OneInFlight,
     AcceptedArrived, SavedIsOnDisk, GoneHasArrived, DiskBehindIsMarked,
     NothingToCome, DoneIsTracked, durable

\* A completion handed to the worker stays tracked unless the channel is closed.
LEMMA EnqueueStep == OutboxInv /\ Enqueue => OutboxInv'
<1> SUFFICES ASSUME OutboxInv, Enqueue PROVE OutboxInv'
  OBVIOUS
<1>1. events \in Seq(Qso) /\ events # <<>> /\ inbox \in Seq(Qso)
      /\ Len(inbox) <= ChannelCap /\ ChannelCap \in Nat
  BY OutboxAssumption DEF OutboxInv, TypeOK, Enqueue
<1>2. /\ Head(events) \in Qso /\ events' \in Seq(Qso)
      /\ \A x : Queued(x, events) => Queued(x, events') \/ x = Head(events)
  BY <1>1, QueuedTail DEF Enqueue
<1>3. /\ inbox' \in Seq(Qso) /\ Len(inbox') <= ChannelCap
      /\ \A x : Queued(x, inbox) => Queued(x, inbox')
      /\ ~Closed => Queued(Head(events), inbox')
  <2>1. CASE Closed
    BY <1>1, <2>1 DEF Enqueue
  <2>2. CASE ~Closed
    <3>1. Len(inbox) < ChannelCap /\ inbox' = Append(inbox, Head(events))
      BY <2>2 DEF Enqueue
    <3>2. /\ inbox' \in Seq(Qso) /\ Len(inbox') = Len(inbox) + 1
          /\ \A x : Queued(x, inbox') <=> (Queued(x, inbox) \/ x = Head(events))
      BY <1>1, <1>2, <3>1, QueuedAppend
    <3>3. Len(inbox) \in Nat
      BY <1>1
    <3>4. QED
      BY <1>1, <3>1, <3>2, <3>3
  <2>3. QED
    BY <2>1, <2>2
<1>4. TypeOK'
  BY <1>2, <1>3 DEF OutboxInv, TypeOK, Enqueue, saving, air, durable
<1>5. pc # "down" /\ subscriber /\ open
  BY <1>1 DEF OutboxInv, Enqueue, DownIsEmpty, NothingToCome
<1>6. DoneIsTracked'
  BY <1>2, <1>3, <1>5 DEF OutboxInv, DoneIsTracked, Enqueue, saving, durable, Closed
<1>7. QED
  BY <1>4, <1>5, <1>6 DEF OutboxInv, Enqueue, saving, air, durable, DownIsEmpty,
     WriteHasAReturn, TopIsRun, OneInFlight, AcceptedArrived, SavedIsOnDisk, GoneHasArrived,
     DiskBehindIsMarked, NothingToCome

\* A completed QSO is tracked from the moment it completes.
LEMMA CompleteStep ==
    ASSUME NEW q \in Qso, OutboxInv, Complete(q)
    PROVE  OutboxInv'
<1>1. /\ events' \in Seq(Qso)
      /\ \A x : Queued(x, events') <=> (Queued(x, events) \/ x = q)
  BY QueuedAppend DEF OutboxInv, TypeOK, Complete
<1>2. TypeOK'
  BY <1>1 DEF OutboxInv, TypeOK, Complete, saving, air, durable
<1>3. DoneIsTracked'
  BY <1>1 DEF OutboxInv, DoneIsTracked, Complete, saving, durable
<1>4. QED
  BY <1>2, <1>3 DEF OutboxInv, Complete, saving, air, durable, DownIsEmpty,
     WriteHasAReturn, TopIsRun, OneInFlight, AcceptedArrived, SavedIsOnDisk, GoneHasArrived,
     DiskBehindIsMarked, NothingToCome

\* dispatch: what it sends is saved, and its destination had nothing under way.
LEMMA DispatchStep == OutboxInv /\ Dispatch => OutboxInv'
<1> SUFFICES ASSUME OutboxInv, Dispatch PROVE OutboxInv'
  OBVIOUS
<1> DEFINE go == UNION {Dispatchable(d) : d \in enabled}
<1>1. ASSUME NEW u \in go
      PROVE  /\ u \in store.entries /\ u \notin unsaved /\ u[2] \in Dest
             /\ ~lane[u[2]].busy
             /\ \A v \in go : u[2] = v[2] => u = v
  <2>1. \A v \in go : v \in NextFor(store, v[2]) /\ v \notin unsaved /\ Ready(v[2])
                        /\ v \in store.entries
    BY DEF Dispatchable, NextFor
  <2>2. \A v \in go : u[2] = v[2] => u = v
    BY <2>1, NextForUnique DEF OutboxInv
  <2>3. u[2] \in Dest
    BY <2>1 DEF OutboxInv, StoreOK, StoreType, Upload
  <2>4. QED
    BY <2>1, <2>2, <2>3 DEF Ready
<1>2. sending' = sending \cup go
  BY DEF Dispatch
<1>3. /\ lane' \in [Dest -> [busy : BOOLEAN, due : BOOLEAN, rejected : BOOLEAN]]
      /\ \A d \in Dest : lane[d].busy => lane'[d].busy
      /\ \A u \in go : lane'[u[2]].busy
  <2>1. lane \in [Dest -> [busy : BOOLEAN, due : BOOLEAN, rejected : BOOLEAN]]
    BY DEF OutboxInv, TypeOK
  <2>2. lane' = [d \in Dest |-> IF \E u \in go : u[2] = d
                                THEN [lane[d] EXCEPT !.busy = TRUE] ELSE lane[d]]
    BY DEF Dispatch
  <2> HIDE DEF go
  <2>3. ASSUME NEW d \in Dest
        PROVE  /\ [lane[d] EXCEPT !.busy = TRUE]
                     \in [busy : BOOLEAN, due : BOOLEAN, rejected : BOOLEAN]
               /\ [lane[d] EXCEPT !.busy = TRUE].busy
    BY <2>1
  <2>4. ASSUME NEW d \in Dest
        PROVE  /\ lane'[d] \in [busy : BOOLEAN, due : BOOLEAN, rejected : BOOLEAN]
               /\ lane[d].busy => lane'[d].busy
               /\ (\E u \in go : u[2] = d) => lane'[d].busy
    BY <2>1, <2>2, <2>3
  <2>5. QED
    BY <1>1, <2>2, <2>4
<1> HIDE DEF go
<1>4. \A u \in Upload : u[2] \in Dest
  BY DEF Upload
<1>5. store.entries \subseteq Upload
  BY DEF OutboxInv, StoreOK, StoreType
<1>6. TypeOK'
  BY <1>1, <1>2, <1>3 DEF OutboxInv, TypeOK, Dispatch, env, saving, durable
<1>7. OneInFlight'
  <2>1. /\ sending \subseteq Upload /\ \A r \in results : r[1] \in Upload
        /\ results' = results
    BY <1>5 DEF OutboxInv, TypeOK, Dispatch
  <2>2. \A u \in sending : u[2] \in Dest /\ lane[u[2]].busy /\ lane'[u[2]].busy
    BY <1>3, <1>4, <2>1 DEF OutboxInv, OneInFlight
  <2>3. \A r \in results : r[1][2] \in Dest /\ lane[r[1][2]].busy /\ lane'[r[1][2]].busy
    BY <1>3, <1>4, <2>1 DEF OutboxInv, OneInFlight
  <2>4. ASSUME NEW u \in sending', NEW v \in sending', u[2] = v[2]
        PROVE  u = v
    BY <1>1, <1>2, <2>2, <2>4 DEF OutboxInv, OneInFlight
  <2>5. ASSUME NEW r \in results, NEW u \in sending' PROVE u[2] # r[1][2]
    BY <1>1, <1>2, <2>3 DEF OutboxInv, OneInFlight
  <2>6. \A r, t \in results : t[1][2] = r[1][2] => t = r
    <3>1. OneInFlight
      BY DEF OutboxInv
    <3>2. QED
      BY <3>1, Zenon DEF OneInFlight
  <2>7. \A u \in sending' : lane'[u[2]].busy
    BY <1>2, <1>3, <2>2
  <2>8. QED
    BY <2>1, <2>3, <2>4, <2>5, <2>6, <2>7, Zenon DEF OneInFlight
<1>8. SavedIsOnDisk'
  BY <1>1, <1>2 DEF OutboxInv, SavedIsOnDisk, Dispatch, saving, durable
<1>9. pc = "dispatch" /\ pc' = "select"
  BY DEF Dispatch
<1>10. QED
  BY <1>6, <1>7, <1>8, <1>9 DEF OutboxInv, Dispatch, env, saving, durable, DownIsEmpty,
     WriteHasAReturn, TopIsRun, AcceptedArrived, GoneHasArrived, DiskBehindIsMarked,
     NothingToCome, DoneIsTracked

\* on_batch: each upload of the QSO is queued now, or was refused.
LEMMA OnBatchStep == OutboxInv /\ OnBatch => OutboxInv'
<1> SUFFICES ASSUME OutboxInv, OnBatch PROVE OutboxInv'
  OBVIOUS
<1> DEFINE q == Head(inbox)
           batch == {q} \X enabled
           new == Fits(store, batch)
<1>1. /\ pc = "select" /\ inbox # <<>> /\ (open \/ phase = "rest")
      /\ inbox' = Tail(inbox) /\ store' = Add(store, batch)
      /\ unsaved' = unsaved \cup new
      /\ refused' = refused \cup (New(store, batch) \ new)
      /\ IF new # {} THEN Persist(Resume) ELSE pc' = Resume /\ UNCHANGED after
      /\ UNCHANGED <<env, phase, open, retry, blocked, enabled, air, durable>>
  BY DEF OnBatch
<1>2. /\ q \in Qso /\ inbox' \in Seq(Qso) /\ Len(inbox') = Len(inbox) - 1
      /\ \A x : Queued(x, inbox) => Queued(x, inbox') \/ x = q
  BY <1>1, QueuedTail DEF OutboxInv, TypeOK
<1>3. enabled \in SUBSET Dest /\ StoreOK(store)
  BY DEF OutboxInv, TypeOK
<1>4. /\ StoreOK(store') /\ store'.entries = store.entries \cup new
      /\ new = {} => store' = store
  <2>1. ASSUME NEW x \in Qso
        PROVE  /\ StoreOK(Add(store, {x} \X enabled))
               /\ Add(store, {x} \X enabled).entries
                    = store.entries \cup Fits(store, {x} \X enabled)
               /\ Fits(store, {x} \X enabled) = {} => Add(store, {x} \X enabled) = store
    BY <1>3, AddOK
  <2>2. QED
    BY <1>1, <1>2, <2>1, Zenon
<1>5. new \subseteq Upload /\ new \cap store.entries = {} /\ batch \subseteq Upload
  BY <1>2, <1>3, FitsTheRoom DEF Upload
<1>6. batch \subseteq store.entries \cup new \cup (New(store, batch) \ new)
  BY DEF New
<1>7. New(store, batch) \subseteq Upload
  BY <1>5 DEF New
<1> HIDE DEF q, batch, new
<1>8. /\ pc' \in {"top", "select", "write"} /\ after' \in {"idle", "top", "dispatch", "select", "ended"}
      /\ pc' = "write" => after' # "idle" /\ ~blocked
      /\ new # {} => pc' = "write" \/ blocked
      /\ TopIsRun'
  BY <1>1 DEF Persist, Resume, OutboxInv, TypeOK, TopIsRun
<1>9. TypeOK'
  <2>1. Len(inbox') <= ChannelCap
    <3>1. Len(inbox) \in Nat /\ Len(inbox) <= ChannelCap /\ ChannelCap \in Nat
      BY OutboxAssumption DEF OutboxInv, TypeOK
    <3>2. QED
      BY <1>2, <3>1
  <2>2. \A s \in {store', disk'} :
           s \in StoreType /\ s.held \subseteq s.tried /\ s.tried \subseteq s.entries
    BY <1>1, <1>4 DEF OutboxInv, StoreOK, durable
  <2>3. Cardinality(store'.entries) <= Capacity
    BY <1>4 DEF StoreOK
  <2>4. QED
    BY <1>1, <1>2, <1>4, <1>5, <1>7, <1>8, <2>1, <2>2, <2>3
       DEF OutboxInv, TypeOK, env, air, durable
<1>10. OneInFlight' /\ AcceptedArrived' /\ StoreOK(disk)'
  BY <1>1 DEF OutboxInv, OneInFlight, AcceptedArrived, air, durable
<1>11. SavedIsOnDisk'
  <2>1. sending \subseteq store.entries /\ \A r \in results : r[1] \in store.entries
    BY DEF OutboxInv, TypeOK
  <2>2. QED
    BY <1>1, <1>4, <1>5, <2>1 DEF OutboxInv, SavedIsOnDisk, air, durable
<1>12. GoneHasArrived'
  BY <1>1, <1>4 DEF OutboxInv, GoneHasArrived, durable
<1>13. DiskBehindIsMarked'
  BY <1>1, <1>4, <1>8 DEF OutboxInv, DiskBehindIsMarked, durable
<1>14. NothingToCome'
  BY <1>1 DEF OutboxInv, NothingToCome, env
<1>15. DoneIsTracked'
  <2>1. {q} \X enabled \subseteq store'.entries \cup refused'
    BY <1>1, <1>4, <1>6 DEF batch
  <2>2. store.entries \subseteq store'.entries /\ refused \subseteq refused'
        /\ arrived' = arrived /\ enabled' = enabled /\ done' = done
        /\ events' = events /\ phase' = phase /\ open' = open
    BY <1>1, <1>4 DEF env, durable
  <2>3. QED
    BY <1>2, <2>1, <2>2 DEF OutboxInv, DoneIsTracked
<1>16. QED
  BY <1>1, <1>4, <1>8, <1>9, <1>10, <1>11, <1>12, <1>13, <1>14, <1>15
     DEF OutboxInv, DownIsEmpty, WriteHasAReturn, TopIsRun

\* on_result: only an upload its service has taken leaves the queue.
LEMMA OnResultStep == OutboxInv /\ OnResult => OutboxInv'
<1> SUFFICES ASSUME OutboxInv, OnResult PROVE OutboxInv'
  OBVIOUS
<1>1. PICK u \in Upload, answer \in AllAnswers :
          /\ <<u, answer>> \in results
          /\ results' = results \ {<<u, answer>>}
          /\ store' = Judge(u, answer)
          /\ lane' = [lane EXCEPT ![u[2]] = LaneAfter(u[2], answer)]
  BY DEF OnResult
<1>2. /\ pc = "select" /\ Persist(Resume)
      /\ UNCHANGED <<env, phase, open, inbox, unsaved, retry, blocked, enabled,
                     sending, refused, durable>>
  BY DEF OnResult
<1>3. /\ StoreOK(store') /\ store'.entries \subseteq store.entries
      /\ store.entries \ store'.entries \subseteq {u}
      /\ u \notin store'.entries => u \in arrived
  <2>1. CASE answer = "accepted"
    <3>1. store' = Delivered(store, u) /\ u \in arrived
      BY <1>1, <2>1 DEF Judge, OutboxInv, AcceptedArrived
    <3>2. QED
      BY <3>1, DeliveredOK DEF OutboxInv
  <2>2. CASE answer \in {"transient", "login"}
    <3>1. store' = RecordFailure(store, u)
      BY <1>1, <2>2 DEF Judge
    <3>2. store'.entries = store.entries /\ StoreOK(store')
      BY <3>1, RecordFailureOK DEF OutboxInv
    <3>3. u \in store.entries
      BY <1>1 DEF OutboxInv, TypeOK
    <3>4. QED
      BY <3>2, <3>3
  <2>3. CASE answer = "record"
    <3>1. store' = Hold(store, u)
      BY <1>1, <2>3 DEF Judge
    <3>2. store'.entries = store.entries /\ StoreOK(store')
      BY <3>1, HoldOK DEF OutboxInv
    <3>3. u \in store.entries
      BY <1>1 DEF OutboxInv, TypeOK
    <3>4. QED
      BY <3>2, <3>3
  <2>4. QED
    BY <2>1, <2>2, <2>3 DEF AllAnswers
<1>4. /\ u \in store.entries /\ u \notin sending /\ u \notin unsaved
      /\ \A r \in results' : r[1] # u /\ r[1][2] # u[2]
      /\ \A v \in sending : v[2] # u[2]
  <2>1. u[2] = <<u, answer>>[1][2]
    OBVIOUS
  <2>2. ASSUME NEW r \in results, r[1][2] = u[2] PROVE r = <<u, answer>>
    <3>1. <<u, answer>> \in results
      BY <1>1
    <3>2. <<u, answer>>[1][2] = r[1][2]
      BY <2>1, <2>2
    <3>3. OneInFlight
      BY DEF OutboxInv
    <3>4. \A t \in results : t[1][2] = r[1][2] => t = r
      BY <3>3, Zenon DEF OneInFlight
    <3>5. QED
      BY <3>1, <3>2, <3>4
  <2>3. \A v \in sending : v[2] # u[2]
    BY <1>1, <2>1 DEF OutboxInv, OneInFlight
  <2>4. u \in store.entries /\ u \notin unsaved
    BY <1>1 DEF OutboxInv, TypeOK, SavedIsOnDisk
  <2>5. QED
    BY <1>1, <2>2, <2>3, <2>4
<1>5. /\ lane' \in [Dest -> [busy : BOOLEAN, due : BOOLEAN, rejected : BOOLEAN]]
      /\ \A d \in Dest \ {u[2]} : lane'[d] = lane[d]
  <2>1. lane \in [Dest -> [busy : BOOLEAN, due : BOOLEAN, rejected : BOOLEAN]]
    BY DEF OutboxInv, TypeOK
  <2>2. u[2] \in Dest
    BY DEF Upload
  <2>3. LaneAfter(u[2], answer) \in [busy : BOOLEAN, due : BOOLEAN, rejected : BOOLEAN]
    BY <2>1, <2>2 DEF LaneAfter
  <2>4. QED
    BY <1>1, <2>1, <2>2, <2>3
<1>6. /\ pc' \in {"top", "select", "write"} /\ (pc' = "write" \/ blocked)
      /\ after' \in {"idle", "top", "select"}
      /\ pc' = "write" => after' # "idle" /\ ~blocked
      /\ TopIsRun'
  BY <1>2 DEF Persist, Resume, TopIsRun
<1>7. TypeOK'
  <2>1. \A s \in {store', disk'} :
           s \in StoreType /\ s.held \subseteq s.tried /\ s.tried \subseteq s.entries
    BY <1>2, <1>3 DEF OutboxInv, StoreOK, durable
  <2>2. Cardinality(store'.entries) <= Capacity
    BY <1>3 DEF StoreOK
  <2>3. results' \subseteq store'.entries \X AllAnswers
    BY <1>1, <1>3, <1>4 DEF OutboxInv, TypeOK
  <2>4. sending \subseteq store'.entries /\ unsaved \subseteq store'.entries
    BY <1>3, <1>4 DEF OutboxInv, TypeOK
  <2>5. QED
    BY <1>2, <1>5, <1>6, <2>1, <2>2, <2>3, <2>4 DEF OutboxInv, TypeOK, env, durable
<1>8. OneInFlight'
  <2>1. sending \subseteq Upload /\ \A r \in results : r[1] \in Upload
    BY DEF OutboxInv, TypeOK, StoreOK, StoreType
  <2>2. \A v \in Upload : v[2] \in Dest
    BY DEF Upload
  <2>3. \A v \in sending : lane'[v[2]] = lane[v[2]]
    BY <1>4, <1>5, <2>1, <2>2
  <2>4. \A r \in results' : lane'[r[1][2]] = lane[r[1][2]]
    BY <1>1, <1>4, <1>5, <2>1, <2>2
  <2>5. QED
    BY <1>1, <1>2, <2>3, <2>4 DEF OutboxInv, OneInFlight
<1>9. AcceptedArrived' /\ StoreOK(disk)' /\ NothingToCome'
  BY <1>1, <1>2 DEF OutboxInv, AcceptedArrived, NothingToCome, env, durable
<1>10. SavedIsOnDisk'
  BY <1>1, <1>2, <1>3 DEF OutboxInv, SavedIsOnDisk, durable
<1>11. GoneHasArrived'
  BY <1>2, <1>3 DEF OutboxInv, GoneHasArrived, durable
<1>12. DiskBehindIsMarked'
  BY <1>2, <1>6 DEF DiskBehindIsMarked
<1>13. DoneIsTracked'
  <2>1. store.entries \subseteq store'.entries \cup arrived
    BY <1>3
  <2>2. /\ refused' = refused /\ arrived' = arrived /\ enabled' = enabled
        /\ done' = done /\ events' = events /\ inbox' = inbox /\ phase' = phase
        /\ open' = open
    BY <1>2 DEF env, durable
  <2>3. \A q : {q} \X enabled \subseteq store.entries \cup arrived \cup refused
                 => {q} \X enabled \subseteq store'.entries \cup arrived \cup refused
    BY <2>1
  <2>4. QED
    BY <2>2, <2>3 DEF OutboxInv, DoneIsTracked
<1>14. QED
  BY <1>2, <1>3, <1>6, <1>7, <1>8, <1>9, <1>10, <1>11, <1>12, <1>13
     DEF OutboxInv, DownIsEmpty, WriteHasAReturn, TopIsRun
\* A service that takes an upload has been sent it, and its answer is true.
LEMMA ReplyStep ==
    ASSUME OutboxInv, NEW u \in Upload, NEW answer \in AllAnswers, Reply(u, answer),
           arrived \subseteq arrived', arrived' \subseteq arrived \cup {u},
           answer = "accepted" => u \in arrived'
    PROVE  OutboxInv'
<1>1. /\ u \in sending /\ sending' = sending \ {u}
      /\ results' = results \cup {<<u, answer>>}
      /\ UNCHANGED <<env, pc, after, phase, open, inbox, saving, enabled, lane,
                     disk, readable, aside>>
  BY DEF Reply
<1>2. u \in store.entries /\ u \notin unsaved /\ lane[u[2]].busy
  BY <1>1 DEF OutboxInv, TypeOK, SavedIsOnDisk, OneInFlight
<1>3. TypeOK'
  BY <1>1, <1>2 DEF OutboxInv, TypeOK, env, saving
<1>4. OneInFlight'
  <2>1. OneInFlight
    BY DEF OutboxInv
  <2>2. \A v \in sending : v[2] = u[2] => v = u
    BY <1>1, <2>1 DEF OneInFlight
  <2>3. \A r \in results : r[1][2] # u[2]
    BY <1>1, <2>1 DEF OneInFlight
  <2>4. <<u, answer>>[1][2] = u[2]
    OBVIOUS
  <2>5. \A v \in sending' : /\ lane'[v[2]].busy
                            /\ \A w \in sending' : v[2] = w[2] => v = w
    BY <1>1, <2>1 DEF OneInFlight
  <2>6. ASSUME NEW r \in results'
        PROVE  /\ lane'[r[1][2]].busy
               /\ \A v \in sending' : v[2] # r[1][2]
               /\ \A t \in results' : t[1][2] = r[1][2] => t = r
    <3>1. CASE r \in results
      <4>1. \A t \in results : t[1][2] = r[1][2] => t = r
        BY <2>1, <3>1 DEF OneInFlight
      <4>2. QED
        BY <1>1, <2>1, <2>3, <2>4, <3>1, <4>1 DEF OneInFlight
    <3>2. CASE r = <<u, answer>>
      <4>1. r[1][2] = u[2]
        BY <2>4, <3>2
      <4>2. QED
        BY <1>1, <1>2, <2>2, <2>3, <3>2, <4>1
    <3>3. QED
      BY <1>1, <3>1, <3>2
  <2>7. QED
    BY <2>5, <2>6, Zenon DEF OneInFlight
<1>5. AcceptedArrived' /\ SavedIsOnDisk' /\ GoneHasArrived'
  BY <1>1, <1>2 DEF OutboxInv, AcceptedArrived, SavedIsOnDisk, GoneHasArrived, saving
<1>6. DoneIsTracked'
  BY <1>1 DEF OutboxInv, DoneIsTracked, env, saving
<1>7. pc # "down"
  BY <1>1 DEF OutboxInv, DownIsEmpty
<1>8. QED
  BY <1>1, <1>3, <1>4, <1>5, <1>6, <1>7 DEF OutboxInv, DownIsEmpty, WriteHasAReturn, TopIsRun,
     DiskBehindIsMarked, NothingToCome, env, saving

\* A queue write, whole, not at all or with its sync unconfirmed.
LEMMA WriteStep == OutboxInv /\ (WriteOk \/ WriteFails) => OutboxInv'
<1> SUFFICES ASSUME OutboxInv, WriteOk \/ WriteFails PROVE OutboxInv'
  OBVIOUS
<1>1. /\ pc = "write" /\ after # "idle" /\ ~blocked
      /\ pc' = after /\ after' = "idle" /\ disk' \in {disk, store}
      /\ (unsaved' = {} /\ retry' = "none" /\ disk' = store)
           \/ (unsaved' = unsaved /\ retry' = "waiting")
      /\ UNCHANGED <<env, phase, open, inbox, store, blocked, refused, enabled, air,
                     readable, aside, arrived>>
  BY DEF OutboxInv, WriteHasAReturn, WriteOk, WriteFails
<1>2. TypeOK' /\ StoreOK(disk)' /\ StoreOK(store)'
  BY <1>1 DEF OutboxInv, TypeOK, env, air
<1>3. OneInFlight' /\ AcceptedArrived' /\ DoneIsTracked' /\ NothingToCome'
  BY <1>1 DEF OutboxInv, OneInFlight, AcceptedArrived, DoneIsTracked, NothingToCome,
     env, air
<1>4. SavedIsOnDisk'
  BY <1>1 DEF OutboxInv, TypeOK, SavedIsOnDisk, air
<1>5. GoneHasArrived' /\ DiskBehindIsMarked'
  BY <1>1 DEF OutboxInv, GoneHasArrived, DiskBehindIsMarked
<1>6. pc' \notin {"down", "write"}
  BY <1>1 DEF OutboxInv, TypeOK
<1>7. QED
  BY <1>1, <1>2, <1>3, <1>4, <1>5, <1>6 DEF OutboxInv, DownIsEmpty, WriteHasAReturn, TopIsRun

\* The steps of the worker's loop that touch neither the queue nor the file.
LEMMA ControlStep ==
    OutboxInv /\ (LoopTop \/ Tick \/ HandlesGone \/ CloseInbox \/ LastSave) => OutboxInv'
<1> SUFFICES ASSUME OutboxInv,
                    LoopTop \/ Tick \/ HandlesGone \/ CloseInbox \/ LastSave
             PROVE  OutboxInv'
  OBVIOUS
<1>1. /\ UNCHANGED <<env, inbox, saving, enabled, air, durable>>
      /\ pc \in {"top", "select"}
      /\ pc' \in {"top", "dispatch", "select", "write", "ended"}
      /\ after' \in {"idle", "top", "dispatch", "select", "ended"}
      /\ phase' \in {"run", "drain", "rest"} /\ open' \in BOOLEAN
      /\ pc' = "write" => after' # "idle" /\ ~blocked
  BY DEF OutboxInv, TypeOK, LoopTop, Tick, HandlesGone, CloseInbox, LastSave, Persist,
     Resume
<1>2. /\ open' # open => open /\ phase # "rest" /\ inbox = <<>> /\ ~subscriber
      /\ (phase' # "rest" \/ ~open') => (phase # "rest" \/ ~open)
      /\ open' => open
  BY DEF LoopTop, Tick, HandlesGone, CloseInbox, LastSave, OutboxInv, TypeOK, TopIsRun
<1>5. TopIsRun'
  BY DEF LoopTop, Tick, HandlesGone, CloseInbox, LastSave, Persist, Resume, OutboxInv,
     TopIsRun
<1>3. TypeOK'
  BY <1>1 DEF OutboxInv, TypeOK, env, saving, air, durable
<1>4. NothingToCome' /\ DoneIsTracked'
  BY <1>1, <1>2 DEF OutboxInv, NothingToCome, DoneIsTracked, TypeOK, env, saving, durable
<1>6. QED
  BY <1>1, <1>3, <1>4, <1>5 DEF OutboxInv, env, saving, air, durable, DownIsEmpty,
     WriteHasAReturn, TopIsRun, OneInFlight, AcceptedArrived, SavedIsOnDisk, GoneHasArrived,
     DiskBehindIsMarked

\* The lane's next attempt becomes due.
LEMMA LaneDueStep ==
    ASSUME OutboxInv, NEW d \in Dest, LaneDue(d)
    PROVE  OutboxInv'
<1>1. lane \in [Dest -> [busy : BOOLEAN, due : BOOLEAN, rejected : BOOLEAN]]
  BY DEF OutboxInv, TypeOK
<1>2. lane' = [lane EXCEPT ![d].due = TRUE]
  BY DEF LaneDue
<1>3. /\ lane' \in [Dest -> [busy : BOOLEAN, due : BOOLEAN, rejected : BOOLEAN]]
      /\ \A e \in Dest : lane'[e].busy = lane[e].busy
  BY <1>1, <1>2
<1>4. TypeOK'
  BY <1>3 DEF OutboxInv, TypeOK, LaneDue, env, saving, durable
<1>5. OneInFlight'
  <2>1. /\ \A u \in sending : u[2] \in Dest
        /\ \A r \in results : r[1][2] \in Dest
    BY DEF OutboxInv, TypeOK, StoreOK, StoreType, Upload
  <2>2. sending' = sending /\ results' = results
    BY DEF LaneDue
  <2>3. QED
    BY <1>3, <2>1, <2>2 DEF OutboxInv, OneInFlight
<1>6. QED
  BY <1>4, <1>5 DEF LaneDue, OutboxInv, env, saving, durable, DownIsEmpty,
     WriteHasAReturn, TopIsRun, AcceptedArrived, SavedIsOnDisk, GoneHasArrived,
     DiskBehindIsMarked, NothingToCome, DoneIsTracked

\* The rest of the process, the clock and the file between two runs.
LEMMA OutsideStep ==
    OutboxInv /\ (Spoil \/ SubscriberFinish \/ RequestShutdown \/ StopOutbox \/ RetryDue
                    \/ UNCHANGED vars)
        => OutboxInv'
<1> SUFFICES ASSUME OutboxInv,
                    Spoil \/ SubscriberFinish \/ RequestShutdown \/ StopOutbox
                      \/ RetryDue \/ UNCHANGED vars
             PROVE  OutboxInv'
  OBVIOUS
<1>1. /\ UNCHANGED <<todo, done, events, pc, after, phase, open, inbox, store, unsaved,
                     blocked, enabled, lane, sending, results, refused, disk, aside,
                     arrived>>
      /\ retry' = retry \/ (retry = "waiting" /\ retry' = "due")
      /\ {subscriber', shutdown', stop', readable'} \subseteq BOOLEAN
      /\ subscriber' = subscriber \/ (subscriber' = FALSE /\ events = <<>>)
  BY DEF OutboxInv, TypeOK, Spoil, SubscriberFinish, RequestShutdown, StopOutbox,
     RetryDue, env, saving, air, durable, vars
<1>2. TypeOK'
  BY <1>1 DEF OutboxInv, TypeOK
<1>3. NothingToCome'
  BY <1>1 DEF OutboxInv, NothingToCome
<1>4. QED
  BY <1>1, <1>2, <1>3 DEF OutboxInv, DownIsEmpty, WriteHasAReturn, TopIsRun, OneInFlight,
     AcceptedArrived, SavedIsOnDisk, GoneHasArrived, DiskBehindIsMarked, DoneIsTracked

\* Every step keeps the invariant.
LEMMA OutboxStep == OutboxInv /\ [Next]_vars => OutboxInv'
<1> SUFFICES ASSUME OutboxInv, [Next]_vars PROVE OutboxInv'
  OBVIOUS
<1>1. CASE Start
  BY <1>1, StartStep
<1>2. CASE Crash \/ Exit
  BY <1>2, VanishStep DEF Crash, Exit
<1>3. ASSUME NEW q \in Qso, Complete(q) PROVE OutboxInv'
  BY <1>3, CompleteStep
<1>4. CASE Enqueue
  BY <1>4, EnqueueStep
<1>5. CASE Dispatch
  BY <1>5, DispatchStep
<1>6. CASE OnBatch
  BY <1>6, OnBatchStep
<1>7. CASE OnResult
  BY <1>7, OnResultStep
<1>8. CASE WriteOk \/ WriteFails
  BY <1>8, WriteStep
<1>9. CASE LoopTop \/ Tick \/ HandlesGone \/ CloseInbox \/ LastSave
  BY <1>9, ControlStep
<1>10. ASSUME NEW d \in Dest, LaneDue(d) PROVE OutboxInv'
  BY <1>10, LaneDueStep
<1>11. ASSUME NEW u \in Upload, Accept(u) PROVE OutboxInv'
  BY <1>11, ReplyStep DEF Accept, AllAnswers
<1>12. ASSUME NEW u \in Upload, Decline(u) PROVE OutboxInv'
  <2>1. PICK answer \in Answers[u] \ {"accepted"} :
          /\ Reply(u, answer)
          /\ \/ UNCHANGED arrived
             \/ arrived' = arrived \cup {u}
    BY <1>12 DEF Decline
  <2>2. answer \in AllAnswers /\ answer # "accepted"
    BY <2>1, OutboxAssumption
  <2>3. QED
    BY <2>1, <2>2, ReplyStep
<1>13. CASE Spoil \/ SubscriberFinish \/ RequestShutdown \/ StopOutbox \/ RetryDue
              \/ UNCHANGED vars
  BY <1>13, OutsideStep
<1>14. QED
  BY <1>1, <1>2, <1>3, <1>4, <1>5, <1>6, <1>7, <1>8, <1>9, <1>10, <1>11, <1>12, <1>13
     DEF Next, WorkerStep

\* The outbox starts in the invariant.
LEMMA OutboxInit == Init => OutboxInv
<1> SUFFICES ASSUME Init PROVE OutboxInv
  OBVIOUS
<1>1. StoreOK(store) /\ StoreOK(disk) /\ store.entries = {} /\ disk = store
  BY EmptyStoreOK DEF Init, Down, EmptyStore
<1>2. TypeOK
  <2>1. lane \in [Dest -> [busy : BOOLEAN, due : BOOLEAN, rejected : BOOLEAN]]
    BY DEF Init, Down, FreshLane
  <2>2. <<>> \in Seq(Qso) /\ Len(<<>>) <= ChannelCap
    BY OutboxAssumption
  <2>3. \A s \in {store, disk} :
           s \in StoreType /\ s.held \subseteq s.tried /\ s.tried \subseteq s.entries
    BY <1>1 DEF StoreOK
  <2>4. QED
    BY <1>1, <2>1, <2>2, <2>3 DEF Init, Down, TypeOK, StoreOK
<1>3. QED
  BY <1>1, <1>2 DEF Init, Down, OutboxInv, DownIsEmpty, WriteHasAReturn, TopIsRun, OneInFlight,
     AcceptedArrived, SavedIsOnDisk, GoneHasArrived, DiskBehindIsMarked, NothingToCome,
     DoneIsTracked

\* The invariant holds throughout.
LEMMA OutboxInvariant == Spec => []OutboxInv
BY OutboxInit, OutboxStep, PTL DEF Spec

-----------------------------------------------------------------------------
(* What the project says of the worker.                                    *)

\* The worker's state stays well typed, the queue keeps its capacity and the
\* channel its own, for every capacity and every set of uploads.
THEOREM OutboxTypeCorrect == Spec => []TypeOK
BY OutboxInvariant, PTL DEF OutboxInv

\* Nothing is sent before it is in the queue file, whatever writes fail
\* (dispatch skips the unsaved entries).
THEOREM NothingSentUnsaved == Spec => []SentIsOnDisk
<1>1. OutboxInv => SentIsOnDisk
  BY DEF OutboxInv, TypeOK, SavedIsOnDisk, SentIsOnDisk
<1>2. QED
  BY <1>1, OutboxInvariant, PTL

\* A file that is behind the queue in memory is always due for another write
\* (persist, persist_retry_at).
THEOREM LateFileIsRetried == Spec => []DiskBehindIsMarked
BY OutboxInvariant, PTL DEF OutboxInv

\* A stop that the worker saw through to its last write loses no upload of a
\* QSO completed since the start (stop_upload_outbox, Worker::run).
THEOREM CleanStopLosesNothing == Spec => []CleanStopSavesAll
<1>1. OutboxInv => CleanStopSavesAll
  <2> SUFFICES ASSUME OutboxInv, pc = "ended", ~open, ~blocked, retry = "none"
               PROVE  (done \X enabled) \subseteq (disk.entries \cup arrived \cup refused)
    BY DEF CleanStopSavesAll
  <2>1. disk = store /\ inbox = <<>> /\ events = <<>>
    BY DEF OutboxInv, DiskBehindIsMarked, NothingToCome
  <2>2. \A q \in done : ~Queued(q, events) /\ ~Queued(q, inbox)
    BY <2>1 DEF Queued
  <2>3. \A q \in done : {q} \X enabled \subseteq store.entries \cup arrived \cup refused
    BY <2>2 DEF OutboxInv, DoneIsTracked
  <2>4. QED
    BY <2>1, <2>3
<1>2. QED
  BY <1>1, OutboxInvariant, PTL

\* Every step of the worker, the services, a crash or a restart is a step of
\* the durable queue or leaves it alone.
LEMMA QueueStep == OutboxInv /\ [Next]_vars => [Queue!Next]_(Queue!vars)
<1> SUFFICES ASSUME OutboxInv, [Next]_vars PROVE [Queue!Next]_(Queue!vars)
  OBVIOUS
<1> USE DEF Queue!Next, Queue!vars, Queue!Replace, Queue!Arrive, Queue!PutAside
<1>1. CASE UNCHANGED <<disk, arrived, aside>>
  BY <1>1
<1>2. CASE Start
  <2>1. CASE OpenQueue
    BY <1>2, <2>1 DEF OpenQueue, durable
  <2>2. CASE Quarantine
    BY <1>2, <2>2 DEF Quarantine, durable, EmptyStore
  <2>3. QED
    BY <1>2, <2>1, <2>2 DEF Start
<1>3. CASE WriteOk \/ WriteFails
  <2>1. disk' \in {disk, store} /\ UNCHANGED <<arrived, aside>> /\ pc = "write"
    BY <1>3 DEF WriteOk, WriteFails
  <2>2. disk.entries \ store.entries \subseteq arrived
    BY <2>1 DEF OutboxInv, GoneHasArrived, WriteHasAReturn
  <2>3. disk'.entries \in SUBSET Upload /\ disk.entries \ disk'.entries \subseteq arrived
    BY <2>1, <2>2 DEF OutboxInv, StoreOK, StoreType
  <2>4. QED
    BY <2>1, <2>3
<1>4. ASSUME NEW u \in Upload, Accept(u) \/ Decline(u)
      PROVE  [Queue!Next]_(Queue!vars)
  <2>1. /\ u \in sending /\ UNCHANGED <<disk, aside>>
        /\ arrived' = arrived \/ arrived' = arrived \cup {u}
    BY <1>4 DEF Accept, Decline, Reply
  <2>2. u \in disk.entries
    BY <2>1 DEF OutboxInv, TypeOK, SavedIsOnDisk
  <2>3. QED
    BY <2>1, <2>2
<1>5. QED
  <2>1. CASE Spoil \/ Crash \/ Exit \/ Enqueue \/ SubscriberFinish \/ RequestShutdown
               \/ StopOutbox \/ RetryDue \/ (\E q \in Qso : Complete(q))
               \/ (\E d \in Dest : LaneDue(d)) \/ UNCHANGED vars
    BY <1>1, <2>1 DEF Spoil, Crash, Exit, Vanish, Enqueue, SubscriberFinish,
       RequestShutdown, StopOutbox, RetryDue, Complete, LaneDue, vars, durable
  <2>2. CASE LoopTop \/ Dispatch \/ OnBatch \/ OnResult \/ Tick \/ HandlesGone
               \/ CloseInbox \/ LastSave
    BY <1>1, <2>2 DEF LoopTop, Dispatch, OnBatch, OnResult, Tick, HandlesGone,
       CloseInbox, LastSave, durable
  <2>3. QED
    BY <1>2, <1>3, <1>4, <2>1, <2>2 DEF Next, WorkerStep

\* The worker implements the durable queue: across crashes, failed writes and
\* unreadable files, an upload reaches a service only from the file and leaves
\* the file only once its service has it.
THEOREM OutboxIsDurable == Spec => QueueSpec
<1>1. Init => Queue!Init
  BY DEF Init, Down, EmptyStore, Queue!Init
<1>2. QED
  BY <1>1, QueueStep, OutboxInvariant, PTL DEF Spec, QueueSpec, Queue!Spec
=============================================================================
