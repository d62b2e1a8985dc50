--------------------------- MODULE TxWorkerProofs ---------------------------
(***************************************************************************)
(* Proofs about the transmit worker, for every number of attempts, set of  *)
(* clients, assignment of attempts to QSOs and clients, and set of caps:   *)
(* what becomes of every attempt, that a PTT-on is answered by a PTT-off,  *)
(* and that a halt holds.                                                  *)
(***************************************************************************)
EXTENDS TxWorker, FiniteSetTheorems, SequenceTheorems, WellFoundedInduction, TLAPS

Req == [multi : BOOLEAN, items : SUBSET Attempt, client : Client \cup {Local}]

\* A queue of requests for something, no attempt in two of them.
IsQueue(s) ==
    /\ s \in Seq(Req)
    /\ \A i \in DOMAIN s : s[i].items # {}
    /\ \A i, j \in DOMAIN s : i # j => s[i].items \cap s[j].items = {}

\* Where the worker holds a frame, and where it has a guard for it.
Busy == {"collect", "admit", "wait", "gate", "key", "lead", "playing", "tail", "release",
         "superseded"}
Keying == {"lead", "playing", "tail", "release", "superseded"}

\* The request in hand is for something while the worker is busy with it; a
\* second one is in hand only while it supersedes the first.
HandOK ==
    /\ cur \in Req /\ incoming \in Req
    /\ pc \in Busy => cur.items # {}
    /\ pc = "idle" => cur.items = {}
    /\ pc = "superseded" => incoming.items # {}
    /\ pc # "superseded" => incoming.items = {}

\* No attempt is in two places.
Apart ==
    /\ cur.items \cap Items(inbox) = {}
    /\ incoming.items \cap Items(inbox) = {}
    /\ cur.items \cap incoming.items = {}

\* What the worker still holds has been issued and not been reported, and
\* nothing is reported that has not been issued.
HeldIsFresh ==
    /\ \A a \in Held : a < next /\ report[a] = "none"
    /\ \A a \in Attempt : a >= next => report[a] = "none"

\* The worker's flags and history are well typed.
RestOK ==
    /\ next \in 1..Attempts + 1
    /\ pc \in Busy \cup {"idle", "stopped"}
    /\ guard \in BOOLEAN /\ audio \in BOOLEAN /\ abort \in BOOLEAN
    /\ muted \in BOOLEAN /\ halting \in BOOLEAN
    /\ cap \in Caps /\ armed \in Client \cup {Local}
    /\ ptt \in {"on", "off"} /\ drops \in Nat
    /\ report \in [Attempt -> {"none", "failed", "sent", "twice"}]
    /\ keyed \subseteq Attempt /\ quiet \subseteq Attempt
    /\ abandoned \subseteq Attempt /\ doomed \subseteq Attempt
    /\ offLost \in BOOLEAN

\* A frame past the slot's gates has its guard, and a PTT-on that is not the frame's
\* own is already being answered.
GuardIsArmed ==
    /\ pc \in Keying \cup {"gate", "key"} => guard
    /\ ptt = "on" /\ pc \notin Keying => drops > 0 \/ offLost

\* A halted frame does not get to its tail: the policy is still closed, and
\* past the gates the abort flag is still up.
HaltIsKept ==
    /\ doomed # {} => muted
    /\ cur.items \cap doomed # {} =>
          /\ pc # "tail"
          /\ pc \in {"key", "lead", "playing", "superseded"} => abort
    /\ \A a \in doomed : report[a] # "sent"

TxInv ==
    /\ RestOK /\ IsQueue(inbox) /\ HandOK /\ Apart
    /\ HeldIsFresh /\ ReportedOnce /\ FrameIsAccounted
    /\ GuardIsArmed /\ HaltIsKept

-----------------------------------------------------------------------------
(* Queues of requests. *)

\* The attempts of the requests at some positions of a queue.
At(s, places) == UNION {s[i].items : i \in places}

\* Requests at different positions are for different attempts.
LEMMA PlacesApart ==
  ASSUME NEW s, IsQueue(s), NEW A \in SUBSET DOMAIN s, NEW B \in SUBSET DOMAIN s,
         A \cap B = {}
  PROVE  At(s, A) \cap At(s, B) = {}
<1> SUFFICES ASSUME NEW x, x \in At(s, A), x \in At(s, B)
             PROVE  FALSE
  OBVIOUS
<1>1. PICK i \in A : x \in s[i].items
  BY DEF At
<1>2. PICK j \in B : x \in s[j].items
  BY DEF At
<1>3. i # j /\ i \in DOMAIN s /\ j \in DOMAIN s
  OBVIOUS
<1>4. QED
  BY <1>1, <1>2, <1>3 DEF IsQueue

\* A stretch of a queue.
LEMMA StretchOfQueue ==
  ASSUME NEW s, IsQueue(s), NEW t \in Seq(Req), NEW c \in Nat, c + Len(t) <= Len(s),
         \A k \in 1 .. Len(t) : t[k] = s[k + c]
  PROVE  IsQueue(t) /\ Items(t) = At(s, c + 1 .. c + Len(t))
<1>1. /\ s \in Seq(Req) /\ Len(s) \in Nat /\ DOMAIN s = 1 .. Len(s)
      /\ Len(t) \in Nat /\ DOMAIN t = 1 .. Len(t)
  BY DEF IsQueue
<1>2. \A k \in 1 .. Len(t) : k + c \in DOMAIN s /\ k + c \in c + 1 .. c + Len(t)
  BY <1>1
<1>3. \A k \in 1 .. Len(t) : t[k].items # {}
  BY <1>2 DEF IsQueue
<1>4. ASSUME NEW k \in 1 .. Len(t), NEW l \in 1 .. Len(t), k # l
      PROVE  t[k].items \cap t[l].items = {}
  <2>1. k + c # l + c
    BY <1>1, <1>4
  <2>2. s[k + c].items \cap s[l + c].items = {}
    BY <1>2, <2>1 DEF IsQueue
  <2>3. QED
    BY <2>2
<1>5. Items(t) = At(s, c + 1 .. c + Len(t))
  <2>1. \A i \in c + 1 .. c + Len(t) : i - c \in 1 .. Len(t) /\ s[i] = t[i - c]
    <3>1. \A i \in c + 1 .. c + Len(t) : i - c \in 1 .. Len(t) /\ i - c + c = i
      BY <1>1
    <3>2. QED
      BY <3>1
  <2>2. \A i \in c + 1 .. c + Len(t) : \E k \in DOMAIN t : t[k].items = s[i].items
    BY <1>1, <2>1
  <2>3. \A k \in DOMAIN t : \E i \in c + 1 .. c + Len(t) : t[k].items = s[i].items
    BY <1>1, <1>2
  <2>4. QED
    BY <2>2, <2>3 DEF Items, At
<1>6. QED
  BY <1>1, <1>3, <1>4, <1>5 DEF IsQueue

\* What a queue holds is what it holds at two complementary sets of positions.
LEMMA TwoParts ==
  ASSUME NEW s, IsQueue(s), NEW A, NEW B, A \cup B = DOMAIN s, A \cap B = {}
  PROVE  /\ Items(s) = At(s, A) \cup At(s, B)
         /\ At(s, A) \cap At(s, B) = {}
<1>1. A \in SUBSET DOMAIN s /\ B \in SUBSET DOMAIN s
  OBVIOUS
<1>2. At(s, A) \cap At(s, B) = {}
  BY <1>1, PlacesApart
<1>3. Items(s) = At(s, A) \cup At(s, B)
  BY DEF Items, At
<1>4. QED
  BY <1>2, <1>3

\* A queue cut in two.
LEMMA CutQueue ==
  ASSUME NEW s, IsQueue(s), NEW m \in 0 .. Len(s)
  PROVE  /\ IsQueue(SubSeq(s, 1, m)) /\ IsQueue(SubSeq(s, m + 1, Len(s)))
         /\ Len(SubSeq(s, 1, m)) = m
         /\ Items(s) = Items(SubSeq(s, 1, m)) \cup Items(SubSeq(s, m + 1, Len(s)))
         /\ Items(SubSeq(s, 1, m)) \cap Items(SubSeq(s, m + 1, Len(s))) = {}
<1> DEFINE n     == Len(s)
           front == SubSeq(s, 1, m)
           back  == SubSeq(s, m + 1, n)
<1>1. s \in Seq(Req) /\ n \in Nat /\ DOMAIN s = 1 .. n /\ \A i \in 1 .. n : s[i] \in Req
  BY DEF IsQueue
<1>2. /\ front \in Seq(Req) /\ Len(front) = m /\ DOMAIN front = 1 .. m
      /\ \A i \in 1 .. m : front[i] = s[i]
  <2>1. m \in Nat /\ \A i \in 1 .. m : s[i] \in Req
    BY <1>1
  <2>2. /\ front \in Seq(Req) /\ Len(front) = IF 1 <= m THEN m - 1 + 1 ELSE 0
        /\ \A i \in 1 .. m - 1 + 1 : front[i] = s[1 + i - 1]
    BY <2>1, SubSeqProperties, 1 \in Int, m \in Int
  <2>3. QED
    BY <2>1, <2>2, LenProperties
<1>3. /\ back \in Seq(Req) /\ Len(back) = n - m /\ DOMAIN back = 1 .. n - m
      /\ \A i \in 1 .. n - m : back[i] = s[i + m]
  <2>1. m + 1 \in Int /\ n \in Int /\ \A i \in m + 1 .. n : s[i] \in Req
    BY <1>1
  <2>2. /\ back \in Seq(Req) /\ Len(back) = IF m + 1 <= n THEN n - (m + 1) + 1 ELSE 0
        /\ \A i \in 1 .. n - (m + 1) + 1 : back[i] = s[m + 1 + i - 1]
    BY <2>1, SubSeqProperties
  <2>3. Len(back) = n - m
    <3>1. m \in Nat /\ n \in Nat /\ m <= n
      BY <1>1
    <3>2. CASE m + 1 <= n
      BY <2>2, <3>1, <3>2
    <3>3. CASE m = n
      BY <2>2, <3>1, <3>3
    <3>4. QED
      BY <3>1, <3>2, <3>3
  <2>4. \A i \in 1 .. n - m : back[i] = s[i + m]
    <3>1. \A i \in 1 .. n - m : i \in 1 .. n - (m + 1) + 1 /\ m + 1 + i - 1 = i + m
      BY <1>1
    <3>2. QED
      BY <2>2, <3>1
  <2>5. QED
    BY <2>2, <2>3, <2>4, LenProperties
<1>4. IsQueue(front) /\ Items(front) = At(s, 1 .. m)
  <2>1. \A k \in 1 .. Len(front) : front[k] = s[k + 0]
    BY <1>1, <1>2
  <2>2. 0 \in Nat /\ 0 + Len(front) <= Len(s) /\ 0 + 1 .. 0 + Len(front) = 1 .. m
    BY <1>1, <1>2
  <2> HIDE DEF front
  <2>3. IsQueue(front) /\ Items(front) = At(s, 0 + 1 .. 0 + Len(front))
    BY <1>2, <2>1, <2>2, StretchOfQueue
  <2>4. QED
    BY <2>2, <2>3
<1>5. IsQueue(back) /\ Items(back) = At(s, m + 1 .. n)
  <2>1. \A k \in 1 .. Len(back) : back[k] = s[k + m]
    BY <1>3
  <2>2. m \in Nat /\ m + (n - m) = n /\ n <= n
    BY <1>1
  <2> HIDE DEF back
  <2>3. m + Len(back) <= Len(s) /\ m + 1 .. m + Len(back) = m + 1 .. n
    BY <1>3, <2>2
  <2>4. IsQueue(back) /\ Items(back) = At(s, m + 1 .. m + Len(back))
    BY <1>3, <2>1, <2>2, <2>3, StretchOfQueue
  <2>5. QED
    BY <2>3, <2>4
<1>6. (1 .. m) \cup (m + 1 .. n) = DOMAIN s /\ (1 .. m) \cap (m + 1 .. n) = {}
  BY <1>1
<1>7. Items(s) = Items(front) \cup Items(back) /\ Items(front) \cap Items(back) = {}
  BY <1>4, <1>5, <1>6, TwoParts
<1>8. QED
  BY <1>2, <1>4, <1>5, <1>7

\* A queue without its first request.
LEMMA TailQueue ==
  ASSUME NEW s, IsQueue(s), s # <<>>
  PROVE  /\ IsQueue(Tail(s)) /\ Head(s) \in Req /\ Head(s).items # {}
         /\ Items(s) = Head(s).items \cup Items(Tail(s))
         /\ Head(s).items \cap Items(Tail(s)) = {}
<1>1. s \in Seq(Req) /\ Len(s) \in Nat /\ DOMAIN s = 1 .. Len(s) /\ 1 \in 1 .. Len(s)
  BY DEF IsQueue
<1>2. Head(s) = s[1] /\ s[1] \in Req /\ s[1].items # {}
  BY <1>1 DEF IsQueue
<1>3. Tail(s) = SubSeq(s, 1 + 1, Len(s))
  BY <1>1, TailIsSubSeq
<1>4. /\ IsQueue(SubSeq(s, 1, 1)) /\ IsQueue(Tail(s)) /\ Len(SubSeq(s, 1, 1)) = 1
      /\ Items(s) = Items(SubSeq(s, 1, 1)) \cup Items(Tail(s))
      /\ Items(SubSeq(s, 1, 1)) \cap Items(Tail(s)) = {}
  <2>1. 1 \in 0 .. Len(s)
    BY <1>1
  <2>2. /\ IsQueue(SubSeq(s, 1, 1)) /\ IsQueue(SubSeq(s, 1 + 1, Len(s)))
        /\ Len(SubSeq(s, 1, 1)) = 1
        /\ Items(s) = Items(SubSeq(s, 1, 1)) \cup Items(SubSeq(s, 1 + 1, Len(s)))
        /\ Items(SubSeq(s, 1, 1)) \cap Items(SubSeq(s, 1 + 1, Len(s))) = {}
    BY <2>1, CutQueue, Zenon
  <2>3. QED
    BY <1>3, <2>2
<1>5. Items(SubSeq(s, 1, 1)) = Head(s).items
  <2>1. SubSeq(s, 1, 1)[1] = s[1] /\ DOMAIN SubSeq(s, 1, 1) = {1}
    BY <1>1
  <2>2. QED
    BY <1>2, <2>1 DEF Items
<1>6. QED
  BY <1>2, <1>4, <1>5

\* Two queues, one behind the other.
LEMMA JoinedQueue ==
  ASSUME NEW s, IsQueue(s), NEW t, IsQueue(t), Items(s) \cap Items(t) = {}
  PROVE  IsQueue(s \o t) /\ Items(s \o t) = Items(s) \cup Items(t)
<1> DEFINE u == s \o t
           m == Len(s)
           n == Len(t)
<1>1. /\ s \in Seq(Req) /\ m \in Nat /\ DOMAIN s = 1 .. m
      /\ t \in Seq(Req) /\ n \in Nat /\ DOMAIN t = 1 .. n
  BY DEF IsQueue
<1>2. /\ u \in Seq(Req) /\ Len(u) = m + n /\ DOMAIN u = 1 .. m + n
      /\ \A i \in 1 .. m + n : u[i] = IF i <= m THEN s[i] ELSE t[i - m]
  BY <1>1, ConcatProperties, LenProperties
<1> HIDE DEF u
<1>3. \A i \in 1 .. m + n : \/ i \in DOMAIN s /\ u[i] = s[i]
                            \/ i - m \in DOMAIN t /\ u[i] = t[i - m]
  BY <1>1, <1>2
<1>4. /\ \A i \in DOMAIN s : i \in DOMAIN u /\ u[i] = s[i]
      /\ \A j \in DOMAIN t : j + m \in DOMAIN u /\ u[j + m] = t[j]
  <2>1. \A i \in 1 .. m : i \in 1 .. m + n /\ i <= m
    BY <1>1
  <2>2. \A j \in 1 .. n : j + m \in 1 .. m + n /\ ~(j + m <= m) /\ j + m - m = j
    BY <1>1
  <2>3. QED
    BY <1>1, <1>2, <2>1, <2>2
<1>5. Items(u) = Items(s) \cup Items(t)
  <2>1. \A i \in DOMAIN u : \/ \E k \in DOMAIN s : u[i].items = s[k].items
                           \/ \E k \in DOMAIN t : u[i].items = t[k].items
    BY <1>2, <1>3
  <2>2. \A k \in DOMAIN s : \E i \in DOMAIN u : u[i].items = s[k].items
    BY <1>4
  <2>3. \A k \in DOMAIN t : \E i \in DOMAIN u : u[i].items = t[k].items
    BY <1>4
  <2>4. QED
    BY <2>1, <2>2, <2>3 DEF Items
<1>6. \A i \in DOMAIN u : u[i].items # {}
  BY <1>2, <1>3 DEF IsQueue
<1>7. ASSUME NEW i \in DOMAIN u, NEW j \in DOMAIN u, i # j
      PROVE  u[i].items \cap u[j].items = {}
  <2>1. CASE i \in DOMAIN s /\ u[i] = s[i] /\ j \in DOMAIN s /\ u[j] = s[j]
    BY <1>7, <2>1 DEF IsQueue
  <2>2. CASE i - m \in DOMAIN t /\ u[i] = t[i - m] /\ j - m \in DOMAIN t /\ u[j] = t[j - m]
    <3>1. i - m # j - m
      BY <1>1, <1>2, <1>7
    <3>2. QED
      BY <2>2, <3>1 DEF IsQueue
  <2>3. \A k \in DOMAIN s, l \in DOMAIN t : s[k].items \cap t[l].items = {}
    BY DEF Items
  <2>4. QED
    BY <1>2, <1>3, <2>1, <2>2, <2>3
<1>8. QED
  BY <1>2, <1>5, <1>6, <1>7 DEF IsQueue, u

\* One request is a queue.
LEMMA SingletonQueue ==
  ASSUME NEW r \in Req, r.items # {}
  PROVE  IsQueue(<<r>>) /\ Items(<<r>>) = r.items
<1>1. <<r>> \in Seq(Req) /\ DOMAIN <<r>> = {1} /\ <<r>>[1] = r
  OBVIOUS
<1>2. QED
  BY <1>1 DEF IsQueue, Items

\* A request in front of a queue, or behind it.
LEMMA PutInQueue ==
  ASSUME NEW s, IsQueue(s), NEW r \in Req, r.items # {}, r.items \cap Items(s) = {}
  PROVE  /\ IsQueue(<<r>> \o s) /\ Items(<<r>> \o s) = r.items \cup Items(s)
         /\ IsQueue(Append(s, r)) /\ Items(Append(s, r)) = r.items \cup Items(s)
<1>1. IsQueue(<<r>>) /\ Items(<<r>>) = r.items
  BY SingletonQueue
<1>2. IsQueue(<<r>> \o s) /\ Items(<<r>> \o s) = Items(<<r>>) \cup Items(s)
  BY <1>1, JoinedQueue
<1>3. IsQueue(s \o <<r>>) /\ Items(s \o <<r>>) = Items(s) \cup Items(<<r>>)
  BY <1>1, JoinedQueue
<1>4. Append(s, r) = s \o <<r>>
  BY AppendIsConcat DEF IsQueue
<1>5. QED
  BY <1>1, <1>2, <1>3, <1>4

\* A queue without one of its requests.
LEMMA RemovedFromQueue ==
  ASSUME NEW s, IsQueue(s), NEW i \in DOMAIN s
  PROVE  /\ IsQueue(RemoveAt(s, i)) /\ s[i] \in Req /\ s[i].items # {}
         /\ Items(s) = s[i].items \cup Items(RemoveAt(s, i))
         /\ s[i].items \cap Items(RemoveAt(s, i)) = {}
<1> DEFINE front == SubSeq(s, 1, i - 1)
           back  == SubSeq(s, i, Len(s))
           rest  == SubSeq(s, i + 1, Len(s))
<1>1. /\ s \in Seq(Req) /\ Len(s) \in Nat /\ DOMAIN s = 1 .. Len(s) /\ i \in Nat
      /\ i - 1 \in 0 .. Len(s) /\ i \in 0 .. Len(s) /\ i - 1 + 1 = i
  BY DEF IsQueue
<1>2. s[i] \in Req /\ s[i].items # {}
  BY <1>1 DEF IsQueue
<1>3. /\ IsQueue(front) /\ IsQueue(back) /\ Items(s) = Items(front) \cup Items(back)
      /\ Items(front) \cap Items(back) = {}
  BY <1>1, CutQueue
<1>4. back # <<>> /\ Head(back) = s[i] /\ Tail(back) = rest
  <2>1. i \in 1 .. Len(s) /\ Len(s) \in i .. Len(s)
    BY <1>1
  <2>2. Head(back) = s[i] /\ Tail(back) = rest
    BY <1>1, <2>1, HeadTailOfSubSeq
  <2>3. Len(back) = Len(s) - i + 1
    BY <1>1, <2>1
  <2>4. Len(back) # 0
    BY <1>1, <2>1, <2>3
  <2> HIDE DEF front, back, rest
  <2>5. back # <<>>
    BY <2>4
  <2>6. QED
    BY <2>2, <2>5
<1> HIDE DEF front, back, rest
<1>5. /\ IsQueue(rest) /\ Items(back) = s[i].items \cup Items(rest)
      /\ s[i].items \cap Items(rest) = {}
  BY <1>3, <1>4, TailQueue
<1>6. IsQueue(front \o rest) /\ Items(front \o rest) = Items(front) \cup Items(rest)
  BY <1>3, <1>5, JoinedQueue
<1>7. RemoveAt(s, i) = front \o rest
  BY DEF RemoveAt, front, rest
<1>8. QED
  BY <1>2, <1>3, <1>5, <1>6, <1>7

-----------------------------------------------------------------------------
(* Where attempts go. *)

\* A step of the worker takes some of the attempts it holds out of its hands:
\* each is reported, dropped by design or left behind, and only a frame at its
\* tail is reported as sent.
Flow ==
    \E told, dropped, left \in SUBSET Held, verdict \in {"failed", "sent"} :
       /\ Held' = Held \ (told \cup dropped \cup left)
       /\ report' = Told(told, verdict)
       /\ quiet' = quiet \cup dropped
       /\ abandoned' = abandoned \cup left
       /\ verdict = "sent" => pc = "tail" /\ told = cur.items

\* The requests are where they belong.
Places == IsQueue(inbox) /\ HandOK /\ Apart

\* What the worker holds are attempts.
LEMMA HeldIsAttempts ==
  ASSUME Places
  PROVE  Held \subseteq Attempt
<1>1. Items(inbox) \subseteq Attempt
  <2>1. \A i \in DOMAIN inbox : inbox[i] \in Req
    BY DEF Places, IsQueue
  <2>2. QED
    BY <2>1 DEF Items, Req
<1>2. QED
  BY <1>1 DEF Held, Places, HandOK, Req

\* Nobody is told of an attempt that is not named.
LEMMA ToldIsLocal ==
  ASSUME RestOK, NEW s, NEW v
  PROVE  /\ DOMAIN Told(s, v) = Attempt
         /\ \A a \in Attempt \ s : Told(s, v)[a] = report[a]
         /\ \A a \in Attempt : a \in s /\ report[a] = "none" => Told(s, v)[a] = v
         /\ s = {} => Told(s, v) = report
<1>1. s = {} => Told(s, v) = report
  BY DEF Told, RestOK
<1>2. QED
  BY <1>1 DEF Told

\* A step that moves no request.
LEMMA StillFlow ==
  ASSUME RestOK, Places, UNCHANGED <<inbox, cur, incoming, report, quiet, abandoned>>
  PROVE  Flow /\ IsQueue(inbox)' /\ Apart'
<1>1. Held' = Held \ ({} \cup {} \cup {})
  BY DEF Held
<1>2. report' = Told({}, "failed")
  BY ToldIsLocal
<1>3. {} \in SUBSET Held /\ quiet' = quiet \cup {} /\ abandoned' = abandoned \cup {}
  OBVIOUS
<1>4. Flow
  BY <1>1, <1>2, <1>3, Zenon DEF Flow
<1>5. QED
  BY <1>4 DEF Places, Apart

\* A step that gives up some of the frame in hand and reports it.
LEMMA GiveUpFlow ==
  ASSUME RestOK, Places, pc # "superseded", NEW s \in SUBSET cur.items,
         NEW v \in {"failed", "sent"}, v = "sent" => pc = "tail" /\ s = cur.items,
         UNCHANGED <<inbox, quiet, abandoned>>, report' = Told(s, v),
         cur'.items = cur.items \ s, incoming'.items = {}
  PROVE  Flow /\ IsQueue(inbox)' /\ Apart'
<1>1. incoming.items = {} /\ cur.items \cap Items(inbox) = {}
  BY DEF Places, HandOK, Apart
<1>2. s \in SUBSET Held /\ {} \in SUBSET Held
  BY DEF Held
<1>3. Held' = Held \ (s \cup {} \cup {})
  BY <1>1 DEF Held
<1>4. quiet' = quiet \cup {} /\ abandoned' = abandoned \cup {}
  OBVIOUS
<1>5. Flow
  BY <1>2, <1>3, <1>4, Zenon DEF Flow
<1>6. QED
  BY <1>1, <1>5 DEF Places, Apart

\* No request.
LEMMA NothingIsReq == Nothing \in Req /\ Nothing.items = {}
  BY DEF Nothing, Req

\* The frame in hand is given up altogether, or has been sent.
LEMMA GoIdle ==
  ASSUME RestOK, Places, pc # "superseded", Idle, UNCHANGED <<inbox, quiet, abandoned>>,
         NEW v \in {"failed", "sent"}, v = "sent" => pc = "tail",
         report' = Told(cur.items, v)
  PROVE  Flow /\ Places'
<1>1. /\ cur' = Nothing /\ incoming' = Nothing /\ pc' = "idle"
      /\ cur'.items = cur.items \ cur.items /\ incoming'.items = {}
  BY NothingIsReq DEF Idle
<1>2. Flow /\ IsQueue(inbox)' /\ Apart'
  BY <1>1, GiveUpFlow
<1>3. HandOK'
  BY <1>1, NothingIsReq DEF HandOK, Busy
<1>4. QED
  BY <1>2, <1>3 DEF Places

\* A gate refuses some items of the frame, or all.
LEMMA RefuseSome ==
  ASSUME RestOK, Places, pc \in {"admit", "wait"}, NEW s \in SUBSET cur.items,
         UNCHANGED <<inbox, incoming, quiet, abandoned>>, report' = Told(s, "failed"),
         cur' = IF s = cur.items THEN Nothing ELSE [cur EXCEPT !.items = @ \ s],
         pc' \in {"wait", "gate", "idle"}, pc' = "idle" <=> s = cur.items
  PROVE  Flow /\ Places'
<1>1. cur' \in Req /\ cur'.items = cur.items \ s
  <2>1. CASE s = cur.items
    BY <2>1, NothingIsReq
  <2>2. CASE s # cur.items
    BY <2>2 DEF Places, HandOK, Req
  <2>3. QED
    BY <2>1, <2>2
<1>2. incoming.items = {} /\ incoming \in Req
  BY DEF Places, HandOK
<1>3. Flow /\ IsQueue(inbox)' /\ Apart'
  BY <1>1, <1>2, GiveUpFlow
<1>4. HandOK'
  BY <1>1, <1>2 DEF HandOK, Busy
<1>5. QED
  BY <1>3, <1>4 DEF Places

\* The steps that keep the frame in hand, or give it up.
LEMMA FrameSteps ==
  ASSUME RestOK, Places,
         \/ CollectAborted \/ Admit \/ WaitFails \/ Reached \/ Gate \/ Key \/ HoldTooLong
         \/ Aborted \/ DisarmedOnAir \/ Release \/ Play \/ PlayedOut \/ Finish
  PROVE  Flow /\ Places'
<1> DEFINE Stays == UNCHANGED <<inbox, cur, incoming, report, quiet, abandoned>>
           Gone  == UNCHANGED <<inbox, quiet, abandoned>> /\ report' = Failed /\ Idle
<1>1. ASSUME Stays, pc \in Busy \ {"superseded"}, pc' \in Busy \ {"superseded"}
      PROVE  Flow /\ Places'
  <2>1. Flow /\ IsQueue(inbox)' /\ Apart'
    BY <1>1, StillFlow
  <2>2. HandOK'
    BY <1>1 DEF HandOK, Busy, Places
  <2>3. QED
    BY <2>1, <2>2 DEF Places
<1>2. ASSUME Gone, pc # "superseded"
      PROVE  Flow /\ Places'
  BY <1>2, GoIdle DEF Failed
<1>3. CASE CollectAborted \/ WaitFails \/ HoldTooLong \/ Aborted \/ Release
  <2>1. Gone /\ pc # "superseded"
    BY <1>3 DEF CollectAborted, WaitFails, HoldTooLong, Aborted, Release, OnAir
  <2>2. QED
    BY <1>2, <2>1
<1>4. CASE DisarmedOnAir \/ Play \/ PlayedOut
  <2>1. Stays /\ pc \in Busy \ {"superseded"} /\ pc' \in Busy \ {"superseded"}
    BY <1>4 DEF DisarmedOnAir, Play, PlayedOut, OnAir, Busy
  <2>2. QED
    BY <1>1, <2>1
<1>5. CASE Gate \/ Key
  <2>1. pc # "superseded" /\ pc \in Busy \ {"superseded"}
    BY <1>5 DEF Gate, Key, Busy
  <2>2. Gone \/ (Stays /\ pc' \in Busy \ {"superseded"})
    BY <1>5 DEF Gate, Key, KeyDenied, Busy
  <2>3. QED
    BY <1>1, <1>2, <2>1, <2>2
<1>6. CASE Admit \/ Reached
  <2>1. PICK s \in SUBSET cur.items :
           /\ report' = Told(s, "failed")
           /\ cur' = IF s = cur.items THEN Nothing ELSE [cur EXCEPT !.items = @ \ s]
           /\ pc' \in {"wait", "gate", "idle"} /\ (pc' = "idle" <=> s = cur.items)
    BY <1>6 DEF Admit, Reached, Refusable
  <2>2. pc \in {"admit", "wait"} /\ UNCHANGED <<inbox, incoming, quiet, abandoned>>
    BY <1>6 DEF Admit, Reached
  <2>3. QED
    BY <2>1, <2>2, RefuseSome
<1>7. CASE Finish
  <2>1. /\ pc = "tail" /\ Idle /\ UNCHANGED <<inbox, quiet, abandoned>>
        /\ report' = Told(cur.items, IF audio THEN "sent" ELSE "failed")
    BY <1>7 DEF Finish
  <2>2. (IF audio THEN "sent" ELSE "failed") \in {"failed", "sent"}
    OBVIOUS
  <2>3. QED
    BY <2>1, <2>2, GoIdle
<1>8. QED
  BY <1>3, <1>4, <1>5, <1>6, <1>7

\* The loop takes the first request of its inbox.
LEMMA TakeStep ==
  ASSUME RestOK, Places, Take
  PROVE  Flow /\ Places'
<1>1. /\ pc = "idle" /\ cur.items = {} /\ incoming.items = {}
      /\ UNCHANGED <<incoming, report, quiet, abandoned>>
  BY DEF Take, Places, HandOK
<1>2. CASE inbox # <<>> /\ cur' = Head(inbox) /\ inbox' = Tail(inbox)
  <2>1. /\ IsQueue(inbox') /\ cur' \in Req /\ cur'.items # {}
        /\ Items(inbox) = cur'.items \cup Items(inbox') /\ cur'.items \cap Items(inbox') = {}
    BY <1>2, TailQueue DEF Places
  <2>2. pc' \in {"admit", "collect"}
    BY <1>2 DEF Take
  <2>3. Held' = Held \ ({} \cup {} \cup {})
    BY <1>1, <2>1 DEF Held
  <2>4. report' = Told({}, "failed") /\ quiet' = quiet \cup {} /\ abandoned' = abandoned \cup {}
    BY <1>1, ToldIsLocal
  <2>5. Flow
    BY <2>3, <2>4, {} \in SUBSET Held, Zenon DEF Flow
  <2>6. HandOK' /\ Apart'
    BY <1>1, <2>1, <2>2 DEF HandOK, Apart, Busy, Places
  <2>7. QED
    BY <2>1, <2>5, <2>6 DEF Places
<1>3. CASE UNCHANGED <<cur, inbox, pc>>
  <2>1. Flow /\ IsQueue(inbox)' /\ Apart'
    BY <1>1, <1>3, StillFlow
  <2>2. HandOK'
    BY <1>1, <1>3 DEF HandOK, Places
  <2>3. QED
    BY <2>1, <2>2 DEF Places
<1>4. QED
  BY <1>2, <1>3 DEF Take

\* The least of some numbers.
LEMMA MinIsLeast ==
  ASSUME NEW S \in SUBSET Nat, S # {}
  PROVE  Min(S) \in S
<1>1. PICK x \in S : \A y \in S : ~(<<y, x>> \in OpToRel(<, Nat))
  BY WFMin, NatLessThanWellFounded
<1>2. \A y \in S : ~(y < x)
  BY <1>1, Zenon DEF OpToRel
<1>3. \A y \in S : x <= y
  BY <1>2
<1>4. QED
  BY <1>3 DEF Min

\* A request is taken out of the inbox while the frame is on the air.
LEMMA SupersededStep ==
  ASSUME RestOK, Places, Superseded
  PROVE  Flow /\ Places'
<1> DEFINE i == Min(Superseding)
<1>1. i \in DOMAIN inbox
  <2>1. Superseding \in SUBSET Nat /\ Superseding # {} /\ Superseding \subseteq DOMAIN inbox
    BY DEF Superseded, Superseding, Places, IsQueue
  <2>2. QED
    BY <2>1, MinIsLeast
<1>2. /\ incoming' = inbox[i] /\ inbox' = RemoveAt(inbox, i) /\ pc' = "superseded"
      /\ UNCHANGED <<cur, report, quiet, abandoned>> /\ pc \in {"lead", "playing"}
  BY DEF Superseded, PolledInbox, OnAir
<1> HIDE DEF i
<1>3. /\ IsQueue(inbox') /\ incoming' \in Req /\ incoming'.items # {}
      /\ Items(inbox) = incoming'.items \cup Items(inbox')
      /\ incoming'.items \cap Items(inbox') = {}
  BY <1>1, <1>2, RemovedFromQueue DEF Places
<1>4. /\ cur.items # {} /\ cur \in Req /\ incoming.items = {}
      /\ cur.items \cap Items(inbox) = {}
  BY <1>2 DEF Places, HandOK, Busy, Apart
<1>5. Held' = Held \ ({} \cup {} \cup {})
  BY <1>2, <1>3, <1>4 DEF Held
<1>6. report' = Told({}, "failed") /\ quiet' = quiet \cup {} /\ abandoned' = abandoned \cup {}
  BY <1>2, ToldIsLocal
<1>7. Flow
  BY <1>5, <1>6, {} \in SUBSET Held, Zenon DEF Flow
<1>8. HandOK' /\ Apart'
  BY <1>2, <1>3, <1>4 DEF HandOK, Apart
<1>9. QED
  BY <1>3, <1>7, <1>8 DEF Places

\* What is known of a frame that is being superseded.
LEMMA BothInHand ==
  ASSUME Places, pc = "superseded"
  PROVE  /\ cur \in Req /\ cur.items # {} /\ incoming \in Req /\ incoming.items # {}
         /\ cur.items \cap Items(inbox) = {} /\ incoming.items \cap Items(inbox) = {}
         /\ cur.items \cap incoming.items = {} /\ IsQueue(inbox)
         /\ cur.items \subseteq Held /\ incoming.items \subseteq Held
         /\ Held = Items(inbox) \cup cur.items \cup incoming.items
  BY DEF Places, HandOK, Apart, Busy, Held

\* The worker goes idle and leaves the inbox, with or without a request put
\* back in front.
LEMMA BackToInbox ==
  ASSUME RestOK, Places, pc = "superseded", Idle, IsQueue(inbox'),
         NEW told \in SUBSET Held, NEW dropped \in SUBSET Held, NEW left \in SUBSET Held,
         Items(inbox') = Held \ (told \cup dropped \cup left),
         report' = Told(told, "failed"), quiet' = quiet \cup dropped,
         abandoned' = abandoned \cup left
  PROVE  Flow /\ Places'
<1>1. cur' = Nothing /\ incoming' = Nothing /\ pc' = "idle"
  BY DEF Idle
<1>2. Held' = Held \ (told \cup dropped \cup left)
  BY <1>1, NothingIsReq DEF Held
<1>3. Flow
  BY <1>2, Zenon DEF Flow
<1>4. HandOK' /\ Apart'
  BY <1>1, NothingIsReq DEF HandOK, Apart, Busy
<1>5. QED
  BY <1>3, <1>4 DEF Places

\* The frame gives way, too late to be keyed again.
LEMMA NotViableStep ==
  ASSUME RestOK, Places, SupersedeNotViable
  PROVE  Flow /\ Places'
<1>1. /\ pc = "superseded" /\ Idle /\ report' = Told(cur.items, "failed") /\ UNCHANGED abandoned
      /\ abandoned' = abandoned \cup {} /\ {} \in SUBSET Held
  BY DEF SupersedeNotViable, Failed
<1>2. CASE inbox' = <<incoming>> \o inbox /\ UNCHANGED quiet
  <2>1. IsQueue(inbox') /\ Items(inbox') = incoming.items \cup Items(inbox)
    BY <1>1, <1>2, BothInHand, PutInQueue
  <2>2. Items(inbox') = Held \ (cur.items \cup {} \cup {}) /\ quiet' = quiet \cup {}
    BY <1>1, <1>2, <2>1, BothInHand
  <2>3. QED
    BY <1>1, <2>1, <2>2, BothInHand, BackToInbox
<1>3. CASE quiet' = quiet \cup incoming.items /\ UNCHANGED inbox
  <2>1. IsQueue(inbox') /\ Items(inbox') = Held \ (cur.items \cup incoming.items \cup {})
    BY <1>1, <1>3, BothInHand
  <2>2. QED
    BY <1>1, <1>3, <2>1, BothInHand, BackToInbox
<1>4. QED
  BY <1>2, <1>3 DEF SupersedeNotViable

\* The frame is replaced in the worker's hand.
LEMMA ReplaceStep ==
  ASSUME RestOK, Places, SupersedeReplace
  PROVE  Flow /\ Places'
<1>1. /\ pc = "superseded" /\ cur' = incoming /\ incoming' = Nothing /\ pc' = "wait"
      /\ report' = Told(cur.items, "failed") /\ UNCHANGED <<inbox, quiet, abandoned>>
  BY DEF SupersedeReplace, Failed
<1>2. Held' = Held \ (cur.items \cup {} \cup {})
  BY <1>1, BothInHand, NothingIsReq DEF Held
<1>3. /\ cur.items \in SUBSET Held /\ {} \in SUBSET Held
      /\ quiet' = quiet \cup {} /\ abandoned' = abandoned \cup {}
  BY <1>1, BothInHand
<1>4. Flow
  BY <1>1, <1>2, <1>3, Zenon DEF Flow
<1>5. IsQueue(inbox)' /\ HandOK' /\ Apart'
  BY <1>1, BothInHand, NothingIsReq DEF HandOK, Apart, Busy
<1>6. QED
  BY <1>4, <1>5 DEF Places

\* A bundle or the request that came for it goes back to the inbox.
LEMMA MultiReplaceStep ==
  ASSUME RestOK, Places, SupersedeMultiReplace
  PROVE  Flow /\ Places'
<1>1. /\ pc = "superseded" /\ Idle /\ quiet' = quiet \cup {} /\ abandoned' = abandoned \cup {}
      /\ {} \in SUBSET Held
  BY DEF SupersedeMultiReplace
<1>2. CASE report' = Failed /\ inbox' = <<incoming>> \o inbox
  <2>1. IsQueue(inbox') /\ Items(inbox') = incoming.items \cup Items(inbox)
    BY <1>1, <1>2, BothInHand, PutInQueue
  <2>2. Items(inbox') = Held \ (cur.items \cup {} \cup {}) /\ report' = Told(cur.items, "failed")
    BY <1>1, <1>2, <2>1, BothInHand DEF Failed
  <2>3. QED
    BY <1>1, <2>1, <2>2, BothInHand, BackToInbox
<1>3. CASE report' = ReplacedBundleReport(incoming.items) /\ inbox' = OverCapQueue
  <2>1. IsQueue(inbox') /\ Items(inbox') = cur.items \cup Items(inbox)
    BY <1>1, <1>3, BothInHand, PutInQueue DEF OverCapQueue
  <2>2. /\ Items(inbox') = Held \ (incoming.items \cup {} \cup {})
        /\ report' = Told(incoming.items, "failed")
    BY <1>1, <1>3, <2>1, BothInHand DEF ReplacedBundleReport
  <2>3. QED
    BY <1>1, <2>1, <2>2, BothInHand, BackToInbox
<1>4. QED
  BY <1>2, <1>3 DEF SupersedeMultiReplace

\* The frame and the request go back to the inbox as one bundle.
LEMMA BundleStep ==
  ASSUME RestOK, Places, SupersedeBundle
  PROVE  Flow /\ Places'
<1>1. /\ pc = "superseded" /\ Idle /\ quiet' = quiet \cup {} /\ UNCHANGED report
      /\ {} \in SUBSET Held
  BY DEF SupersedeBundle
<1>2. report' = Told({}, "failed")
  BY <1>1, ToldIsLocal
<1>3. Candidate \subseteq cur.items \cup incoming.items /\ incoming.items \subseteq Candidate
  BY DEF Candidate
<1>4. CASE inbox' = <<Bundle>> \o inbox /\ abandoned' = abandoned \cup (cur.items \ Candidate)
  <2>1. Bundle \in Req /\ Bundle.items = Candidate
    BY <1>1, <1>3, BothInHand DEF Bundle, Req
  <2>2. Candidate # {} /\ Candidate \cap Items(inbox) = {}
    BY <1>1, <1>3, BothInHand
  <2>3. IsQueue(inbox') /\ Items(inbox') = Candidate \cup Items(inbox)
    BY <1>1, <1>4, <2>1, <2>2, BothInHand, PutInQueue
  <2>4. Items(inbox') = Held \ ({} \cup {} \cup (cur.items \ Candidate))
    BY <1>1, <1>3, <2>3, BothInHand
  <2>5. cur.items \ Candidate \in SUBSET Held
    BY <1>1, BothInHand
  <2>6. QED
    BY <1>1, <1>2, <1>4, <2>3, <2>4, <2>5, BackToInbox
<1>5. CASE inbox' = <<incoming>> \o inbox /\ abandoned' = abandoned \cup cur.items
  <2>1. IsQueue(inbox') /\ Items(inbox') = incoming.items \cup Items(inbox)
    BY <1>1, <1>5, BothInHand, PutInQueue
  <2>2. Items(inbox') = Held \ ({} \cup {} \cup cur.items) /\ cur.items \in SUBSET Held
    BY <1>1, <2>1, BothInHand
  <2>3. QED
    BY <1>1, <1>2, <1>5, <2>1, <2>2, BackToInbox
<1>6. QED
  BY <1>4, <1>5 DEF SupersedeBundle

\* The requests that are drained are the front of the inbox.
LEMMA DrainedFront ==
  ASSUME IsQueue(inbox)
  PROVE  /\ IsQueue(Drained) /\ IsQueue(SubSeq(inbox, Len(Drained) + 1, Len(inbox)))
         /\ Items(inbox) = Items(Drained) \cup Items(SubSeq(inbox, Len(Drained) + 1, Len(inbox)))
         /\ Items(Drained) \cap Items(SubSeq(inbox, Len(Drained) + 1, Len(inbox))) = {}
<1> DEFINE bundle == {i \in DOMAIN inbox : inbox[i].multi}
<1>1. inbox \in Seq(Req) /\ Len(inbox) \in Nat /\ DOMAIN inbox = 1 .. Len(inbox)
  BY DEF IsQueue
<1>2. PICK m \in 0 .. Len(inbox) : Drained = SubSeq(inbox, 1, m)
  <2>1. CASE bundle = {}
    <3>1. Drained = SubSeq(inbox, 1, Len(inbox))
      BY <1>1, <2>1, SubSeqFull DEF Drained
    <3>2. Len(inbox) \in 0 .. Len(inbox)
      BY <1>1
    <3>3. QED
      BY <3>1, <3>2, Zenon
  <2>2. CASE bundle # {}
    <3>1. bundle \in SUBSET Nat /\ bundle \subseteq 1 .. Len(inbox)
      BY <1>1
    <3>2. Drained = SubSeq(inbox, 1, Min(bundle) - 1)
      BY <2>2 DEF Drained
    <3> HIDE DEF bundle
    <3>3. Min(bundle) \in 1 .. Len(inbox)
      BY <2>2, <3>1, MinIsLeast
    <3>4. Min(bundle) - 1 \in 0 .. Len(inbox)
      BY <1>1, <3>3
    <3>5. QED
      BY <3>2, <3>4
  <2>3. QED
    BY <2>1, <2>2
<1>3. Len(Drained) = m
  BY <1>2, CutQueue
<1>4. QED
  BY <1>2, <1>3, CutQueue

\* A request made of some attempts is for these attempts.
LEMMA RequestOf ==
  ASSUME NEW items \in SUBSET Attempt, items # {}
  PROVE  Request(items) \in Req /\ Request(items).items = items
<1>1. IsFiniteSet(Attempt)
  <2>1. 1 \in Int /\ Attempts \in Int
    BY TxWorkerAssumption
  <2>2. QED
    BY <2>1, FS_Interval DEF Attempt
<1>2. IsFiniteSet(items)
  BY <1>1, FS_Subset
<1>3. CASE Cardinality(items) = 1
  <2>1. PICK x : items = {x}
    BY <1>2, <1>3, FS_Singleton
  <2>2. (CHOOSE a \in items : TRUE) = x /\ x \in Attempt
    BY <2>1
  <2>3. Request(items) = Single(x)
    BY <1>3, <2>2 DEF Request
  <2>4. ClientOf[x] \in Client \cup {Local}
    BY <2>2, TxWorkerAssumption
  <2>5. Request(items) = [multi |-> FALSE, items |-> items, client |-> ClientOf[x]]
    BY <2>1, <2>3 DEF Single
  <2>6. QED
    BY <2>4, <2>5 DEF Req
<1>4. CASE Cardinality(items) # 1
  <2>1. Fold(items) \in Client \cup {Local}
    <3> DEFINE remote == {ClientOf[a] : a \in items} \ {Local}
    <3>1. remote \subseteq Client
      BY TxWorkerAssumption
    <3>2. CASE remote = {}
      BY <3>2 DEF Fold
    <3>3. CASE remote # {}
      <4>1. (CHOOSE c \in remote : TRUE) \in remote
        BY <3>3
      <4>2. Fold(items) = CHOOSE c \in remote : TRUE
        BY <3>3 DEF Fold
      <4>3. QED
        BY <3>1, <4>1, <4>2
    <3>4. QED
      BY <3>2, <3>3
  <2>2. Request(items) = [multi |-> TRUE, items |-> items, client |-> Fold(items)]
    BY <1>4 DEF Request
  <2>3. QED
    BY <2>1, <2>2 DEF Req
<1>5. QED
  BY <1>3, <1>4

\* The backlog is folded into one request; every attempt of it is kept, told
\* of or dropped.
LEMMA CoalesceStep ==
  ASSUME RestOK, Places, Coalesce
  PROVE  Flow /\ Places'
<1> DEFINE s        == <<cur>> \o Drained
           back     == SubSeq(inbox, Len(Drained) + 1, Len(inbox))
           admitted == {a \in Items(s) : Permitted(ClientOf[a])}
           newest   == IF Cardinality(admitted) = 1 THEN admitted ELSE Newest(s, admitted)
<1>1. /\ pc = "collect" /\ inbox' = back /\ UNCHANGED <<incoming, abandoned>>
      /\ cur \in Req /\ cur.items # {} /\ incoming \in Req /\ incoming.items = {}
  BY DEF Coalesce, Places, HandOK, Busy
<1>2. /\ IsQueue(Drained) /\ IsQueue(back) /\ Items(inbox) = Items(Drained) \cup Items(back)
      /\ Items(Drained) \cap Items(back) = {}
  BY DrainedFront DEF Places
<1>3. cur.items \cap Items(inbox) = {}
  BY DEF Places, Apart
<1>4. Items(s) = cur.items \cup Items(Drained)
  <2>1. cur.items \cap Items(Drained) = {}
    BY <1>2, <1>3
  <2>2. QED
    BY <1>1, <1>2, <2>1, PutInQueue
<1>5. Items(s) \cap Items(back) = {} /\ Held = Items(s) \cup Items(back)
  BY <1>1, <1>2, <1>3, <1>4 DEF Held
<1>6. newest \subseteq admitted /\ admitted \subseteq Items(s)
  BY DEF Newest
<1>7. PICK excluded \in SUBSET newest, kept \in SUBSET newest :
         /\ kept \cap excluded = {}
         /\ report' = Told((Items(s) \ admitted) \cup (newest \ (excluded \cup kept)), "failed")
         /\ quiet' = quiet \cup (admitted \ newest) \cup excluded
         /\ cur' = IF kept = {} THEN Nothing ELSE Request(kept)
         /\ pc' = IF kept = {} THEN "idle" ELSE "admit"
  <2>1. PICK excluded \in IF Cardinality(admitted) = 1 THEN {{}} ELSE SUBSET newest :
        \E kept \in SUBSET (newest \ excluded) :
           /\ report' = Told((Items(s) \ admitted) \cup (newest \ (excluded \cup kept)), "failed")
           /\ quiet' = quiet \cup (admitted \ newest) \cup excluded
           /\ cur' = IF kept = {} THEN Nothing ELSE Request(kept)
           /\ pc' = IF kept = {} THEN "idle" ELSE "admit"
    BY Zenon DEF Coalesce
  <2> HIDE DEF s, admitted, newest
  <2>2. excluded \in SUBSET newest
    BY <2>1
  <2>3. \A kept \in SUBSET (newest \ excluded) : kept \in SUBSET newest /\ kept \cap excluded = {}
    OBVIOUS
  <2>4. QED
    BY <2>1, <2>2, <2>3, Zenon
<1> HIDE DEF s, admitted, newest, back
<1> DEFINE told    == (Items(s) \ admitted) \cup (newest \ (excluded \cup kept))
           dropped == (admitted \ newest) \cup excluded
<1>8. kept \subseteq Attempt
  BY <1>5, <1>6, HeldIsAttempts
<1>9. /\ cur' \in Req /\ cur'.items = kept /\ (kept = {} => pc' = "idle")
      /\ (kept # {} => pc' = "admit")
  BY <1>7, <1>8, RequestOf, NothingIsReq
<1>10. /\ told \in SUBSET Held /\ dropped \in SUBSET Held /\ {} \in SUBSET Held
       /\ kept = Items(s) \ (told \cup dropped)
  BY <1>5, <1>6, <1>7
<1>11. Held' = Held \ (told \cup dropped \cup {})
  <2>1. Held' = kept \cup Items(back)
    BY <1>1, <1>9 DEF Held
  <2>2. told \cup dropped \subseteq Items(s)
    BY <1>6
  <2>3. QED
    BY <1>5, <1>10, <2>1, <2>2
<1>12. Flow
  <2>1. quiet' = quiet \cup dropped /\ abandoned' = abandoned \cup {}
    BY <1>1, <1>7
  <2>2. report' = Told(told, "failed")
    BY <1>7
  <2> HIDE DEF told, dropped
  <2>3. QED
    BY <1>10, <1>11, <2>1, <2>2, Zenon DEF Flow
<1>13. IsQueue(inbox)' /\ HandOK' /\ Apart'
  <2>1. kept \cap Items(back) = {}
    BY <1>5, <1>6
  <2>2. QED
    BY <1>1, <1>2, <1>9, <2>1 DEF HandOK, Apart, Busy
<1>14. QED
  BY <1>12, <1>13 DEF Places

\* Shutdown, and the task of a dropped guard, move no request.
LEMMA OtherTaskSteps ==
  ASSUME RestOK, Places, Stop \/ DropTask
  PROVE  Flow /\ Places'
<1>1. /\ UNCHANGED <<inbox, cur, incoming, report, quiet, abandoned>>
      /\ pc' = pc \/ (pc # "superseded" /\ pc' = "stopped")
  BY DEF Stop, DropTask
<1>2. Flow /\ IsQueue(inbox)' /\ Apart'
  BY <1>1, StillFlow
<1>3. HandOK'
  BY <1>1 DEF HandOK, Places, Busy
<1>4. QED
  BY <1>2, <1>3 DEF Places

\* Every step of the worker's tasks is a flow.
LEMMA FlowStep ==
  ASSUME RestOK, Places, Worker \/ Stop \/ DropTask
  PROVE  Flow /\ Places'
  BY FrameSteps, TakeStep, CoalesceStep, SupersededStep, NotViableStep, ReplaceStep,
     MultiReplaceStep, BundleStep, OtherTaskSteps DEF Worker

-----------------------------------------------------------------------------
(* What follows for the reports. *)

\* What a flow does to one attempt's report.
LEMMA FlowReports ==
  ASSUME RestOK, Places, HeldIsFresh, Flow
  PROVE  /\ report' \in [Attempt -> {"none", "failed", "sent", "twice"}]
         /\ Held' \subseteq Held /\ quiet \subseteq quiet' /\ abandoned \subseteq abandoned'
         /\ quiet' \subseteq Attempt /\ abandoned' \subseteq Attempt
         /\ \A a \in Attempt :
               \/ report'[a] = report[a] /\ (a \in Held \ Held' => a \in quiet' \cup abandoned')
               \/ report'[a] \in {"failed", "sent"} /\ a \in Held \ Held'
         /\ \A a \in Attempt :
               report'[a] = "sent" => report[a] = "sent" \/ (pc = "tail" /\ a \in cur.items)
<1>1. PICK told \in SUBSET Held, dropped \in SUBSET Held, left \in SUBSET Held,
           verdict \in {"failed", "sent"} :
         /\ Held' = Held \ (told \cup dropped \cup left)
         /\ report' = Told(told, verdict)
         /\ quiet' = quiet \cup dropped
         /\ abandoned' = abandoned \cup left
         /\ verdict = "sent" => pc = "tail" /\ told = cur.items
  BY Zenon DEF Flow
<1>2. Held \subseteq Attempt /\ \A a \in Held : report[a] = "none"
  BY HeldIsAttempts DEF HeldIsFresh
<1>3. /\ DOMAIN report' = Attempt
      /\ \A a \in Attempt \ told : report'[a] = report[a]
      /\ \A a \in told : report'[a] = verdict
  BY <1>1, <1>2, ToldIsLocal
<1>4. report' \in [Attempt -> {"none", "failed", "sent", "twice"}]
  <2>1. \A a \in Attempt : report'[a] \in {"none", "failed", "sent", "twice"}
    BY <1>3 DEF RestOK
  <2>2. report' = [a \in Attempt |-> report'[a]]
    BY <1>1 DEF Told
  <2>3. QED
    BY <2>1, <2>2
<1>5. /\ Held' \subseteq Held /\ quiet \subseteq quiet' /\ abandoned \subseteq abandoned'
      /\ quiet' \subseteq Attempt /\ abandoned' \subseteq Attempt
  BY <1>1, <1>2 DEF RestOK
<1>6. ASSUME NEW a \in Attempt
      PROVE  \/ report'[a] = report[a] /\ (a \in Held \ Held' => a \in quiet' \cup abandoned')
             \/ report'[a] \in {"failed", "sent"} /\ a \in Held \ Held'
  <2>1. CASE a \in told
    BY <1>1, <1>3, <2>1
  <2>2. CASE a \notin told
    BY <1>1, <1>3, <2>2
  <2>3. QED
    BY <2>1, <2>2
<1>7. ASSUME NEW a \in Attempt, report'[a] = "sent", report[a] # "sent"
      PROVE  pc = "tail" /\ a \in cur.items
  BY <1>1, <1>3, <1>7
<1>8. QED
  BY <1>4, <1>5, <1>6, <1>7

\* A flow keeps the reports right.
LEMMA FlowKeepsReports ==
  ASSUME RestOK, Places, HeldIsFresh, ReportedOnce, FrameIsAccounted, Flow, UNCHANGED next,
         pc = "stopped" => pc' = "stopped"
  PROVE  HeldIsFresh' /\ ReportedOnce' /\ FrameIsAccounted'
<1>1. Held \subseteq Attempt /\ \A a \in Held : a < next /\ report[a] = "none"
  BY HeldIsAttempts DEF HeldIsFresh
<1>2. /\ Held' \subseteq Held /\ quiet \subseteq quiet' /\ abandoned \subseteq abandoned'
      /\ \A a \in Attempt :
            \/ report'[a] = report[a] /\ (a \in Held \ Held' => a \in quiet' \cup abandoned')
            \/ report'[a] \in {"failed", "sent"} /\ a \in Held \ Held'
  BY FlowReports
<1>3. HeldIsFresh'
  <2>1. next \in Int /\ \A a \in Attempt : a \in Int
    BY TxWorkerAssumption DEF RestOK, Attempt
  <2>2. ASSUME NEW a \in Attempt, a >= next
        PROVE  report'[a] = "none"
    <3>1. a \notin Held /\ report[a] = "none"
      BY <1>1, <2>1, <2>2 DEF HeldIsFresh
    <3>2. QED
      BY <1>2, <3>1
  <2>3. ASSUME NEW a \in Held'
        PROVE  a < next /\ report'[a] = "none"
    BY <1>1, <1>2
  <2>4. QED
    BY <2>2, <2>3 DEF HeldIsFresh
<1>4. ReportedOnce'
  BY <1>2 DEF ReportedOnce
<1>5. FrameIsAccounted'
  <2> SUFFICES ASSUME pc' # "stopped", NEW a \in 1..(next - 1), a \notin Held' \cup quiet',
                      report'[a] = "none"
               PROVE  a \in abandoned'
    BY DEF FrameIsAccounted, Unaccounted
  <2>1. a \in Attempt
    BY TxWorkerAssumption DEF RestOK, Attempt
  <2>2. report'[a] = report[a] /\ (a \in Held \ Held' => a \in quiet' \cup abandoned')
    BY <1>2, <2>1
  <2>3. CASE a \in Held
    BY <2>2, <2>3
  <2>4. CASE a \notin Held
    <3>1. a \in Unaccounted
      BY <1>2, <2>2, <2>4 DEF Unaccounted
    <3>2. QED
      BY <1>2, <3>1 DEF FrameIsAccounted
  <2>5. QED
    BY <2>3, <2>4
<1>6. QED
  BY <1>3, <1>4, <1>5

\* A number below m and not from n on is below n.
LEMMA BelowNext ==
  ASSUME NEW n \in Nat, NEW m \in Int, NEW a \in 1..(m - 1), a \notin n..(m - 1)
  PROVE  a \in 1..(n - 1)
  OBVIOUS

\* A new request is for attempts that have no history.
LEMMA IssueStep ==
  ASSUME RestOK, Places, HeldIsFresh, ReportedOnce, FrameIsAccounted, Issue
  PROVE  /\ Places' /\ HeldIsFresh' /\ ReportedOnce' /\ FrameIsAccounted'
         /\ next' \in 1..Attempts + 1
<1>1. /\ UNCHANGED <<pc, cur, incoming, report, quiet, abandoned>>
      /\ next \in Nat /\ next >= 1 /\ next <= Attempts /\ Attempts \in Nat
  BY TxWorkerAssumption DEF Issue, RestOK
<1>2. PICK r \in Req : /\ inbox' = Append(inbox, r) /\ r.items # {}
                       /\ r.items = next..(next' - 1)
                       /\ next' \in {next + 1, next + 2} /\ next' <= Attempts + 1
  <2>1. CASE inbox' = Append(inbox, Single(next)) /\ next' = next + 1
    <3>1. next \in Attempt
      BY <1>1 DEF Attempt
    <3>2. Single(next) \in Req /\ Single(next).items = {next}
      BY <3>1, TxWorkerAssumption DEF Single, Req
    <3>3. {next} = next..(next' - 1) /\ next' <= Attempts + 1
      BY <1>1, <2>1
    <3>4. QED
      BY <2>1, <3>2, <3>3
  <2>2. CASE /\ next < Attempts /\ next' = next + 2
             /\ inbox' = Append(inbox, [multi |-> TRUE, items |-> {next, next + 1}, client |-> Local])
    <3> DEFINE r == [multi |-> TRUE, items |-> {next, next + 1}, client |-> Local]
    <3>1. next \in Attempt /\ next + 1 \in Attempt
      BY <1>1, <2>2 DEF Attempt
    <3>2. r \in Req /\ r.items = {next, next + 1}
      BY <3>1 DEF Req
    <3>3. {next, next + 1} = next..(next' - 1) /\ next' <= Attempts + 1
      BY <1>1, <2>2
    <3>4. QED
      BY <2>2, <3>2, <3>3
  <2>3. QED
    BY <2>1, <2>2 DEF Issue
<1>3. \A a \in r.items : a \in Nat /\ a >= next /\ a < next' /\ a \in Attempt
  BY <1>1, <1>2 DEF Req
<1>4. r.items \cap Held = {}
  BY <1>1, <1>3 DEF HeldIsFresh
<1>5. IsQueue(inbox') /\ Items(inbox') = r.items \cup Items(inbox)
  BY <1>2, <1>4, PutInQueue DEF Places, Held
<1>6. Held' = Held \cup r.items
  BY <1>1, <1>5 DEF Held
<1>7. Places'
  BY <1>1, <1>4, <1>5 DEF Places, HandOK, Apart, Held
<1>8. HeldIsFresh'
  <2>1. \A a \in Held : a \in Int /\ a < next /\ report[a] = "none"
    BY HeldIsAttempts DEF HeldIsFresh, Attempt
  <2>2. \A a \in r.items : report[a] = "none"
    BY <1>3 DEF HeldIsFresh
  <2>3. \A a \in Held' : a < next' /\ report'[a] = "none"
    BY <1>1, <1>2, <1>3, <1>6, <2>1, <2>2
  <2>4. \A a \in Attempt : a >= next' => a >= next
    BY <1>1, <1>2 DEF Attempt
  <2>5. QED
    BY <1>1, <2>3, <2>4 DEF HeldIsFresh
<1>9. FrameIsAccounted'
  <2> SUFFICES ASSUME pc # "stopped", NEW a \in 1..(next' - 1), a \notin Held' \cup quiet,
                      report[a] = "none"
               PROVE  a \in abandoned
    BY <1>1 DEF FrameIsAccounted, Unaccounted
  <2>1. a \notin next..(next' - 1) /\ a \notin Held
    BY <1>2, <1>6
  <2>2. a \in 1..(next - 1)
    <3>1. next' \in Int
      BY <1>1, <1>2
    <3>2. QED
      BY <1>1, <2>1, <3>1, BelowNext
  <2>3. QED
    BY <2>1, <2>2 DEF FrameIsAccounted, Unaccounted
<1>10. ReportedOnce' /\ next' \in 1..Attempts + 1
  BY <1>1, <1>2 DEF ReportedOnce
<1>11. QED
  BY <1>7, <1>8, <1>9, <1>10

-----------------------------------------------------------------------------
(* The worker's flags, the guard and the halt. *)

\* What is left of RestOK beside the reports and the history of requests.
WorkOK ==
    /\ pc \in Busy \cup {"idle", "stopped"}
    /\ guard \in BOOLEAN /\ audio \in BOOLEAN /\ abort \in BOOLEAN
    /\ ptt \in {"on", "off"}
    /\ keyed \subseteq Attempt /\ offLost \in BOOLEAN

\* The worker's flags stay flags.
LEMMA WorkStep ==
  ASSUME WorkOK, cur.items \subseteq Attempt, Worker \/ Stop \/ DropTask
  PROVE  WorkOK'
<1> USE DEF WorkOK, Busy
<1>1. CASE Take \/ CollectAborted \/ Coalesce
  BY <1>1 DEF Take, CollectAborted, Coalesce, Idle
<1>2. CASE Admit \/ WaitFails \/ Reached
  BY <1>2 DEF Admit, WaitFails, Reached, Idle
<1>3. CASE Gate \/ Key
  BY <1>3 DEF Gate, Key, KeyDenied, Idle
<1>4. CASE HoldTooLong \/ Aborted \/ DisarmedOnAir \/ Release
  BY <1>4 DEF HoldTooLong, Aborted, DisarmedOnAir, Release, PlainOff, Disarmed, GuardDrop, Idle
<1>5. CASE Play \/ PlayedOut \/ Finish \/ Superseded
  BY <1>5 DEF Play, PlayedOut, Finish, Superseded, PlainOff, Disarmed, GuardDrop, Idle
<1>6. CASE SupersedeNotViable
  BY <1>6 DEF SupersedeNotViable, PlainOff, Disarmed, GuardDrop, Idle
<1>7. CASE SupersedeReplace \/ SupersedeMultiReplace \/ SupersedeBundle
  BY <1>7 DEF SupersedeReplace, SupersedeMultiReplace, SupersedeBundle, BundleOff, PlainOff,
     Disarmed, Idle
<1>8. CASE Stop \/ DropTask
  BY <1>8 DEF Stop, DropTask, PlainOff, Disarmed, GuardDrop
<1>9. QED
  BY <1>1, <1>2, <1>3, <1>4, <1>5, <1>6, <1>7, <1>8 DEF Worker

\* The guard-drop tasks are counted.
LEMMA DropsStep ==
  ASSUME drops \in Nat, Worker \/ Stop \/ DropTask
  PROVE  drops' \in Nat
<1>1. CASE Worker \/ Stop
  <2>1. UNCHANGED drops \/ GuardDrop
    <3>1. CASE Take \/ CollectAborted \/ Coalesce \/ Admit \/ WaitFails \/ Reached \/ Gate
      BY <3>1 DEF Take, CollectAborted, Coalesce, Admit, WaitFails, Reached, Gate
    <3>2. CASE \/ Key \/ HoldTooLong \/ Aborted \/ DisarmedOnAir \/ Release \/ Play \/ PlayedOut
               \/ Finish
      BY <3>2 DEF Key, HoldTooLong, Aborted, DisarmedOnAir, Release, Play, PlayedOut, Finish,
         Disarmed
    <3>3. CASE \/ Superseded \/ SupersedeNotViable \/ SupersedeReplace \/ SupersedeMultiReplace
               \/ SupersedeBundle \/ Stop
      BY <3>3 DEF Superseded, SupersedeNotViable, SupersedeReplace, SupersedeMultiReplace,
         SupersedeBundle, Stop, Disarmed
    <3>4. QED
      BY <1>1, <3>1, <3>2, <3>3 DEF Worker
  <2>2. QED
    BY <2>1 DEF GuardDrop
<1>2. CASE DropTask
  BY <1>2 DEF DropTask
<1>3. QED
  BY <1>1, <1>2

\* Every way out of a keyed frame sends PTT-off or leaves a task that does.
LEMMA GuardStep ==
  ASSUME RestOK, GuardIsArmed, Worker \/ Stop \/ DropTask
  PROVE  GuardIsArmed'
<1> USE DEF GuardIsArmed, RestOK, Keying, Busy
<1>1. CASE Take \/ CollectAborted \/ Coalesce
  BY <1>1 DEF Take, CollectAborted, Coalesce, Idle
<1>2. CASE Admit \/ WaitFails \/ Reached
  BY <1>2 DEF Admit, WaitFails, Reached, Idle
<1>3. CASE Gate
  BY <1>3 DEF Gate, Idle
<1>4. CASE Key
  BY <1>4 DEF Key, KeyDenied, Idle
<1>5. CASE HoldTooLong \/ Aborted \/ DisarmedOnAir \/ Release
  BY <1>5 DEF HoldTooLong, Aborted, DisarmedOnAir, Release, OnAir, PlainOff, Disarmed, GuardDrop,
     Idle
<1>6. CASE Play \/ PlayedOut \/ Finish \/ Superseded
  BY <1>6 DEF Play, PlayedOut, Finish, Superseded, OnAir, PlainOff, Disarmed, GuardDrop, Idle
<1>7. CASE SupersedeNotViable
  BY <1>7 DEF SupersedeNotViable, PlainOff, Disarmed, GuardDrop, Idle
<1>8. CASE SupersedeReplace \/ SupersedeMultiReplace \/ SupersedeBundle
  BY <1>8 DEF SupersedeReplace, SupersedeMultiReplace, SupersedeBundle, BundleOff, PlainOff,
     Disarmed, Idle
<1>9. CASE Stop \/ DropTask
  BY <1>9 DEF Stop, DropTask, PlainOff, Disarmed, GuardDrop
<1>10. QED
  BY <1>1, <1>2, <1>3, <1>4, <1>5, <1>6, <1>7, <1>8, <1>9 DEF Worker

\* A halted frame is given up before it is at its tail.
LEMMA HaltStep ==
  ASSUME RestOK, Places, HeldIsFresh, HaltIsKept, Flow, Worker \/ Stop \/ DropTask, UNCHANGED env
  PROVE  HaltIsKept'
<1>1. UNCHANGED <<doomed, muted>>
  BY DEF env
<1>2. \A a \in doomed : report'[a] # "sent"
  BY FlowReports DEF HaltIsKept, RestOK
<1> DEFINE Kept == cur.items \cap doomed # {} =>
                      /\ pc # "tail"
                      /\ pc \in {"key", "lead", "playing", "superseded"} => abort
<1>3. ASSUME cur' = Nothing PROVE Kept'
  BY <1>3, NothingIsReq
<1>4. ASSUME pc' \notin {"tail", "key", "lead", "playing", "superseded"} PROVE Kept'
  BY <1>4
<1>5. ASSUME UNCHANGED <<cur, pc, abort>> PROVE Kept'
  BY <1>1, <1>5 DEF HaltIsKept
<1>6. Kept'
  <2>1. CASE Take
    BY <1>4, <2>1 DEF Take
  <2>2. CASE Coalesce \/ Admit \/ Reached \/ SupersedeReplace \/ DisarmedOnAir \/ Stop
    <3>1. pc' \notin {"tail", "key", "lead", "playing", "superseded"}
      BY <2>2 DEF Coalesce, Admit, Reached, SupersedeReplace, DisarmedOnAir, Stop
    <3>2. QED
      BY <1>4, <3>1
  <2>3. CASE CollectAborted \/ WaitFails \/ HoldTooLong \/ Aborted \/ Release \/ Finish
    BY <1>3, <2>3 DEF CollectAborted, WaitFails, HoldTooLong, Aborted, Release, Finish, Idle
  <2>4. CASE Gate
    BY <1>1, <1>3, <2>4 DEF Gate, Idle, HaltIsKept
  <2>5. CASE Key
    BY <1>1, <1>3, <2>5 DEF Key, KeyDenied, Idle, HaltIsKept
  <2>6. CASE Play \/ PlayedOut
    BY <1>1, <2>6 DEF Play, PlayedOut, Calm, HaltIsKept
  <2>7. CASE Superseded
    BY <1>1, <2>7 DEF Superseded, OnAir, Calm, HaltIsKept
  <2>8. CASE SupersedeNotViable \/ SupersedeMultiReplace \/ SupersedeBundle
    BY <1>3, <2>8 DEF SupersedeNotViable, SupersedeMultiReplace, SupersedeBundle, Idle
  <2>9. CASE DropTask
    BY <1>5, <2>9 DEF DropTask
  <2>10. QED
    BY <2>1, <2>2, <2>3, <2>4, <2>5, <2>6, <2>7, <2>8, <2>9 DEF Worker
<1>7. QED
  BY <1>1, <1>2, <1>6 DEF HaltIsKept

-----------------------------------------------------------------------------
\* A step of the worker's tasks keeps the invariant.
LEMMA TaskStep ==
  ASSUME TxInv, Worker \/ Stop \/ DropTask, UNCHANGED env
  PROVE  TxInv'
<1>1. RestOK /\ Places /\ HeldIsFresh /\ ReportedOnce /\ FrameIsAccounted
  BY DEF TxInv, Places
<1>2. Flow /\ Places'
  BY <1>1, FlowStep
<1>3. WorkOK' /\ drops' \in Nat
  <2>1. WorkOK /\ drops \in Nat /\ cur.items \subseteq Attempt
    BY <1>1 DEF WorkOK, RestOK, Places, HandOK, Req
  <2>2. QED
    BY <2>1, WorkStep, DropsStep
<1>4. RestOK'
  <2>1. /\ report' \in [Attempt -> {"none", "failed", "sent", "twice"}]
        /\ quiet' \subseteq Attempt /\ abandoned' \subseteq Attempt
    BY <1>1, <1>2, FlowReports
  <2>2. UNCHANGED <<next, muted, halting, cap, armed, doomed>>
    BY DEF env
  <2>3. QED
    BY <1>1, <1>3, <2>1, <2>2 DEF RestOK, WorkOK
<1>5. pc = "stopped" => pc' = "stopped"
  BY DEF Worker, Take, CollectAborted, Coalesce, Admit, WaitFails, Reached, Gate, Key,
     HoldTooLong, Aborted, DisarmedOnAir, Release, Play, PlayedOut, Finish, Superseded,
     SupersedeNotViable, SupersedeReplace, SupersedeMultiReplace, SupersedeBundle, OnAir,
     Stop, DropTask
<1>6. UNCHANGED next
  BY DEF env
<1>7. HeldIsFresh' /\ ReportedOnce' /\ FrameIsAccounted'
  BY <1>1, <1>2, <1>5, <1>6, FlowKeepsReports
<1>8. GuardIsArmed' /\ HaltIsKept'
  BY <1>1, <1>2, GuardStep, HaltStep DEF TxInv
<1>9. QED
  BY <1>2, <1>4, <1>7, <1>8 DEF TxInv, Places

\* A step of the rest of the process keeps the invariant.
LEMMA EnvironmentStep ==
  ASSUME TxInv, Issue \/ StopTx \/ HaltAbort \/ HaltPolicy \/ Resume \/ Rearm \/ FoxMode
  PROVE  TxInv'
<1>1. RestOK /\ Places /\ HeldIsFresh /\ ReportedOnce /\ FrameIsAccounted
  BY DEF TxInv, Places
<1>2. CASE Issue
  <2>1. Places' /\ HeldIsFresh' /\ ReportedOnce' /\ FrameIsAccounted' /\ next' \in 1..Attempts + 1
    BY <1>1, <1>2, IssueStep
  <2>2. RestOK'
    BY <1>1, <1>2, <2>1 DEF RestOK, Issue
  <2>3. GuardIsArmed' /\ HaltIsKept'
    BY <1>2 DEF TxInv, GuardIsArmed, HaltIsKept, Issue
  <2>4. QED
    BY <2>1, <2>2, <2>3 DEF TxInv, Places
<1>3. CASE StopTx \/ HaltAbort \/ HaltPolicy \/ Resume \/ Rearm \/ FoxMode
  <2>1. /\ UNCHANGED <<next, inbox, pc, cur, incoming, guard, audio, ptt, drops, report, keyed,
                       quiet, abandoned, offLost>>
        /\ abort => abort'
    BY <1>3 DEF StopTx, HaltAbort, HaltPolicy, Resume, Rearm, FoxMode
  <2>2. Places' /\ HeldIsFresh' /\ ReportedOnce' /\ FrameIsAccounted' /\ GuardIsArmed'
    BY <1>1, <2>1 DEF Places, HandOK, Apart, HeldIsFresh, Held, ReportedOnce, FrameIsAccounted,
       Unaccounted, GuardIsArmed, TxInv
  <2>3. RestOK'
    <3>1. cur.items \subseteq Attempt /\ incoming.items \subseteq Attempt
      BY <1>1 DEF Places, HandOK, Req
    <3>2. /\ abort' \in BOOLEAN /\ muted' \in BOOLEAN /\ halting' \in BOOLEAN /\ cap' \in Caps
          /\ armed' \in Client \cup {Local} /\ doomed' \subseteq Attempt
      BY <1>1, <1>3, <3>1 DEF RestOK, StopTx, HaltAbort, HaltPolicy, Resume, Rearm, FoxMode
    <3>3. QED
      BY <1>1, <2>1, <3>2 DEF RestOK
  <2>4. HaltIsKept'
    <3>1. CASE HaltPolicy
      <4>1. /\ muted' /\ UNCHANGED abort
            /\ doomed' = IF abort /\ pc # "tail"
                         THEN doomed \cup cur.items \cup incoming.items ELSE doomed
        BY <3>1 DEF HaltPolicy
      <4>2. \A a \in cur.items \cup incoming.items : report[a] = "none"
        BY <1>1 DEF HeldIsFresh, Held
      <4>3. QED
        BY <2>1, <4>1, <4>2 DEF HaltIsKept, TxInv
    <3>2. CASE Resume
      BY <2>1, <3>2 DEF Resume, HaltIsKept
    <3>3. CASE StopTx \/ HaltAbort \/ Rearm \/ FoxMode
      <4>1. UNCHANGED <<doomed, muted>>
        BY <3>3 DEF StopTx, HaltAbort, Rearm, FoxMode
      <4>2. QED
        BY <2>1, <4>1 DEF HaltIsKept, TxInv
    <3>4. QED
      BY <1>3, <3>1, <3>2, <3>3
  <2>5. QED
    BY <2>2, <2>3, <2>4 DEF TxInv, Places
<1>4. QED
  BY <1>2, <1>3

\* The worker starts idle, with an empty inbox.
LEMMA TxInit ==
  ASSUME Init
  PROVE  TxInv
<1>1. IsQueue(inbox) /\ Items(inbox) = {}
  BY DEF Init, IsQueue, Items
<1>2. Held = {} /\ HandOK /\ Apart
  BY <1>1, NothingIsReq DEF Init, Held, HandOK, Apart, Busy
<1>3. RestOK
  <2>1. 1 \in 1..Attempts + 1
    BY TxWorkerAssumption
  <2>2. report \in [Attempt -> {"none", "failed", "sent", "twice"}]
    BY DEF Init
  <2>3. QED
    BY <2>1, <2>2 DEF Init, RestOK
<1>4. HeldIsFresh /\ ReportedOnce
  BY <1>2 DEF HeldIsFresh, ReportedOnce, Init
<1>5. FrameIsAccounted
  BY DEF FrameIsAccounted, Unaccounted, Init
<1>6. GuardIsArmed /\ HaltIsKept
  BY DEF GuardIsArmed, HaltIsKept, Init, Keying
<1>7. QED
  BY <1>1, <1>2, <1>3, <1>4, <1>5, <1>6 DEF TxInv

\* TxInv holds in every reachable state.
LEMMA TxInvariant == Spec => []TxInv
<1>1. Init => TxInv
  BY TxInit
<1>2. TxInv /\ [Next]_vars => TxInv'
  <2> SUFFICES ASSUME TxInv, [Next]_vars
               PROVE  TxInv'
    OBVIOUS
  <2>1. CASE UNCHANGED vars
    BY <2>1 DEF vars, TxInv, RestOK, HandOK, Apart, HeldIsFresh, Held, ReportedOnce,
       FrameIsAccounted, Unaccounted, GuardIsArmed, HaltIsKept
  <2>2. QED
    BY <2>1, TaskStep, EnvironmentStep DEF Next
<1>3. QED
  BY <1>1, <1>2, PTL DEF Spec

-----------------------------------------------------------------------------
\* The worker is type correct, and a frame in its hand is never also in its
\* inbox, whatever polls, requeues and supersedes came before.
THEOREM WorkerTypeCorrect == Spec => []TypeOK
<1>1. TxInv => TypeOK
  <2> SUFFICES ASSUME TxInv PROVE TypeOK
    OBVIOUS
  <2>1. \A r \in Req : IsRequest(r)
    BY DEF Req, IsRequest
  <2>2. \A i \in DOMAIN inbox : inbox[i] \in Req /\ inbox[i].items # {}
    BY DEF TxInv, IsQueue
  <2>3. cur \in Req /\ incoming \in Req /\ cur.items \cap Items(inbox) = {}
    BY DEF TxInv, HandOK, Apart
  <2>4. QED
    BY <2>1, <2>2, <2>3 DEF TypeOK, TxInv, RestOK, Busy
<1>2. QED
  BY <1>1, TxInvariant, PTL

\* The QSO engine is told of an attempt at most once: whatever is reported
\* leaves the worker's hands, and no attempt is in two of them.
THEOREM NoSecondReport == Spec => []ReportedOnce
<1>1. TxInv => ReportedOnce
  BY DEF TxInv
<1>2. QED
  BY <1>1, TxInvariant, PTL

\* No attempt is lost: it waits, is in hand, was reported or was dropped where
\* the design says so; only a folded supersede leaves one behind.
THEOREM EveryFrameIsAccounted == Spec => []FrameIsAccounted
<1>1. TxInv => FrameIsAccounted
  BY DEF TxInv
<1>2. QED
  BY <1>1, TxInvariant, PTL

\* A PTT-on the rig's channel took is answered: by the armed guard, by the task
\* of a dropped one, or by a PTT-off that a full channel lost.
THEOREM EveryOnIsAnswered == Spec => []OnIsAnswered
<1>1. TxInv => OnIsAnswered
  BY DEF TxInv, GuardIsArmed, OnIsAnswered
<1>2. QED
  BY <1>1, TxInvariant, PTL

\* A frame in hand at a halt is not reported as sent before the policy opens
\* again: past the gates the abort flag outlives it, before them the closed
\* policy refuses it, also when a supersede has queued it again.
THEOREM HaltIsEffective == Spec => []HaltHolds
<1>1. TxInv => HaltHolds
  BY DEF TxInv, HaltIsKept, HaltHolds
<1>2. QED
  BY <1>1, TxInvariant, PTL
=============================================================================
