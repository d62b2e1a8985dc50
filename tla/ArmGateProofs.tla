--------------------------- MODULE ArmGateProofs ---------------------------
(***************************************************************************)
(* Proofs about the armed-TX gate, for every set of jtis and clients,      *)
(* every dead-man window and every clock behaviour.                        *)
(***************************************************************************)
EXTENDS ArmGate, TLAPS

\* The signed deadline is at or before each of the three horizons
\* (arm.rs authority_deadline).
LEMMA DeadlineIsLeast ==
    ASSUME NEW a \in Nat, NEW c \in Nat, NEW e \in Nat
    PROVE  /\ AuthorityDeadline(a, c, e).at \in Nat
           /\ AuthorityDeadline(a, c, e).at <= a
           /\ AuthorityDeadline(a, c, e).at <= c
           /\ AuthorityDeadline(a, c, e).at <= e
           /\ AuthorityDeadline(a, c, e).reason \in DisarmReason
BY DEF AuthorityDeadline, DisarmReason

\* A verified grant is well typed and carries the authority it was verified
\* with (capability.rs verify_arm_grant).
LEMMA GrantTyped ==
    ASSUME TypeOK, NEW j \in Jti, NEW c \in Client, NEW until \in ArmedUntil,
           NEW token \in EnabledToken, until > wall,
           Grant(j, c, until, token).effective_ttl > 0
    PROVE  /\ Grant(j, c, until, token) \in GrantRecord
           /\ Grant(j, c, until, token).jti = j
<1>1. PICK x \in TokenExp : token = [exp |-> x, tx_enabled_until |-> x]
  BY DEF EnabledToken
<1>2. x \in Nat /\ until \in Nat /\ wall \in Nat
  BY TimeAssumption DEF TypeOK
<1>3. AuthorityDeadline(until, token.exp, token.tx_enabled_until).at \in Nat
  BY <1>1, <1>2, DeadlineIsLeast
<1> DEFINE d == AuthorityDeadline(until, token.exp, token.tx_enabled_until).at
<1>4. Grant(j, c, until, token).effective_ttl = d - wall
  BY DEF Grant
<1>5. d - wall \in Nat \ {0} /\ until - wall \in Nat \ {0}
  BY <1>2, <1>3, <1>4
<1> HIDE DEF d
<1>6. Grant(j, c, until, token) =
        [jti |-> j, client_key_id |-> c, armed_until |-> until,
         capability_exp |-> x, tx_enabled_until |-> x, ttl |-> until - wall,
         effective_ttl |-> d - wall, sampled |-> wall]
  BY <1>1 DEF Grant, d
<1>7. QED
  BY <1>2, <1>5, <1>6 DEF GrantRecord

\* A session made from an accepted grant is well typed, lives no longer than the
\* authority the grant was verified with, and starts its dead-man window now
\* (arm.rs arm).
LEMMA NewSessionTyped ==
    ASSUME TypeOK, NEW g \in GrantRecord, ArmAccepted(g)
    PROVE  LET s == NewSession(g)
           IN  /\ s \in SessionRecord
               /\ s.jti = g.jti
               /\ s.lifetime <= g.effective_ttl
               /\ s.armed_at = mono /\ s.last_heartbeat = mono
               /\ s.armed_at_suspend_aware = susp
               /\ s.last_heartbeat_suspend_aware = susp
               /\ s.last_heartbeat_seq = -1
<1> DEFINE d == DeadlineOf(g)
<1>1. /\ g.jti \in Jti /\ g.client_key_id \in Client
      /\ g.armed_until \in Nat /\ g.capability_exp \in Nat
      /\ g.tx_enabled_until \in Nat /\ g.ttl \in Nat /\ g.effective_ttl \in Nat
      /\ g.sampled \in Nat
  BY DEF GrantRecord
<1>2. d.at \in Nat /\ d.reason \in DisarmReason
  BY <1>1, DeadlineIsLeast DEF DeadlineOf
<1>3. wall \in Nat /\ mono \in Nat /\ susp \in Nat
  BY DEF TypeOK
<1>4. FreshWall(g.sampled) \in Nat
  BY <1>1, <1>3 DEF FreshWall, Greatest
<1>5. AuthorityLifetime(g) \in Int /\ AuthorityLifetime(g) <= g.effective_ttl
  BY <1>1, <1>2, <1>4 DEF AuthorityLifetime, Least
<1>6. Lifetime(g) \in Int /\ Lifetime(g) <= g.effective_ttl
  BY <1>1, <1>5 DEF Lifetime, Least
<1>7. Lifetime(g) \in Nat \ {0}
  BY <1>6 DEF ArmAccepted
<1>8. (IF g.ttl < AuthorityLifetime(g) THEN "TtlExpired" ELSE d.reason)
        \in DisarmReason
  BY <1>2 DEF DisarmReason
<1>9. QED
  BY <1>1, <1>3, <1>6, <1>7, <1>8 DEF NewSession, SessionRecord

\* Consuming a later sequence number allows at least one more dead-man window.
LEMMA OneWindowPerSeq ==
    ASSUME NEW last \in Int, NEW seq \in Int, seq > last
    PROVE  (last + 1) * HEARTBEAT_TIMEOUT + HEARTBEAT_TIMEOUT
              <= (seq + 1) * HEARTBEAT_TIMEOUT
<1> DEFINE k == seq - last - 1
<1>1. k \in Nat
  OBVIOUS
<1>2. HEARTBEAT_TIMEOUT \in Nat
  BY HeartbeatTimeoutAssumption
<1>3. k * HEARTBEAT_TIMEOUT \in Nat
  BY <1>1, <1>2
<1>4. (seq + 1) * HEARTBEAT_TIMEOUT
        = (last + 1) * HEARTBEAT_TIMEOUT + HEARTBEAT_TIMEOUT + k * HEARTBEAT_TIMEOUT
  BY <1>2
<1>5. (last + 1) * HEARTBEAT_TIMEOUT \in Int
  BY <1>2
<1>6. QED
  BY <1>2, <1>3, <1>4, <1>5

-----------------------------------------------------------------------------
\* The fields of a live session, for steps that need their types.
LEMMA SessionFields ==
    ASSUME TypeOK, Armed
    PROVE  /\ session \in SessionRecord
           /\ session.jti \in Jti
           /\ session.armed_at \in Nat
           /\ session.armed_at_suspend_aware \in Nat
           /\ session.lifetime \in Nat
           /\ session.armed_until \in Nat
           /\ session.capability_exp \in Nat
           /\ session.tx_enabled_until \in Nat
           /\ session.last_heartbeat \in Nat
           /\ session.last_heartbeat_suspend_aware \in Nat
           /\ session.last_heartbeat_seq \in Int
BY DEF TypeOK, Armed, SessionRecord

\* Nothing is armed and nothing is burned when the station starts.
LEMMA InitIndInv == Init => IndInv
<1> SUFFICES ASSUME Init PROVE IndInv
  OBVIOUS
<1>1. TypeOK
  BY DEF Init, TypeOK
<1>2. SessionInv /\ VerifiedInv /\ ended \subseteq seen_jtis
  BY DEF Init, SessionInv, VerifiedInv, Armed
<1>3. QED
  BY <1>1, <1>2 DEF IndInv

\* A passing clock leaves the invariant alone: stored readings stay behind it.
LEMMA ClockStep ==
    ASSUME IndInv, wall' \in Nat, mono' \in Nat, susp' \in Nat,
           mono <= mono', susp <= susp',
           UNCHANGED <<session, consent, local_kill, seen_jtis, verified, sent,
                       granted, ended>>
    PROVE  IndInv'
<1>1. TypeOK'
  BY DEF IndInv, TypeOK
<1>2. SessionInv'
  <2> SUFFICES ASSUME Armed PROVE SessionInv'
    BY DEF SessionInv, Armed
  <2> mono \in Nat /\ susp \in Nat
    BY DEF IndInv, TypeOK
  <2> QED
    BY SessionFields DEF IndInv, SessionInv, Armed
<1>3. VerifiedInv' /\ (ended \subseteq seen_jtis)'
  BY DEF IndInv, VerifiedInv, Armed
<1>4. QED
  BY <1>1, <1>2, <1>3 DEF IndInv

\* Ending the live arm, by whatever handler, keeps the invariant.
LEMMA EndStep ==
    ASSUME IndInv, Armed, EndSession,
           UNCHANGED <<consent, local_kill, clocks, seen_jtis, verified, sent,
                       granted>>
    PROVE  IndInv'
<1>1. LiveJti = {session.jti} /\ session.jti \in seen_jtis /\ session.jti \in Jti
  BY SessionFields DEF LiveJti, IndInv, SessionInv
<1>2. TypeOK'
  BY <1>1 DEF IndInv, TypeOK, EndSession, clocks
<1>3. SessionInv'
  BY DEF EndSession, SessionInv, Armed
<1>4. VerifiedInv'
  BY <1>1 DEF IndInv, VerifiedInv, EndSession, Armed
<1>5. (ended \subseteq seen_jtis)'
  BY <1>1 DEF IndInv, EndSession
<1>6. QED
  BY <1>2, <1>3, <1>4, <1>5 DEF IndInv

\* Verifying a grant burns a jti that no live or ended arm carries.
LEMMA VerifyStep ==
    ASSUME IndInv, NEW j \in Jti, NEW c \in Client, NEW until \in ArmedUntil,
           NEW token \in EnabledToken, NEW attributed \in BOOLEAN,
           VerifyArmGrant(j, c, until, token, attributed)
    PROVE  IndInv'
<1> USE DEF VerifyArmGrant, JtiIsFresh, clocks
<1>1. /\ Grant(j, c, until, token) \in GrantRecord
      /\ Grant(j, c, until, token).jti = j
  BY GrantTyped DEF IndInv
<1> DEFINE g == Grant(j, c, until, token)
<1>2. g \in GrantRecord /\ g.jti = j /\ g # NoGrant /\ g.effective_ttl \in Nat
  BY <1>1, NoneAssumption DEF GrantRecord
<1> HIDE DEF g
<1>3. \/ verified' = g /\ granted' = [granted EXCEPT ![j] = g.effective_ttl]
      \/ verified' = verified /\ granted' = granted
  BY DEF g
<1>4. TypeOK'
  BY <1>2, <1>3 DEF IndInv, TypeOK
<1>5. SessionInv'
  <2> SUFFICES ASSUME Armed PROVE SessionInv'
    BY DEF SessionInv, Armed
  <2>1. session.jti \in seen_jtis /\ session.jti \in Jti
    BY SessionFields DEF IndInv, SessionInv
  <2>2. granted'[session.jti] = granted[session.jti]
    BY <1>3, <2>1 DEF IndInv, TypeOK
  <2>3. QED
    BY <2>1, <2>2 DEF IndInv, SessionInv, Armed
<1>6. VerifiedInv'
  <2>1. CASE verified' = verified
    BY <2>1 DEF VerifiedInv
  <2>2. CASE verified' = g /\ granted' = [granted EXCEPT ![j] = g.effective_ttl]
    <3>1. j \notin ended
      BY DEF IndInv
    <3>2. Armed => session.jti # j
      BY DEF IndInv, SessionInv
    <3>3. granted'[j] = g.effective_ttl
      BY <2>2 DEF IndInv, TypeOK
    <3>4. QED
      BY <1>2, <2>2, <3>1, <3>2, <3>3 DEF VerifiedInv, Armed
  <2>3. QED
    BY <1>3, <2>1, <2>2
<1>7. QED
  BY <1>4, <1>5, <1>6 DEF IndInv

\* Accepting or refusing the grant keeps the invariant.
LEMMA ArmStep ==
    ASSUME IndInv, Arm
    PROVE  IndInv'
<1> USE DEF Arm, clocks
<1>1. verified \in GrantRecord /\ verified # NoGrant
  BY DEF IndInv, TypeOK
<1>2. CASE ~ArmAccepted(verified)
  <2>1. TypeOK'
    BY <1>2 DEF IndInv, TypeOK
  <2>2. SessionInv'
    BY <1>2 DEF IndInv, SessionInv, Armed
  <2>3. QED
    BY <1>2, <2>1, <2>2 DEF IndInv, VerifiedInv
<1>3. CASE ArmAccepted(verified)
  <2> DEFINE s == NewSession(verified)
  <2>1. /\ s \in SessionRecord
        /\ s.jti = verified.jti
        /\ s.lifetime <= verified.effective_ttl
        /\ s.armed_at = mono /\ s.last_heartbeat = mono
        /\ s.armed_at_suspend_aware = susp
        /\ s.last_heartbeat_suspend_aware = susp
        /\ s.last_heartbeat_seq = -1
    BY <1>1, <1>3, NewSessionTyped DEF IndInv
  <2> HIDE DEF s
  <2>2. session' = s /\ ended' = ended \union LiveJti
    BY <1>3 DEF s
  <2>3. LiveJti \subseteq seen_jtis /\ LiveJti \subseteq Jti
    BY SessionFields DEF LiveJti, IndInv, SessionInv
  <2>4. verified.jti \in Jti /\ verified.jti \in seen_jtis
        /\ verified.jti \notin ended \union LiveJti
    BY <1>1 DEF IndInv, VerifiedInv, LiveJti, GrantRecord
  <2>5. TypeOK'
    BY <2>1, <2>2, <2>3 DEF IndInv, TypeOK
  <2>6. SessionInv'
    <3>1. mono \in Nat /\ susp \in Nat /\ sent[verified.jti] \in Nat
      BY <2>4 DEF IndInv, TypeOK
    <3>2. granted[verified.jti] = verified.effective_ttl
      BY <1>1 DEF IndInv, VerifiedInv
    <3>3. HEARTBEAT_TIMEOUT \in Nat
      BY HeartbeatTimeoutAssumption
    <3>4. (-1 + 1) * HEARTBEAT_TIMEOUT = 0
      BY <3>3
    <3>5. s.last_heartbeat_suspend_aware - s.armed_at_suspend_aware
            <= (s.last_heartbeat_seq + 1) * HEARTBEAT_TIMEOUT
      BY <2>1, <3>1, <3>4
    <3>6. QED
      BY <2>1, <2>2, <2>4, <3>1, <3>2, <3>5 DEF SessionInv
  <2>7. (ended \subseteq seen_jtis)'
    BY <2>2, <2>3 DEF IndInv
  <2>8. QED
    BY <2>5, <2>6, <2>7 DEF IndInv, VerifiedInv
<1>4. QED
  BY <1>2, <1>3

\* An arm that expired_reason passes is inside all its limits.
LEMMA UnexpiredIsFresh ==
    ASSUME IndInv, Armed, ~Expired(session)
    PROVE  /\ ~LifetimeOver(session) /\ ~SilenceOver(session)
           /\ wall < DeadlineOf(session).at
           /\ susp - session.armed_at_suspend_aware < session.lifetime
           /\ susp - session.last_heartbeat_suspend_aware < HEARTBEAT_TIMEOUT
<1>1. ExpiredReason(session) = "None"
  BY DEF Expired
<1>2. /\ DeadlineOf(session).reason \in DisarmReason
      /\ DeadlineOf(session).at \in Nat
  BY SessionFields, DeadlineIsLeast DEF IndInv, DeadlineOf
<1>3. session.lifetime_reason \in DisarmReason
  BY SessionFields DEF IndInv, SessionRecord
<1>4. "None" \notin DisarmReason
  BY DEF DisarmReason
<1>5. ~(wall >= DeadlineOf(session).at) /\ ~LifetimeOver(session) /\ ~SilenceOver(session)
  BY <1>1, <1>2, <1>3, <1>4 DEF ExpiredReason
<1>6. wall \in Nat /\ susp \in Nat
  BY DEF IndInv, TypeOK
<1>7. QED
  BY <1>2, <1>5, <1>6, SessionFields, HeartbeatTimeoutAssumption
     DEF IndInv, LifetimeOver, SilenceOver, ElapsedReaches

\* Sliding the window touches only the three heartbeat fields of the session.
LEMMA SlidSession ==
    ASSUME TypeOK, NEW s \in SessionRecord, NEW q \in Int
    PROVE  LET t == SlideWindow(s, q)
           IN  /\ t \in SessionRecord
               /\ t.jti = s.jti
               /\ t.armed_at = s.armed_at
               /\ t.armed_at_suspend_aware = s.armed_at_suspend_aware
               /\ t.lifetime = s.lifetime
               /\ t.last_heartbeat = mono
               /\ t.last_heartbeat_suspend_aware = susp
               /\ t.last_heartbeat_seq = q
<1> DEFINE t1 == [s EXCEPT !.last_heartbeat_seq = q]
           t2 == [t1 EXCEPT !.last_heartbeat = mono]
           t3 == [t2 EXCEPT !.last_heartbeat_suspend_aware = susp]
<1>0. mono \in Nat /\ susp \in Nat
  BY DEF TypeOK
<1>1. /\ t1 \in SessionRecord /\ t1.last_heartbeat_seq = q
      /\ t1.jti = s.jti /\ t1.armed_at = s.armed_at /\ t1.lifetime = s.lifetime
      /\ t1.armed_at_suspend_aware = s.armed_at_suspend_aware
  BY DEF SessionRecord
<1> HIDE DEF t1
<1>2. /\ t2 \in SessionRecord /\ t2.last_heartbeat_seq = q /\ t2.last_heartbeat = mono
      /\ t2.jti = s.jti /\ t2.armed_at = s.armed_at /\ t2.lifetime = s.lifetime
      /\ t2.armed_at_suspend_aware = s.armed_at_suspend_aware
  BY <1>0, <1>1 DEF SessionRecord
<1> HIDE DEF t2
<1>3. /\ t3 \in SessionRecord /\ t3.last_heartbeat_seq = q /\ t3.last_heartbeat = mono
      /\ t3.last_heartbeat_suspend_aware = susp
      /\ t3.jti = s.jti /\ t3.armed_at = s.armed_at /\ t3.lifetime = s.lifetime
      /\ t3.armed_at_suspend_aware = s.armed_at_suspend_aware
  BY <1>0, <1>2 DEF SessionRecord
<1>4. t3 = SlideWindow(s, q)
  BY DEF SlideWindow, t1, t2
<1>5. QED
  BY <1>3, <1>4

\* An accepted heartbeat slides the window by less than one dead-man timeout and
\* consumes a sequence number; a late one ends the arm.
LEMMA HeartbeatStep ==
    ASSUME IndInv, NEW j \in Jti, NEW seq \in 0..MaxSeq, Heartbeat(j, seq)
    PROVE  IndInv'
<1> USE DEF Heartbeat, HeartbeatTooLate, clocks
<1> seq \in Nat
  BY BoundsAssumption
<1>1. CASE EndSession
  BY <1>1, EndStep
<1>2. CASE /\ ~Expired(session) /\ HeartbeatAccepted(j, seq)
           /\ session' = SlideWindow(session, seq)
           /\ UNCHANGED ended
  <2>1. /\ mono \in Nat /\ susp \in Nat /\ sent[j] \in Nat
    BY DEF IndInv, TypeOK
  <2>2. /\ session'.jti = session.jti
        /\ session'.armed_at = session.armed_at
        /\ session'.armed_at_suspend_aware = session.armed_at_suspend_aware
        /\ session'.lifetime = session.lifetime
        /\ session'.last_heartbeat = mono
        /\ session'.last_heartbeat_suspend_aware = susp
        /\ session'.last_heartbeat_seq = seq
        /\ session' \in SessionRecord
    <3> DEFINE t == SlideWindow(session, seq)
    <3>1. TypeOK /\ session \in SessionRecord /\ seq \in Int
      BY SessionFields DEF IndInv
    <3>2. /\ t \in SessionRecord
          /\ t.jti = session.jti
          /\ t.armed_at = session.armed_at
          /\ t.armed_at_suspend_aware = session.armed_at_suspend_aware
          /\ t.lifetime = session.lifetime
          /\ t.last_heartbeat = mono
          /\ t.last_heartbeat_suspend_aware = susp
          /\ t.last_heartbeat_seq = seq
      BY <3>1, SlidSession
    <3>3. session' = t
      BY <1>2
    <3> HIDE DEF t
    <3>4. QED
      BY <3>2, <3>3
  <2>3. TypeOK'
    BY <1>2, <2>2 DEF IndInv, TypeOK
  <2>4. session.jti = j /\ seq > session.last_heartbeat_seq
    BY <1>2 DEF HeartbeatAccepted
  <2>6. susp - session.last_heartbeat_suspend_aware < HEARTBEAT_TIMEOUT
    BY <1>2, UnexpiredIsFresh
  <2>7. (session.last_heartbeat_seq + 1) * HEARTBEAT_TIMEOUT + HEARTBEAT_TIMEOUT
            <= (seq + 1) * HEARTBEAT_TIMEOUT
    BY <2>4, OneWindowPerSeq, SessionFields DEF IndInv
  <2>8. session.last_heartbeat_suspend_aware - session.armed_at_suspend_aware
            <= (session.last_heartbeat_seq + 1) * HEARTBEAT_TIMEOUT
    BY DEF IndInv, SessionInv
  <2>9. susp - session.armed_at_suspend_aware <= (seq + 1) * HEARTBEAT_TIMEOUT
    <3> DEFINE a == (session.last_heartbeat_seq + 1) * HEARTBEAT_TIMEOUT
               b == (seq + 1) * HEARTBEAT_TIMEOUT
    <3>1. a \in Int /\ b \in Int /\ HEARTBEAT_TIMEOUT \in Int
      BY SessionFields, HeartbeatTimeoutAssumption DEF IndInv
    <3>2. a + HEARTBEAT_TIMEOUT <= b
      BY <2>7
    <3>3. session.last_heartbeat_suspend_aware - session.armed_at_suspend_aware <= a
      BY <2>8
    <3> HIDE DEF a, b
    <3>4. susp - session.armed_at_suspend_aware <= b
      BY <2>1, <2>6, <3>1, <3>2, <3>3, SessionFields DEF IndInv
    <3>5. QED
      BY <3>4 DEF b
  <2>10. SessionInv'
    <3>1. /\ session.jti \in seen_jtis \ ended /\ session.armed_at <= mono
          /\ session.armed_at_suspend_aware <= susp
          /\ session.lifetime <= granted[session.jti]
      BY <2>1, SessionFields DEF IndInv, SessionInv
    <3>2. seq < sent[session.jti] /\ -1 <= seq
      BY <2>4
    <3>3. QED
      BY <1>2, <2>1, <2>2, <2>9, <3>1, <3>2 DEF SessionInv
  <2>11. session' # NoSession
    BY <2>2, NoneAssumption
  <2>12. VerifiedInv' /\ (ended \subseteq seen_jtis)'
    BY <1>2, <2>2, <2>11 DEF IndInv, VerifiedInv, Armed
  <2>13. QED
    BY <2>3, <2>10, <2>12 DEF IndInv
<1>3. QED
  BY <1>1, <1>2

\* Signing a heartbeat only raises the count of one arm.
LEMMA ClientHeartbeatStep ==
    ASSUME IndInv, NEW j \in Jti, ClientHeartbeat(j)
    PROVE  IndInv'
<1> USE DEF ClientHeartbeat, clocks
<1>1. TypeOK'
  BY DEF IndInv, TypeOK
<1>2. SessionInv'
  <2> SUFFICES ASSUME Armed PROVE SessionInv'
    BY DEF SessionInv, Armed
  <2>1. sent[session.jti] <= sent'[session.jti]
    BY SessionFields DEF IndInv, TypeOK
  <2>2. sent[session.jti] \in Nat /\ sent'[session.jti] \in Nat
    BY <1>1, SessionFields DEF IndInv, TypeOK
  <2>3. QED
    BY <2>1, <2>2, SessionFields DEF IndInv, SessionInv, Armed
<1>3. QED
  BY <1>1, <1>2 DEF IndInv, VerifiedInv, Armed

\* Every step of the gate keeps the inductive invariant.
LEMMA NextIndInv == IndInv /\ [Next]_vars => IndInv'
<1> SUFFICES ASSUME IndInv, [Next]_vars PROVE IndInv'
  OBVIOUS
<1>0. wall \in Nat /\ mono \in Nat /\ susp \in Nat
  BY DEF IndInv, TypeOK
<1>1. CASE Elapse
  BY <1>0, <1>1, ClockStep DEF Elapse
<1>2. CASE Suspend
  BY <1>0, <1>2, ClockStep DEF Suspend
<1>3. ASSUME NEW w \in WallTarget, WallStep(w) PROVE IndInv'
  BY <1>0, <1>3, ClockStep, TimeAssumption DEF WallStep
<1>4. ASSUME NEW j \in Jti, NEW c \in Client, NEW until \in ArmedUntil,
             NEW token \in EnabledToken, NEW attributed \in BOOLEAN,
             VerifyArmGrant(j, c, until, token, attributed)
      PROVE  IndInv'
  BY <1>4, VerifyStep
<1>5. CASE Arm
  BY <1>5, ArmStep
<1>6. ASSUME NEW j \in Jti, ClientHeartbeat(j) PROVE IndInv'
  BY <1>6, ClientHeartbeatStep
<1>7. CASE Tick
  BY <1>7, EndStep DEF Tick
<1>8. ASSUME NEW j \in Jti, NEW seq \in 0..MaxSeq, Heartbeat(j, seq)
      PROVE  IndInv'
  BY <1>8, HeartbeatStep
<1>9. CASE Disarm
  BY <1>9, EndStep DEF Disarm
<1>10. ASSUME NEW ch \in Channel, NEW on \in BOOLEAN, SetChannelConsent(ch, on)
       PROVE  IndInv'
  <2>1. TypeOK'
    BY <1>10 DEF IndInv, TypeOK, SetChannelConsent, clocks
  <2>2. QED
    BY <1>10, <2>1 DEF IndInv, SessionInv, VerifiedInv, Armed, SetChannelConsent, clocks
<1>11. ASSUME NEW on \in BOOLEAN, SetLocalKill(on) PROVE IndInv'
  <2>1. TypeOK'
    BY <1>11 DEF IndInv, TypeOK, SetLocalKill, clocks
  <2>2. QED
    BY <1>11, <2>1 DEF IndInv, SessionInv, VerifiedInv, Armed, SetLocalKill, clocks
<1>12. CASE UNCHANGED vars
  BY <1>0, <1>12, ClockStep DEF vars
<1>13. QED
  BY <1>1, <1>2, <1>3, <1>4, <1>5, <1>6, <1>7, <1>8, <1>9, <1>10, <1>11, <1>12
     DEF Next

\* The inductive invariant holds in every reachable state.
THEOREM Invariance == Spec => []IndInv
BY InitIndInv, NextIndInv, PTL DEF Spec

\* The state stays well typed, and no live arm has a spent lifetime.
THEOREM TypeCorrect == Spec => []TypeOK
<1>1. IndInv => TypeOK
  BY DEF IndInv
<1>2. QED
  BY <1>1, Invariance, PTL

\* TX is never permitted past the authority a grant was verified with, nor at or
\* past a signed deadline, whatever the wall clock does and however long the
\* host sleeps.
THEOREM AuthorityIsBounded == Spec => []AuthorityBound
<1>1. IndInv => AuthorityBound
  <2> SUFFICES ASSUME IndInv, NEW ch \in Channel, TxPermitted(ch)
               PROVE  /\ susp - session.armed_at_suspend_aware < granted[session.jti]
                      /\ wall < session.armed_until
                      /\ wall < session.capability_exp
                      /\ wall < session.tx_enabled_until
    BY DEF AuthorityBound
  <2>1. /\ Armed /\ wall < DeadlineOf(session).at
        /\ susp - session.armed_at_suspend_aware < session.lifetime
    BY UnexpiredIsFresh DEF TxPermitted
  <2>2. /\ DeadlineOf(session).at \in Nat
        /\ DeadlineOf(session).at <= session.armed_until
        /\ DeadlineOf(session).at <= session.capability_exp
        /\ DeadlineOf(session).at <= session.tx_enabled_until
    BY <2>1, SessionFields, DeadlineIsLeast DEF IndInv, DeadlineOf
  <2>3. session.lifetime <= granted[session.jti] /\ granted[session.jti] \in Nat
    BY <2>1, SessionFields DEF IndInv, SessionInv, TypeOK
  <2>4. wall \in Nat /\ susp \in Nat
    BY DEF IndInv, TypeOK
  <2>5. QED
    BY <2>1, <2>2, <2>3, <2>4, SessionFields DEF IndInv
<1>2. QED
  BY <1>1, Invariance, PTL

\* Each heartbeat a client signs buys at most one dead-man window, whatever the
\* network does with it.
THEOREM DeadmanIsBounded == Spec => []DeadmanBound
<1>1. IndInv => DeadmanBound
  <2> SUFFICES ASSUME IndInv, NEW ch \in Channel, TxPermitted(ch)
               PROVE  susp - session.armed_at_suspend_aware
                        < (sent[session.jti] + 1) * HEARTBEAT_TIMEOUT
    BY DEF DeadmanBound
  <2>1. /\ Armed
        /\ susp - session.last_heartbeat_suspend_aware < HEARTBEAT_TIMEOUT
    BY UnexpiredIsFresh DEF TxPermitted
  <2> DEFINE a == (session.last_heartbeat_seq + 1) * HEARTBEAT_TIMEOUT
             b == (sent[session.jti] + 1) * HEARTBEAT_TIMEOUT
  <2>2. /\ session.last_heartbeat_suspend_aware - session.armed_at_suspend_aware <= a
        /\ session.last_heartbeat_seq < sent[session.jti]
    BY <2>1 DEF IndInv, SessionInv
  <2>3. session.last_heartbeat_seq \in Int /\ sent[session.jti] \in Int /\ susp \in Nat
    BY <2>1, SessionFields DEF IndInv, TypeOK
  <2>4. a + HEARTBEAT_TIMEOUT <= b
    BY <2>2, <2>3, OneWindowPerSeq
  <2>5. a \in Int /\ b \in Int /\ HEARTBEAT_TIMEOUT \in Int
    BY <2>3, HeartbeatTimeoutAssumption
  <2> HIDE DEF a, b
  <2>6. susp - session.armed_at_suspend_aware < b
    BY <2>1, <2>2, <2>3, <2>4, <2>5, SessionFields DEF IndInv
  <2>7. QED
    BY <2>6 DEF b
<1>2. QED
  BY <1>1, Invariance, PTL

\* The gate implements ArmLease: arms come and go only as leases, so a grant
\* arms at most once and an arm that has ended is never live again, whatever
\* frames are replayed (verify_arm_grant burns the jti; arm replaces, and only
\* tick, heartbeat and disarm end; nothing else touches the session).
THEOREM ImplementsArmLease == Spec => LeaseSpec
<1>1. Init => Lease!Init
  BY DEF Init, Lease!Init, LiveJti, Armed
<1>2. IndInv /\ [Next]_vars => [Lease!Next]_<<LiveJti, ended>>
  <2> SUFFICES ASSUME IndInv, [Next]_vars
               PROVE  Lease!Next \/ UNCHANGED <<LiveJti, ended>>
    OBVIOUS
  <2>1. ASSUME UNCHANGED <<session, ended>>
        PROVE  UNCHANGED <<LiveJti, ended>>
    BY <2>1 DEF LiveJti, Armed
  <2>2. ASSUME Armed, EndSession
        PROVE  Lease!Next
    BY <2>2 DEF EndSession, LiveJti, Armed, Lease!Next, Lease!End
  <2>3. CASE Arm
    <3>1. CASE ArmAccepted(verified)
      <4>1. /\ session' = NewSession(verified)
            /\ ended' = ended \union LiveJti
            /\ verified # NoGrant
        BY <2>3, <3>1 DEF Arm
      <4>2. verified \in GrantRecord /\ verified.jti \in Jti
        BY <4>1 DEF IndInv, TypeOK, GrantRecord
      <4>3. verified.jti \notin LiveJti \union ended
        BY <4>1 DEF IndInv, VerifiedInv, LiveJti
      <4>4. NewSession(verified) \in SessionRecord /\ session'.jti = verified.jti
        BY <3>1, <4>1, <4>2, NewSessionTyped DEF IndInv, TypeOK, NewSession
      <4>5. LiveJti' = {verified.jti}
        BY <4>1, <4>4, NoneAssumption DEF LiveJti, Armed
      <4>6. Lease!Lease(verified.jti)
        BY <4>1, <4>3, <4>5 DEF Lease!Lease
      <4>7. QED
        BY <4>2, <4>6 DEF Lease!Next
    <3>2. CASE ~ArmAccepted(verified)
      BY <2>1, <2>3, <3>2 DEF Arm
    <3>3. QED
      BY <3>1, <3>2
  <2>4. ASSUME NEW j \in Jti, NEW seq \in 0..MaxSeq, Heartbeat(j, seq)
        PROVE  Lease!Next \/ UNCHANGED <<LiveJti, ended>>
    <3>1. CASE EndSession
      BY <2>2, <2>4, <3>1 DEF Heartbeat
    <3>2. CASE session' = SlideWindow(session, seq) /\ UNCHANGED ended /\ Armed
      <4>1. session \in SessionRecord
        BY <3>2 DEF IndInv, TypeOK, Armed
      <4>2. session' # NoSession /\ session'.jti = session.jti
        BY <3>2, <4>1, SlidSession, BoundsAssumption, NoneAssumption DEF IndInv
      <4>3. QED
        BY <3>2, <4>2 DEF LiveJti, Armed
    <3>3. QED
      BY <2>4, <3>1, <3>2 DEF Heartbeat
  <2>5. CASE Tick \/ Disarm
    BY <2>2, <2>5 DEF Tick, Disarm
  <2>6. CASE UNCHANGED vars
    BY <2>1, <2>6 DEF vars
  <2>7. QED
    BY <2>1, <2>3, <2>4, <2>5, <2>6
       DEF Next, Elapse, Suspend, WallStep, VerifyArmGrant, ClientHeartbeat,
           SetChannelConsent, SetLocalKill
<1>3. QED
  BY <1>1, <1>2, Invariance, PTL DEF Spec, LeaseSpec, Lease!Spec

\* An elapsed limit that has been reached stays reached while the clocks run.
LEMMA ElapsedIsMonotone ==
    ASSUME NEW now \in Nat, NEW later \in Nat, now <= later,
           NEW since \in Nat, since <= now, NEW limit \in Nat,
           ElapsedReaches(now, since, limit)
    PROVE  ElapsedReaches(later, since, limit)
BY DEF ElapsedReaches

\* The lifetime cap and the dead-man limit of an arm, once reached, stay reached
\* while the session is untouched.
LEMMA OverIsMonotone ==
    ASSUME IndInv, Armed, LifetimeOver(session) \/ SilenceOver(session),
           mono' \in Nat, susp' \in Nat, mono <= mono', susp <= susp',
           UNCHANGED session
    PROVE  (LifetimeOver(session) \/ SilenceOver(session))'
<1>1. /\ mono \in Nat /\ susp \in Nat /\ HEARTBEAT_TIMEOUT \in Nat
  BY HeartbeatTimeoutAssumption DEF IndInv, TypeOK
<1>2. /\ session.armed_at <= mono /\ session.last_heartbeat <= mono
      /\ session.armed_at_suspend_aware <= susp
      /\ session.last_heartbeat_suspend_aware <= susp
  BY <1>1, SessionFields DEF IndInv, SessionInv
<1>3. CASE LifetimeOver(session)
  <2>1. LifetimeOver(session)'
    BY <1>1, <1>2, <1>3, ElapsedIsMonotone, SessionFields DEF LifetimeOver, IndInv
  <2>2. QED
    BY <2>1
<1>4. CASE SilenceOver(session)
  <2>1. SilenceOver(session)'
    BY <1>1, <1>2, <1>4, ElapsedIsMonotone, SessionFields DEF SilenceOver, IndInv
  <2>2. QED
    BY <2>1
<1>5. QED
  BY <1>3, <1>4

\* Once an elapsed limit is reached nothing revives the same arm, swept or not.
THEOREM ExpiryIsFinal == Spec => ElapsedExpiryIsFinal
<1> DEFINE Over == LifetimeOver(session) \/ SilenceOver(session)
           A == (Armed /\ Armed' /\ session'.jti = session.jti /\ Over) => Over'
<1>1. IndInv /\ [Next]_vars => [A]_vars
  <2> SUFFICES ASSUME IndInv, Next, Armed, Armed', session'.jti = session.jti, Over
               PROVE  Over'
    OBVIOUS
  <2>0. mono \in Nat /\ susp \in Nat
    BY DEF IndInv, TypeOK
  <2>1. CASE Elapse
    BY <2>0, <2>1, OverIsMonotone DEF Elapse
  <2>2. CASE Suspend
    BY <2>0, <2>2, OverIsMonotone DEF Suspend
  <2>3. CASE UNCHANGED <<session, mono, susp>>
    BY <2>0, <2>3, OverIsMonotone
  <2>4. ASSUME NEW w \in WallTarget, WallStep(w) PROVE Over'
    BY <2>3, <2>4 DEF WallStep
  <2>5. ASSUME NEW j \in Jti, NEW c \in Client, NEW until \in ArmedUntil,
               NEW token \in EnabledToken, NEW attributed \in BOOLEAN,
               VerifyArmGrant(j, c, until, token, attributed)
        PROVE  Over'
    BY <2>3, <2>5 DEF VerifyArmGrant, clocks
  <2>6. CASE Arm
    <3>1. CASE ArmAccepted(verified)
      <4>1. verified \in GrantRecord /\ verified # NoGrant
        BY <2>6 DEF Arm, IndInv, TypeOK
      <4>2. session'.jti = verified.jti
        BY <2>6, <3>1, <4>1, NewSessionTyped DEF Arm, IndInv
      <4>3. QED
        BY <4>1, <4>2 DEF IndInv, VerifiedInv
    <3>2. CASE ~ArmAccepted(verified)
      BY <2>3, <2>6, <3>2 DEF Arm, clocks
    <3>3. QED
      BY <3>1, <3>2
  <2>7. ASSUME NEW j \in Jti, ClientHeartbeat(j) PROVE Over'
    BY <2>3, <2>7 DEF ClientHeartbeat, clocks
  <2>8. CASE Tick \/ Disarm
    BY <2>8 DEF Tick, Disarm, EndSession, Armed
  <2>9. ASSUME NEW j \in Jti, NEW seq \in 0..MaxSeq, Heartbeat(j, seq) PROVE Over'
    <3>1. CASE EndSession
      BY <3>1 DEF EndSession, Armed
    <3>2. CASE ~Expired(session)
      BY <3>2, UnexpiredIsFresh
    <3>3. QED
      BY <2>9, <3>1, <3>2 DEF Heartbeat, HeartbeatTooLate
  <2>10. ASSUME NEW ch \in Channel, NEW on \in BOOLEAN, SetChannelConsent(ch, on)
         PROVE  Over'
    BY <2>3, <2>10 DEF SetChannelConsent, clocks
  <2>11. ASSUME NEW on \in BOOLEAN, SetLocalKill(on) PROVE Over'
    BY <2>3, <2>11 DEF SetLocalKill, clocks
  <2>12. QED
    BY <2>1, <2>2, <2>4, <2>5, <2>6, <2>7, <2>8, <2>9, <2>10, <2>11 DEF Next
<1>2. QED
  BY <1>1, Invariance, PTL DEF Spec, ElapsedExpiryIsFinal
=============================================================================
