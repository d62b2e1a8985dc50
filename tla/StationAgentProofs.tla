------------------------ MODULE StationAgentProofs -------------------------
(***************************************************************************)
(* Proofs about the station agent, for every set of clients and grants,    *)
(* every limit and every interleaving with the publishers, the QSO engine  *)
(* and the supervisor: who holds the arm, what the admission lists mean    *)
(* for a live session, that arms are leases, and that the QSO engine never *)
(* works for two remote operators at once.                                 *)
(***************************************************************************)
EXTENDS StationAgent, FiniteSetTheorems, TLAPS

Envelope == [kind : {"Intent", "RemoteControllerChanged", "StopCq"},
             client : Client \union {None}]

PublisherRecord == [step : {"idle", "admission", "bump"},
                    clients : SUBSET Client, changed : BOOLEAN]

(* The parts of TypeOK: plain types, and the two limits of the code. *)

DataOK ==
    /\ arm \in Jti \union {None} /\ lapsed \in BOOLEAN /\ ended \subseteq Jti
    /\ consent \in BOOLEAN /\ poisoned \in BOOLEAN
    /\ static_allow \subseteq Client
    /\ tx_allow_list \subseteq Client /\ tx_arm_allow_list \subseteq Client
    /\ authz_generation \in Nat /\ authz_generation_seen \in Nat /\ current \in Nat
    /\ publisher \in [Publisher -> PublisherRecord]
    /\ pc \in {"dead", "down", "starting", "top", "received", "dispatch", "arming",
               "sending", "housekeeping", "reconcile", "expire"}
    /\ allowed \subseteq Client
    /\ session_id \in [Client -> Nat]
    /\ auth \in [Client -> Token \union {None}]
    /\ controller \in Client \union {None} /\ qso_cleanup_owed \in Client \union {None}
    /\ seen_jtis \subseteq Jti /\ revoked_jtis \subseteq Token
    /\ verified \in Jti \union {None}
    /\ qsos \subseteq Client
    /\ grants \in [Jti -> GrantRecord \union {None}] /\ expired \subseteq Token
    /\ sessions \in Nat /\ faults \in Nat

PeersFit == IsFiniteSet(Established) /\ Cardinality(Established) <= MAX_PEERS

InboxFits == inbox \in Seq(Envelope) /\ Len(inbox) <= InboxCapacity

\* What a signed grant says is true: its client is its token's, and it names a
\* session that has been established.
GrantsAreTrue ==
    /\ \A p \in Client : session_id[p] <= sessions
    /\ \A j \in Jti : grants[j] # None =>
           /\ grants[j].client = grants[j].token[1]
           /\ grants[j].session_id <= sessions

\* A jti that has been live cannot verify again: the task remembers it, or the
\* session it names is over.
UsedIsSpent ==
    \A j \in ended \union LiveJti :
        /\ grants[j] # None
        /\ \/ j \in seen_jtis
           \/ session_id[grants[j].client] # grants[j].session_id

\* A grant that waits for the arm lock is the controller's, for its present
\* session, was never live and is not deny-listed.
VerifiedIsFresh ==
    pc = "arming" =>
        /\ verified \in seen_jtis
        /\ verified \notin ended \union LiveJti
        /\ grants[verified] # None
        /\ controller = grants[verified].client
        /\ session_id[controller] = grants[verified].session_id
        /\ grants[verified].token \notin revoked_jtis

\* An arm behind a healthy lock is the controller's, for its present session.
ArmIsControllers ==
    (arm # None /\ ~poisoned) =>
        /\ controller = ArmedClient
        /\ session_id[ArmedClient] = grants[arm].session_id

\* A task without a connection has no peers.
OfflineHasNoPeers == pc \in {"dead", "down"} => \A p \in Client : session_id[p] = 0

\* A peer's capability is its own.
AuthIsOwn == \A p \in Client : auth[p] # None => auth[p][1] = p

\* No session has seen a generation that has not been published.
GenerationOrder ==
    /\ authz_generation_seen <= authz_generation
    /\ pc = "reconcile" => current <= authz_generation

\* Whom the QSO engine works for once it has read i messages of the queue q:
\* f[i]. Its QSOs are f[0]'s, a change of controller sets it, nothing else
\* moves it, and every intent is of the one who has it.
Operators(q) == [0..Len(q) -> Client \union {None}]

Follows(f, q, s) ==
    /\ s \subseteq {f[0]}
    /\ \A i \in 1..Len(q) :
           /\ q[i].kind = "RemoteControllerChanged" => f[i] = q[i].client
           /\ q[i].kind # "RemoteControllerChanged" => f[i] = f[i - 1]
           /\ q[i].kind = "Intent" => f[i] = q[i].client /\ f[i] # None

\* With controller c and the cleanup owed: an owed cleanup is the controller's,
\* and once it has gone out, the queue ends with the controller.
InLine(q, s, c, owed) ==
    /\ (owed # None /\ c # None) => owed = c
    /\ \E f \in Operators(q) :
           /\ Follows(f, q, s)
           /\ (c # None /\ owed = None) => f[Len(q)] = c

\* An intent is sent only by a controller to whom no cleanup is owed.
OperatorInLine ==
    /\ InLine(inbox, qsos, controller, qso_cleanup_owed)
    /\ pc = "sending" => controller # None /\ qso_cleanup_owed = None

TypeInv == DataOK /\ PeersFit /\ InboxFits

AgentInv ==
    /\ TypeInv
    /\ OfflineHasNoPeers /\ GrantsAreTrue /\ UsedIsSpent /\ VerifiedIsFresh
    /\ ArmIsControllers /\ ArmedIsEligible
    /\ AuthIsOwn /\ DenyListedIsDead
    /\ GenerationOrder /\ SeenGenerationIsCurrent
    /\ OperatorInLine

-----------------------------------------------------------------------------
(* Types. *)
\* The parts are all of TypeOK.
LEMMA TypeInvImplies == TypeInv => TypeOK
  BY DEF TypeInv, DataOK, PeersFit, InboxFits, TypeOK, Envelope, PublisherRecord

\* None is no client, grant or token.
LEMMA NoneIsNothing == None \notin Client /\ None \notin Jti /\ None \notin Token
  BY NoneAssumption

\* Every step keeps the plain types.
LEMMA DataStep ==
  ASSUME TypeInv, OperatorInLine, [Next]_vars
  PROVE  DataOK'
<1> USE NoneIsNothing DEF gate, lists, peers, burned, seen, engine, world
<1>1. DataOK
  BY DEF TypeInv
<1>2. ASSUME EndArm \/ DisarmUnlessPoisoned \/ UNCHANGED gate
      PROVE  arm' \in Jti \union {None} /\ lapsed' \in BOOLEAN /\ ended' \subseteq Jti
  BY <1>1, <1>2 DEF DataOK, EndArm, DisarmUnlessPoisoned, LiveJti
<1>3. CASE Connect \/ StartSession \/ Idle \/ Refused \/ ReadGeneration
  BY <1>1, <1>3 DEF DataOK, Connect, StartSession, Idle, Refused, ReadGeneration
<1>4. CASE SessionEnd \/ LoopTop \/ ReceiveFrame \/ HousekeepingExpire
  <2>1. CASE SessionEnd \/ LoopTop
    BY <1>1, <1>2, <2>1 DEF DataOK, SessionEnd, LoopTop, FlushEachTick, StillOwed
  <2>2. CASE ReceiveFrame \/ HousekeepingExpire
    <3>1. ExpirePeerAuth /\ pc' \in {"dispatch", "top"}
      BY <2>2 DEF ReceiveFrame, HousekeepingExpire
    <3>2. /\ auth' \in [Client -> Token \union {None}]
          /\ controller' \in Client \union {None}
          /\ arm' \in Jti \union {None} /\ lapsed' \in BOOLEAN /\ ended' \subseteq Jti
      BY <1>1, <1>2, <3>1 DEF DataOK, ExpirePeerAuth
    <3>3. QED
      BY <1>1, <2>2, <3>1, <3>2 DEF DataOK, ReceiveFrame, HousekeepingExpire
  <2>3. QED
    BY <1>4, <2>1, <2>2
<1>5. CASE ArmUnderLock \/ SendIntent
  BY <1>1, <1>5 DEF DataOK, ArmUnderLock, SendIntent, LiveJti
<1>6. ASSUME NEW p \in Client, PeerEstablished(p) \/ PeerDown(p)
      PROVE  DataOK'
  <2>1. CASE PeerEstablished(p)
    BY <1>1, <2>1 DEF DataOK, PeerEstablished
  <2>2. CASE PeerDown(p)
    BY <1>1, <1>2, <2>2 DEF DataOK, PeerDown
  <2>3. QED
    BY <1>6, <2>1, <2>2
<1>7. ASSUME NEW p \in Client, Dispatch(p)
      PROVE  DataOK'
  <2>1. ASSUME NEW j \in Jti, DispatchArm(p, j) PROVE DataOK'
    BY <1>1, <2>1 DEF DataOK, DispatchArm, Grab, Owed
  <2>2. ASSUME NEW t \in Token \union {None}, DispatchHello(p, t) PROVE DataOK'
    BY <1>1, <1>2, <2>2 DEF DataOK, DispatchHello
  <2>3. CASE DispatchHeartbeat(p) \/ DispatchDisarm(p) \/ DispatchReleaseControl(p)
    BY <1>1, <2>3 DEF DataOK, DispatchHeartbeat, DispatchDisarm, DispatchReleaseControl,
       EndArm, DisarmUnlessPoisoned, LiveJti
  <2>4. CASE DispatchQsy(p) \/ DispatchTxRequest(p) \/ DispatchStopCq(p)
    BY <1>1, <2>4 DEF DataOK, DispatchQsy, DispatchTxRequest, DispatchStopCq, Grab, Owed,
       StillOwed
  <2>5. CASE DispatchTakeControl(p)
    BY <1>1, <2>5
       DEF DataOK, DispatchTakeControl, Owed, EndArm, DisarmUnlessPoisoned, LiveJti
  <2>6. QED
    BY <1>7, <2>1, <2>2, <2>3, <2>4, <2>5 DEF Dispatch
<1>8. CASE Reconcile
  <2>1. {auth[p] : p \in Established \ tx_allow_list} \ {None} \subseteq Token
    BY <1>1 DEF DataOK, Established
  <2>2. arm' \in Jti \union {None} /\ lapsed' \in BOOLEAN /\ ended' \subseteq Jti
    BY <1>2, <1>8 DEF Reconcile
  <2>3. revoked_jtis' \subseteq Token
    BY <1>1, <1>8, <2>1 DEF DataOK, Reconcile
  <2>4. QED
    BY <1>1, <1>8, <2>2, <2>3 DEF DataOK, Reconcile
<1>9. ASSUME NEW w \in Publisher, NEW clients \in SUBSET Client,
             NEW newArmList \in SUBSET Client, PublishArmList(w, clients, newArmList),
             static_allow' \subseteq Client
      PROVE  DataOK'
  BY <1>1, <1>2, <1>9 DEF DataOK, PublishArmList, PublisherRecord
<1>10. ASSUME NEW connect \in SUBSET Client, NEW undelegated \in SUBSET Client,
              PollAuthorizations(connect, undelegated)
       PROVE  DataOK'
  BY <1>1, <1>9, <1>10 DEF DataOK, PollAuthorizations, Publisher
<1>11. ASSUME NEW removed \in SUBSET Client, RevokeStaticEntries(removed)
       PROVE  DataOK'
  <2>1. tx_arm_allow_list \ removed \in SUBSET Client /\ static_allow' \subseteq Client
    BY <1>1, <1>11 DEF DataOK, RevokeStaticEntries
  <2>2. QED
    BY <1>9, <1>11, <2>1 DEF RevokeStaticEntries, Publisher
<1>12. ASSUME NEW w \in Publisher, Publish(w)
       PROVE  DataOK'
  <2>1. publisher[w] \in PublisherRecord
    BY <1>1 DEF DataOK
  <2>2. CASE PublishAdmission(w)
    <3>1. tx_allow_list' \subseteq Client
      BY <1>1, <2>1, <2>2 DEF DataOK, PublishAdmission, PublisherRecord
    <3>2. Changed(w, tx_allow_list') \in BOOLEAN
      BY <2>1 DEF Changed, PublisherRecord
    <3>3. publisher'[w] = [step |-> "bump", clients |-> publisher[w].clients,
                           changed |-> Changed(w, tx_allow_list')]
      BY <1>1, <2>1, <2>2 DEF DataOK, PublishAdmission, PublisherRecord
    <3>4. publisher' \in [Publisher -> PublisherRecord]
      BY <1>1, <2>1, <2>2, <3>2 DEF DataOK, PublishAdmission, PublisherRecord
    <3>5. QED
      BY <1>1, <2>2, <3>1, <3>4 DEF DataOK, PublishAdmission
  <2>3. CASE BumpGeneration(w)
    BY <1>1, <2>1, <2>3 DEF DataOK, BumpGeneration, PublisherRecord, Unpublished
  <2>4. QED
    BY <1>12, <2>2, <2>3 DEF Publish
<1>13. ASSUME NEW on \in ConsentEdits, SetConsent(on)
       PROVE  DataOK'
  BY <1>1, <1>13, InputAssumption DEF DataOK, SetConsent
<1>14. CASE QsoEngine
  <2>1. Head(inbox) \in Envelope
    BY <1>14 DEF TypeInv, InboxFits, QsoEngine
  <2>2. Head(inbox).kind = "Intent" => Head(inbox).client \in Client
    <3>1. PICK f \in Operators(inbox) : Follows(f, inbox, qsos)
      BY DEF OperatorInLine, InLine
    <3>2. inbox \in Seq(Envelope) /\ Len(inbox) >= 1 /\ Head(inbox) = inbox[1]
      BY <1>14 DEF TypeInv, InboxFits, QsoEngine
    <3>3. inbox[1].kind = "Intent" => inbox[1].client # None
      BY <3>1, <3>2 DEF Follows
    <3>4. QED
      BY <2>1, <3>2, <3>3 DEF Envelope
  <2>3. qsos' \subseteq Client
    BY <1>1, <1>14, <2>1, <2>2 DEF DataOK, QsoEngine, AfterMessage, Envelope
  <2>4. QED
    BY <1>1, <1>14, <2>3 DEF DataOK, QsoEngine
<1>15. CASE \/ (\E p \in Client : QsosEnd(p)) \/ ArmLapses
            \/ (\E t \in Token : TokenExpires(t))
  BY <1>1, <1>15 DEF DataOK, QsosEnd, ArmLapses, TokenExpires
<1>16. ASSUME NEW j \in Jti, NEW t \in Token, SignGrant(j, t)
       PROVE  DataOK'
  <2>1. [client |-> t[1], token |-> t, session_id |-> session_id[t[1]]] \in GrantRecord
    BY <1>1, <1>16 DEF DataOK, SignGrant, GrantRecord, Token
  <2>2. grants' \in [Jti -> GrantRecord \union {None}]
    BY <1>1, <1>16, <2>1 DEF DataOK, SignGrant
  <2>3. QED
    BY <1>1, <1>16, <2>2 DEF DataOK, SignGrant
<1>17. CASE PoisonArmLock \/ Crash
  <2>1. CASE PoisonArmLock
    BY <1>1, <2>1 DEF DataOK, PoisonArmLock
  <2>2. CASE Crash
    BY <1>1, <1>2, <2>2 DEF DataOK, Crash
  <2>3. QED
    BY <1>17, <2>1, <2>2
<1>18. CASE Restart
  BY <1>1, <1>2, <1>18 DEF DataOK, Restart, SeedArmList, Unpublished, PublisherRecord
<1>19. CASE UNCHANGED vars
  BY <1>1, <1>19 DEF DataOK, vars
<1>20. QED
  BY <1>3, <1>4, <1>5, <1>6, <1>7, <1>8, <1>10, <1>11, <1>12, <1>13, <1>14, <1>15, <1>16,
     <1>17, <1>18, <1>19 DEF Next, SessionTask

-----------------------------------------------------------------------------
(* What one step may change. *)

\* Which steps touch the sessions, the grants, the arm, the task's memory of
\* used and deny-listed identifiers, the capabilities and the arm list, the lock's
\* poison, the connection and the publications; and that only the session task
\* touches its own state while a grant waits for the lock.
SessionsChange ==
    \/ \E p \in Client : PeerEstablished(p) \/ PeerDown(p)
    \/ Connect \/ SessionEnd \/ Reconcile \/ Crash
    \/ UNCHANGED <<sessions, session_id>>

GrantsChange == grants' = grants \/ \E j \in Jti, t \in Token : SignGrant(j, t)

ArmChange ==
    \/ UNCHANGED <<arm, ended>>
    \/ EndArm
    \/ ArmUnderLock /\ MayArm(verified) /\ arm' = verified /\ ended' = ended \union LiveJti

MemoryChange ==
    /\ seen_jtis \subseteq seen_jtis' \/ Crash
    /\ revoked_jtis' = revoked_jtis \/ Reconcile \/ Crash

AuthChange ==
    \/ \A p \in Client : auth'[p] \in {None, auth[p]}
    \/ \E p \in Client, t \in Token \union {None} :
           DispatchHello(p, t) /\ HelloVerifies(p, t)

ArmListChange ==
    \/ UNCHANGED tx_arm_allow_list
    \/ EndArm
    \/ arm = None \/ ArmedClient \in tx_arm_allow_list'

ArmingChange ==
    pc' = "arming" =>
        \/ /\ pc = "arming"
           /\ UNCHANGED <<verified, controller, session_id, seen_jtis, revoked_jtis>>
        \/ \E p \in Client, j \in Jti : DispatchArm(p, j) /\ GrantVerifies(p, j)

PoisonChange == poisoned => poisoned' \/ EndArm

ConnectionChange ==
    /\ SessionUp' => SessionUp \/ StartSession
    /\ pc' = "reconcile" => ReadGeneration \/ (pc = "reconcile" /\ current' = current)
    /\ pc' \in {"dead", "down"} =>
           \/ pc \in {"dead", "down"} /\ UNCHANGED session_id
           \/ \A p \in Client : session_id'[p] = 0

PublicationChange ==
    \/ Connect \/ StartSession \/ Reconcile \/ Crash \/ Restart
    \/ \E w \in Publisher, clients, newArmList \in SUBSET Client :
           PublishArmList(w, clients, newArmList)
    \/ \E w \in Publisher : PublishAdmission(w) \/ BumpGeneration(w)
    \/ UNCHANGED <<authz_generation, authz_generation_seen, allowed, tx_allow_list,
                   publisher>>

\* Every step is one of these changes in each respect.
LEMMA Changes ==
  ASSUME DataOK, [Next]_vars
  PROVE  /\ SessionsChange /\ GrantsChange /\ ArmChange /\ MemoryChange
         /\ AuthChange /\ ArmListChange /\ ArmingChange
         /\ PoisonChange /\ ConnectionChange /\ PublicationChange
<1> DEFINE Facts == /\ SessionsChange /\ GrantsChange /\ ArmChange /\ MemoryChange
                    /\ AuthChange /\ ArmListChange /\ ArmingChange
                    /\ PoisonChange /\ ConnectionChange /\ PublicationChange
<1> SUFFICES Facts
  OBVIOUS
<1> USE DEF gate, lists, peers, burned, seen, engine, world, SessionsChange, GrantsChange,
     ArmChange, MemoryChange, AuthChange, ArmListChange, ArmingChange, PoisonChange,
     ConnectionChange, PublicationChange
<1>1. CASE Connect \/ StartSession \/ ReadGeneration
  BY <1>1 DEF DataOK, Connect, StartSession, ReadGeneration, SessionUp
<1>2. CASE SessionEnd \/ LoopTop
  BY <1>2 DEF DataOK, SessionEnd, LoopTop, SessionUp, DisarmUnlessPoisoned
<1>3. CASE Idle \/ Refused \/ SendIntent
  BY <1>3 DEF DataOK, Idle, Refused, SendIntent, SessionUp
<1>4. CASE ReceiveFrame \/ HousekeepingExpire
  BY <1>4 DEF DataOK, ReceiveFrame, HousekeepingExpire, SessionUp, ExpirePeerAuth,
     DisarmUnlessPoisoned
<1>5. CASE ArmUnderLock
  BY <1>5 DEF DataOK, ArmUnderLock, SessionUp
<1>6. CASE Reconcile
  BY <1>6 DEF DataOK, Reconcile, SessionUp
<1>7. ASSUME NEW p \in Client, PeerEstablished(p) \/ PeerDown(p)
      PROVE  Facts
  BY <1>7 DEF DataOK, PeerEstablished, PeerDown, SessionUp, DisarmUnlessPoisoned
<1>8. ASSUME NEW p \in Client, NEW j \in Jti, DispatchArm(p, j)
      PROVE  Facts
  BY <1>8 DEF DataOK, DispatchArm, SessionUp, From
<1>9. ASSUME NEW p \in Client, NEW t \in Token \union {None}, DispatchHello(p, t)
      PROVE  Facts
  BY <1>9 DEF DataOK, DispatchHello, SessionUp, From, DisarmUnlessPoisoned
<1>10. ASSUME NEW p \in Client,
              DispatchHeartbeat(p) \/ DispatchDisarm(p) \/ DispatchReleaseControl(p)
       PROVE  Facts
  BY <1>10 DEF DataOK, DispatchHeartbeat, DispatchDisarm, DispatchReleaseControl,
     SessionUp, From, DisarmUnlessPoisoned
<1>11. ASSUME NEW p \in Client, DispatchQsy(p) \/ DispatchTxRequest(p) \/ DispatchStopCq(p)
       PROVE  Facts
  BY <1>11 DEF DataOK, DispatchQsy, DispatchTxRequest, DispatchStopCq, SessionUp, From
<1>12. ASSUME NEW p \in Client, DispatchTakeControl(p)
       PROVE  Facts
  BY <1>12 DEF DataOK, DispatchTakeControl, SessionUp, From, DisarmUnlessPoisoned
<1>13. ASSUME NEW w \in Publisher, NEW clients \in SUBSET Client,
             NEW newArmList \in SUBSET Client, PublishArmList(w, clients, newArmList)
       PROVE  Facts
  BY <1>13 DEF DataOK, PublishArmList, SessionUp
<1>14. ASSUME NEW w \in Publisher, PublishAdmission(w) \/ BumpGeneration(w)
       PROVE  Facts
  BY <1>14 DEF DataOK, PublishAdmission, BumpGeneration, SessionUp
<1>15. ASSUME NEW on \in ConsentEdits, SetConsent(on)
       PROVE  Facts
  BY <1>15 DEF DataOK, SetConsent, SessionUp
<1>16. CASE QsoEngine \/ ArmLapses \/ PoisonArmLock
  BY <1>16 DEF DataOK, QsoEngine, ArmLapses, PoisonArmLock, SessionUp
<1>17. ASSUME NEW p \in Client, QsosEnd(p)
       PROVE  Facts
  BY <1>17 DEF DataOK, QsosEnd, SessionUp
<1>18. ASSUME NEW t \in Token, TokenExpires(t)
       PROVE  Facts
  BY <1>18 DEF DataOK, TokenExpires, SessionUp
<1>19. ASSUME NEW j \in Jti, NEW t \in Token, SignGrant(j, t)
       PROVE  Facts
  BY <1>19 DEF DataOK, SignGrant, SessionUp
<1>20. CASE Crash
  BY <1>20 DEF DataOK, Crash, SessionUp
<1>21. CASE Restart
  BY <1>21 DEF DataOK, Restart, SessionUp
<1>22. ASSUME NEW connect \in SUBSET Client, NEW undelegated \in SUBSET Client,
              PollAuthorizations(connect, undelegated)
       PROVE  Facts
  BY <1>13, <1>22 DEF PollAuthorizations, Publisher
<1>23. ASSUME NEW removed \in SUBSET Client, RevokeStaticEntries(removed)
       PROVE  Facts
  <2>1. tx_arm_allow_list \ removed \in SUBSET Client
    BY DEF DataOK
  <2>2. QED
    BY <1>13, <1>23, <2>1 DEF RevokeStaticEntries, Publisher
<1>24. CASE UNCHANGED vars
  BY <1>24 DEF DataOK, vars, SessionUp
<1> HIDE DEF Facts
<1>25. QED
  BY <1>1, <1>2, <1>3, <1>4, <1>5, <1>6, <1>7, <1>8, <1>9, <1>10, <1>11, <1>12, <1>14,
     <1>15, <1>16, <1>17, <1>18, <1>19, <1>20, <1>21, <1>22, <1>23, <1>24 DEF Next,
     SessionTask, Dispatch, Publish

\* A session gets a new number or none.
LEMMA SessionNumbers ==
  ASSUME DataOK, [Next]_vars
  PROVE  \/ \E p \in Client : PeerEstablished(p)
         \/ /\ sessions' = sessions
            /\ \A p \in Client : session_id'[p] \in {0, session_id[p]}
  BY Changes
     DEF DataOK, SessionsChange, world, PeerDown, Connect, SessionEnd, Reconcile, Crash

\* The established peers stay within MAX_PEERS: only PeerEstablished adds one,
\* and it looks at their number first.
LEMMA PeersStep ==
  ASSUME TypeInv, [Next]_vars
  PROVE  PeersFit'
<1> USE DEF gate, lists, peers, burned, seen, engine, world
<1>1. DataOK /\ PeersFit
  BY DEF TypeInv
<1>2. ASSUME \A p \in Client : session_id'[p] \in {0, session_id[p]}
      PROVE  PeersFit'
  <2>1. Established' \in SUBSET Established
    BY <1>2 DEF Established
  <2>2. IsFiniteSet(Established') /\ Cardinality(Established') <= Cardinality(Established)
    BY <1>1, <2>1, FS_Subset DEF PeersFit
  <2>3. Cardinality(Established) \in Nat /\ Cardinality(Established') \in Nat
    BY <1>1, <2>2, FS_CardinalityType DEF PeersFit
  <2>4. QED
    BY <1>1, <2>2, <2>3, LimitsAssumption DEF PeersFit
<1>3. ASSUME NEW p \in Client, PeerEstablished(p)
      PROVE  PeersFit'
  <2>1. Established' = Established \cup {p} /\ p \notin Established
    BY <1>1, <1>3 DEF DataOK, PeerEstablished, Established
  <2>2. /\ IsFiniteSet(Established \cup {p})
        /\ Cardinality(Established \cup {p}) = Cardinality(Established) + 1
    BY <1>1, <2>1, FS_AddElement DEF PeersFit
  <2>3. Cardinality(Established) \in Nat /\ Cardinality(Established) < MAX_PEERS
    BY <1>1, <1>3, FS_CardinalityType DEF PeersFit, PeerEstablished
  <2>4. QED
    BY <2>1, <2>2, <2>3, LimitsAssumption DEF PeersFit
<1>4. QED
  BY <1>1, <1>2, <1>3, SessionNumbers

\* Enqueueing where there is room keeps the queue within its channel.
LEMMA EnqueueFits ==
  ASSUME NEW q \in Seq(Envelope), Len(q) <= InboxCapacity, HasRoom(q), NEW m \in Envelope
  PROVE  Append(q, m) \in Seq(Envelope) /\ Len(Append(q, m)) <= InboxCapacity
  BY LimitsAssumption DEF HasRoom

\* A flush keeps the queue within its channel.
LEMMA FlushFits ==
  ASSUME TypeInv, NEW owed \in Client \union {None}
  PROVE  /\ FlushedInbox(owed) \in Seq(Envelope)
         /\ Len(FlushedInbox(owed)) <= InboxCapacity
<1>1. Message("RemoteControllerChanged", owed) \in Envelope
  BY DEF Message, Envelope
<1>2. QED
  BY <1>1, EnqueueFits DEF TypeInv, InboxFits, FlushedInbox

\* The inbox stays within its channel: every send looks for room first.
LEMMA InboxStep ==
  ASSUME TypeInv, [Next]_vars
  PROVE  InboxFits'
<1> USE DEF gate, lists, peers, burned, seen, engine, world
<1>1. DataOK /\ InboxFits
  BY DEF TypeInv
<1>2. CASE LoopTop
  BY <1>1, <1>2, FlushFits DEF DataOK, InboxFits, LoopTop, FlushEachTick
<1>3. ASSUME NEW p \in Client, DispatchTxRequest(p)
      PROVE  InboxFits'
  <2>1. Owed(p) \in Client \union {None}
    BY <1>1 DEF DataOK, Owed
  <2>2. QED
    BY <1>1, <1>3, <2>1, FlushFits DEF InboxFits, DispatchTxRequest
<1>4. ASSUME NEW p \in Client, DispatchStopCq(p)
      PROVE  InboxFits'
  <2>1. Owed(p) \in Client \union {None} /\ Message("StopCq", None) \in Envelope
    BY <1>1 DEF DataOK, Owed, Message, Envelope
  <2>2. /\ FlushedInbox(Owed(p)) \in Seq(Envelope)
        /\ Len(FlushedInbox(Owed(p))) <= InboxCapacity
    BY <2>1, FlushFits
  <2>3. QED
    BY <1>4, <2>1, <2>2, EnqueueFits DEF InboxFits, DispatchStopCq
<1>5. CASE SendIntent
  <2>1. Message("Intent", controller) \in Envelope
    BY <1>1 DEF DataOK, Message, Envelope
  <2>2. QED
    BY <1>1, <1>5, <2>1, EnqueueFits DEF InboxFits, SendIntent
<1>6. CASE QsoEngine
  BY <1>1, <1>6, LimitsAssumption DEF InboxFits, QsoEngine
<1>7. CASE UNCHANGED inbox
  BY <1>1, <1>7 DEF InboxFits
<1>8. QED
  BY <1>2, <1>3, <1>4, <1>5, <1>6, <1>7 DEF Next, SessionTask, Dispatch, Publish, vars,
     Connect, StartSession, SessionEnd, Idle, PeerEstablished, PeerDown, ReceiveFrame,
     DispatchArm, DispatchHeartbeat, DispatchDisarm, DispatchHello, DispatchQsy,
     DispatchTakeControl, DispatchReleaseControl, Refused, ArmUnderLock, ReadGeneration,
     Reconcile, HousekeepingExpire, PollAuthorizations, RevokeStaticEntries, PublishArmList,
     PublishAdmission, BumpGeneration, SetConsent, QsosEnd, ArmLapses, TokenExpires,
     SignGrant, PoisonArmLock, Crash, Restart

-----------------------------------------------------------------------------
(* Grants and arms. *)

\* A grant keeps what it says: a new one names a session that is up, and a
\* session's number is never used again.
LEMMA GrantsStep ==
  ASSUME TypeInv, GrantsAreTrue, [Next]_vars
  PROVE  /\ GrantsAreTrue'
         /\ sessions' >= sessions
         /\ \A j \in Jti : grants[j] # None => grants'[j] = grants[j]
<1>1. DataOK /\ GrantsChange
  BY Changes DEF TypeInv
<1>2. /\ sessions' \in Nat /\ sessions' >= sessions
      /\ \A p \in Client : session_id'[p] <= sessions'
  BY <1>1, SessionNumbers DEF DataOK, GrantsAreTrue, PeerEstablished
<1> DEFINE Kept(j) == grants[j] # None => grants'[j] = grants[j]
           TrueNow(j) == grants'[j] # None => /\ grants'[j].client = grants'[j].token[1]
                                              /\ grants'[j].session_id <= sessions'
<1>3. \A j \in Jti : Kept(j) /\ TrueNow(j)
  <2>1. CASE grants' = grants
    <3>1. ASSUME NEW j \in Jti, grants[j] # None
          PROVE  grants[j].session_id <= sessions'
      <4>1. grants[j].session_id \in Nat /\ grants[j].session_id <= sessions
        BY <1>1, <3>1 DEF DataOK, GrantsAreTrue, GrantRecord
      <4>2. QED
        BY <1>1, <1>2, <4>1 DEF DataOK
    <3>2. QED
      BY <2>1, <3>1 DEF GrantsAreTrue
  <2>2. ASSUME NEW j \in Jti, NEW t \in Token, SignGrant(j, t)
        PROVE  \A i \in Jti : Kept(i) /\ TrueNow(i)
    BY <1>1, <1>2, <2>2
       DEF DataOK, GrantsAreTrue, GrantRecord, SignGrant, world, peers, Token
  <2>3. QED
    BY <1>1, <2>1, <2>2 DEF GrantsChange
<1>4. QED
  BY <1>2, <1>3 DEF GrantsAreTrue

\* What is live or over after a step was so before, or waited for the lock.
LEMMA UsedStep ==
  ASSUME DataOK, ArmChange
  PROVE  \/ ended' \union LiveJti' = ended \union LiveJti
         \/ /\ ArmUnderLock /\ MayArm(verified)
            /\ ended' \union LiveJti' = ended \union LiveJti \union {verified}
  BY DEF ArmChange, EndArm, LiveJti, DataOK, ArmUnderLock

\* A used jti stays spent: only a panic makes the task forget it, and then the
\* session it names is over for good.
LEMMA SpentStep ==
  ASSUME TypeInv, GrantsAreTrue, UsedIsSpent, VerifiedIsFresh, [Next]_vars
  PROVE  UsedIsSpent'
<1>1. DataOK /\ ArmChange /\ MemoryChange
  BY Changes DEF TypeInv
<1>2. \A j \in Jti : grants[j] # None => grants'[j] = grants[j]
  BY GrantsStep
<1>3. SUFFICES ASSUME NEW j \in ended' \union LiveJti'
               PROVE  /\ grants'[j] # None
                      /\ \/ j \in seen_jtis'
                         \/ session_id'[grants'[j].client] # grants'[j].session_id
  BY DEF UsedIsSpent
<1>4. CASE j \in ended \union LiveJti
  <2>1. j \in Jti /\ grants[j] # None /\ grants'[j] = grants[j]
    BY <1>1, <1>2, <1>4 DEF DataOK, UsedIsSpent, LiveJti
  <2>2. /\ grants[j].client \in Client
        /\ grants[j].session_id \in Nat \ {0} /\ grants[j].session_id <= sessions
    BY <1>1, <2>1 DEF DataOK, GrantRecord, GrantsAreTrue
  <2>3. CASE Crash
    BY <2>1, <2>2, <2>3 DEF Crash
  <2>4. CASE ~Crash /\ j \in seen_jtis
    BY <1>1, <2>1, <2>4 DEF MemoryChange
  <2>5. CASE session_id[grants[j].client] # grants[j].session_id
    BY <1>1, <2>1, <2>2, <2>5, SessionNumbers DEF DataOK, PeerEstablished
  <2>6. QED
    BY <1>4, <2>1, <2>3, <2>4, <2>5 DEF UsedIsSpent
<1>5. CASE ArmUnderLock /\ j = verified
  <2>1. verified \in seen_jtis /\ grants[verified] # None
    BY <1>5 DEF VerifiedIsFresh, ArmUnderLock
  <2>2. verified \in Jti
    BY <1>1, <2>1 DEF DataOK
  <2>3. QED
    BY <1>2, <1>5, <2>1, <2>2 DEF ArmUnderLock, burned
<1>6. QED
  BY <1>1, <1>3, <1>4, <1>5, UsedStep

\* A grant stays fresh while it waits for the arm lock, whatever the publishers
\* and the other tasks do meanwhile.
LEMMA FreshStep ==
  ASSUME TypeInv, GrantsAreTrue, UsedIsSpent, VerifiedIsFresh, [Next]_vars
  PROVE  VerifiedIsFresh'
<1>1. DataOK /\ ArmChange /\ ArmingChange
  BY Changes DEF TypeInv
<1>2. \A j \in Jti : grants[j] # None => grants'[j] = grants[j]
  BY GrantsStep
<1>3. SUFFICES ASSUME pc' = "arming" PROVE VerifiedIsFresh'
  BY DEF VerifiedIsFresh
<1>4. ended' \union LiveJti' = ended \union LiveJti
  BY <1>1, <1>3, UsedStep DEF ArmUnderLock
<1>5. CASE /\ pc = "arming"
           /\ UNCHANGED <<verified, controller, session_id, seen_jtis, revoked_jtis>>
  <2>1. verified \in Jti
    BY <1>1, <1>5 DEF DataOK, VerifiedIsFresh
  <2>2. QED
    BY <1>2, <1>4, <1>5, <2>1 DEF VerifiedIsFresh
<1>6. ASSUME NEW p \in Client, NEW j \in Jti, DispatchArm(p, j), GrantVerifies(p, j)
      PROVE  VerifiedIsFresh'
  <2>1. grants[j] # None /\ j \notin ended \union LiveJti
    BY <1>6 DEF DispatchArm, GrantVerifies, UsedIsSpent
  <2>2. /\ verified' = j /\ j \in seen_jtis' /\ controller' = p
        /\ UNCHANGED <<session_id, revoked_jtis, grants>>
    BY <1>6 DEF DispatchArm, Grab, peers, world
  <2>3. QED
    BY <1>4, <1>6, <2>1, <2>2 DEF VerifiedIsFresh, GrantVerifies
<1>7. QED
  BY <1>1, <1>3, <1>5, <1>6 DEF ArmingChange

\* Whoever goes offline drops every session.
LEMMA OfflineStep ==
  ASSUME TypeInv, OfflineHasNoPeers, [Next]_vars
  PROVE  OfflineHasNoPeers'
  BY Changes DEF TypeInv, ConnectionChange, OfflineHasNoPeers

\* Behind a healthy lock the arm stays with the controller and its session:
\* whoever loses control, or whose session ends, loses the arm in the same step.
LEMMA ControlStep ==
  ASSUME TypeInv, OfflineHasNoPeers, GrantsAreTrue, UsedIsSpent, VerifiedIsFresh,
         ArmIsControllers, [Next]_vars
  PROVE  ArmIsControllers'
<1> USE NoneIsNothing DEF gate, lists, peers, burned, seen, engine, world
<1>1. DataOK
  BY DEF TypeInv
<1>2. \A j \in Jti : grants[j] # None => grants'[j] = grants[j]
  BY GrantsStep
<1>3. SUFFICES ASSUME arm' # None, ~poisoned'
               PROVE  /\ controller' = grants'[arm'].client
                      /\ session_id'[grants'[arm'].client] = grants'[arm'].session_id
  BY DEF ArmIsControllers, ArmedClient
<1>4. CASE ArmUnderLock /\ arm' = verified
  <2>1. verified \in Jti /\ grants[verified] # None
    BY <1>1, <1>4 DEF DataOK, VerifiedIsFresh, ArmUnderLock
  <2>2. QED
    BY <1>2, <1>4, <2>1 DEF VerifiedIsFresh, ArmUnderLock
<1>5. CASE ~(ArmUnderLock /\ arm' = verified)
  <2>1. arm' = arm
    <3>1. ArmChange
      BY <1>1, Changes
    <3>2. QED
      BY <1>3, <1>5, <3>1 DEF ArmChange, EndArm
  <2>2. ~poisoned
    BY <1>1, <1>3, Changes DEF PoisonChange, EndArm
  <2>3. /\ arm \in Jti /\ grants[arm] # None /\ controller = ArmedClient
        /\ controller \in Client
        /\ session_id[controller] = grants[arm].session_id
        /\ session_id[controller] # 0
    BY <1>1, <1>3, <2>1, <2>2
       DEF DataOK, UsedIsSpent, LiveJti, ArmIsControllers, ArmedClient, GrantRecord
  <2>4. ~EndArm /\ ~DisarmUnlessPoisoned
    BY <1>3, <2>2 DEF EndArm, DisarmUnlessPoisoned
  <2>5. controller' = controller
    BY <2>3, <2>4 DEF Next, SessionTask, Dispatch, Publish, vars, Connect, StartSession,
       SessionEnd, LoopTop, Idle, PeerEstablished, PeerDown, ReceiveFrame, ExpirePeerAuth,
       DispatchArm, Grab, GatePasses, DispatchHeartbeat, DispatchDisarm, DispatchHello,
       DispatchQsy, DispatchTxRequest, DispatchStopCq, DispatchTakeControl, Displaces,
       DispatchReleaseControl, Refused, ArmUnderLock, SendIntent, ReadGeneration, Reconcile,
       HousekeepingExpire, PollAuthorizations, RevokeStaticEntries, PublishArmList,
       PublishAdmission, BumpGeneration, SetConsent, QsoEngine, QsosEnd, ArmLapses,
       TokenExpires, SignGrant, PoisonArmLock, Crash, Restart
  <2>6. session_id'[controller] = session_id[controller]
    BY <1>1, <2>3, <2>4, Changes DEF DataOK, OfflineHasNoPeers, SessionsChange,
       PeerEstablished, PeerDown, Connect, SessionEnd, Reconcile, Crash
  <2>7. QED
    BY <1>2, <2>1, <2>3, <2>5, <2>6 DEF ArmedClient
<1>6. QED
  BY <1>4, <1>5

\* The armed client stays on the arm list: a publisher that takes it off ends
\* the arm under the same lock, and arming reads the list under it again.
LEMMA EligibleStep ==
  ASSUME TypeInv, GrantsAreTrue, UsedIsSpent, VerifiedIsFresh, ArmedIsEligible, [Next]_vars
  PROVE  ArmedIsEligible'
<1>1. DataOK /\ ArmChange /\ ArmListChange
  BY Changes DEF TypeInv
<1>2. \A j \in Jti : grants[j] # None => grants'[j] = grants[j]
  BY GrantsStep
<1>3. SUFFICES ASSUME arm' # None PROVE grants'[arm'].client \in tx_arm_allow_list'
  BY DEF ArmedIsEligible, is_tx_arm_eligible, ArmedClient
<1>4. CASE ArmUnderLock /\ MayArm(verified) /\ arm' = verified
  <2>1. verified \in Jti /\ grants[verified] # None
    BY <1>1, <1>4 DEF DataOK, VerifiedIsFresh, ArmUnderLock
  <2>2. QED
    BY <1>2, <1>4, <2>1 DEF MayArm, is_tx_arm_eligible, ArmUnderLock, lists
<1>5. CASE arm' = arm /\ ~EndArm
  <2>1. arm \in Jti /\ grants[arm] # None
    BY <1>1, <1>3, <1>5 DEF DataOK, UsedIsSpent, LiveJti
  <2>2. QED
    BY <1>1, <1>2, <1>3, <1>5, <2>1
       DEF ArmListChange, ArmedIsEligible, is_tx_arm_eligible, ArmedClient
<1>6. QED
  BY <1>1, <1>3, <1>4, <1>5 DEF ArmChange, EndArm

\* A peer's capability stays its own.
LEMMA AuthStep ==
  ASSUME TypeInv, AuthIsOwn, [Next]_vars
  PROVE  AuthIsOwn'
<1>1. DataOK /\ AuthChange
  BY Changes DEF TypeInv
<1>2. ASSUME NEW p \in Client, NEW t \in Token \union {None},
             DispatchHello(p, t), HelloVerifies(p, t)
      PROVE  AuthIsOwn'
  BY <1>1, <1>2 DEF DataOK, AuthIsOwn, DispatchHello, HelloVerifies
<1>3. QED
  BY <1>1, <1>2 DEF AuthChange, AuthIsOwn

\* A deny-listed token stays dead. An eviction deny-lists the evicted peers'
\* own tokens, so it cannot reach a remaining peer's, and it ends the arm of
\* an evicted client.
LEMMA DenyStep ==
  ASSUME TypeInv, GrantsAreTrue, UsedIsSpent, VerifiedIsFresh, AuthIsOwn, DenyListedIsDead,
         [Next]_vars
  PROVE  DenyListedIsDead'
<1> USE NoneIsNothing
<1>1. DataOK /\ ArmChange /\ AuthChange /\ MemoryChange
  BY Changes DEF TypeInv
<1>2. \A j \in Jti : grants[j] # None => grants'[j] = grants[j]
  BY GrantsStep
<1>3. arm # None => /\ arm \in Jti /\ grants[arm] # None
                    /\ ArmedClient = grants[arm].token[1]
  BY <1>1 DEF DataOK, UsedIsSpent, LiveJti, GrantsAreTrue, ArmedClient
<1>4. CASE revoked_jtis' = revoked_jtis
  <2>1. \A p \in Client : auth'[p] \notin revoked_jtis
    <3>1. CASE \A p \in Client : auth'[p] \in {None, auth[p]}
      BY <1>1, <3>1 DEF DataOK, DenyListedIsDead
    <3>2. ASSUME NEW p \in Client, NEW t \in Token \union {None},
                 DispatchHello(p, t), HelloVerifies(p, t)
          PROVE  \A q \in Client : auth'[q] \notin revoked_jtis
      BY <1>1, <3>2 DEF DataOK, DenyListedIsDead, DispatchHello, HelloVerifies
    <3>3. QED
      BY <1>1, <3>1, <3>2 DEF AuthChange
  <2>2. ASSUME arm' # None
        PROVE  grants'[arm'].token \notin revoked_jtis
    <3>1. CASE ArmUnderLock /\ arm' = verified
      <4>1. verified \in Jti /\ grants[verified] # None
        BY <1>1, <3>1 DEF DataOK, VerifiedIsFresh, ArmUnderLock
      <4>2. QED
        BY <1>2, <3>1, <4>1 DEF VerifiedIsFresh, ArmUnderLock
    <3>2. CASE arm' = arm
      BY <1>2, <1>3, <2>2, <3>2 DEF DenyListedIsDead
    <3>3. QED
      BY <1>1, <2>2, <3>1, <3>2 DEF ArmChange, EndArm
  <2>3. QED
    BY <1>4, <2>1, <2>2 DEF DenyListedIsDead
<1>5. CASE Reconcile
  <2> DEFINE evicted == Established \ tx_allow_list
  <2>1. /\ revoked_jtis' = revoked_jtis \union ({auth[p] : p \in evicted} \ {None})
        /\ auth' = [p \in Client |-> IF p \in evicted THEN None ELSE auth[p]]
        /\ UNCHANGED grants
    BY <1>5 DEF Reconcile, world
  <2>2. \A p \in Client : auth'[p] \notin revoked_jtis'
    BY <1>1, <2>1 DEF DataOK, AuthIsOwn, DenyListedIsDead, Established
  <2>3. ASSUME arm' # None
        PROVE  arm' = arm /\ ArmedClient \notin evicted
    BY <1>5, <2>3 DEF Reconcile, EndArm, gate
  <2>4. ASSUME arm' # None
        PROVE  grants'[arm'].token \notin revoked_jtis'
    BY <1>3, <2>1, <2>3, <2>4 DEF AuthIsOwn, DenyListedIsDead, Established
  <2>5. QED
    BY <2>2, <2>4 DEF DenyListedIsDead
<1>6. CASE Crash
  BY <1>6 DEF Crash, EndArm, DenyListedIsDead
<1>7. QED
  BY <1>1, <1>4, <1>5, <1>6 DEF MemoryChange

-----------------------------------------------------------------------------
(* Generations. *)

\* The generations stay in order, and a session that has seen the latest one
\* keeps the latest admission list: the list is read after the generation, and
\* the generation moves after the list.
LEMMA GenerationStep ==
  ASSUME TypeInv, GenerationOrder, SeenGenerationIsCurrent, [Next]_vars
  PROVE  GenerationOrder' /\ SeenGenerationIsCurrent'
<1> USE DEF gate, lists, peers, burned, seen, engine, world
<1>1. DataOK
  BY DEF TypeInv
<1> DEFINE shared == <<authz_generation, authz_generation_seen, allowed, tx_allow_list,
                       publisher>>
<1>2. CASE Connect \/ StartSession \/ Reconcile \/ Crash
  BY <1>1, <1>2 DEF DataOK, GenerationOrder, SeenGenerationIsCurrent, SessionUp, Connect,
     StartSession, Reconcile, Crash
<1>3. CASE ReadGeneration
  BY <1>1, <1>3
     DEF DataOK, GenerationOrder, SeenGenerationIsCurrent, SessionUp, ReadGeneration
<1>4. CASE Restart
  BY <1>1, <1>4 DEF DataOK, GenerationOrder, SeenGenerationIsCurrent, SessionUp, Restart
<1>5. ASSUME NEW w \in Publisher, NEW clients, NEW newArmList,
             PublishArmList(w, clients, newArmList)
      PROVE  GenerationOrder' /\ SeenGenerationIsCurrent'
  BY <1>1, <1>5
     DEF DataOK, GenerationOrder, SeenGenerationIsCurrent, SessionUp, PublishArmList
<1>6. ASSUME NEW w \in Publisher, PublishAdmission(w)
      PROVE  GenerationOrder' /\ SeenGenerationIsCurrent'
  <2>1. /\ publisher'[w].step = "bump"
        /\ publisher'[w].changed = Changed(w, tx_allow_list')
        /\ \A v \in Publisher \ {w} : publisher'[v] = publisher[v]
        /\ publisher[w].step = "admission"
    BY <1>1, <1>6 DEF DataOK, PublishAdmission, PublisherRecord
  <2>2. QED
    BY <1>6, <2>1
       DEF GenerationOrder, SeenGenerationIsCurrent, SessionUp, PublishAdmission,
       Changed
<1>7. ASSUME NEW w \in Publisher, BumpGeneration(w)
      PROVE  GenerationOrder' /\ SeenGenerationIsCurrent'
  <2>1. CASE publisher[w].changed
    <3>1. authz_generation_seen' < authz_generation' /\ authz_generation <= authz_generation'
      BY <1>1, <1>7, <2>1 DEF DataOK, GenerationOrder, BumpGeneration
    <3>2. QED
      BY <1>1, <1>7, <2>1, <3>1
         DEF DataOK, GenerationOrder, SeenGenerationIsCurrent, BumpGeneration
  <2>2. CASE ~publisher[w].changed
    <3>1. \A v \in Publisher \ {w} : publisher'[v] = publisher[v]
      BY <1>1, <1>7 DEF DataOK, BumpGeneration
    <3>2. QED
      BY <1>7, <2>2, <3>1
         DEF GenerationOrder, SeenGenerationIsCurrent, SessionUp, BumpGeneration
  <2>3. QED
    BY <2>1, <2>2
<1>8. CASE /\ UNCHANGED shared /\ ~ReadGeneration /\ ~StartSession
  BY <1>1, <1>8, Changes DEF ConnectionChange, GenerationOrder, SeenGenerationIsCurrent
<1>9. QED
  BY <1>1, <1>2, <1>3, <1>4, <1>5, <1>6, <1>7, <1>8, Changes DEF PublicationChange

-----------------------------------------------------------------------------
(* One remote operator. *)

\* A message at the end of the queue: a change of controller sets who comes
\* last, an intent has to be of the one who does.
LEMMA Enqueued ==
  ASSUME NEW q \in Seq(Envelope), NEW s, NEW f \in Operators(q), Follows(f, q, s),
         NEW m \in Envelope, NEW c \in Client \union {None},
         m.kind = "RemoteControllerChanged" => c = m.client,
         m.kind # "RemoteControllerChanged" => c = f[Len(q)],
         m.kind = "Intent" => c = m.client /\ c # None
  PROVE  \E g \in Operators(Append(q, m)) :
             Follows(g, Append(q, m), s) /\ g[Len(Append(q, m))] = c
<1> DEFINE g == [i \in 0..(Len(q) + 1) |-> IF i <= Len(q) THEN f[i] ELSE c]
<1>1. /\ Len(q) \in Nat /\ Len(Append(q, m)) = Len(q) + 1
      /\ \A i \in 1..Len(q) : Append(q, m)[i] = q[i]
      /\ Append(q, m)[Len(q) + 1] = m
  OBVIOUS
<1>2. g \in Operators(Append(q, m)) /\ g[Len(q) + 1] = c
  BY <1>1 DEF Operators
<1>3. \A i \in 0..Len(q) : g[i] = f[i]
  BY <1>1
<1> HIDE DEF g
<1>4. Follows(g, Append(q, m), s)
  <2>1. s \subseteq {g[0]}
    BY <1>1, <1>3 DEF Follows
  <2>2. ASSUME NEW i \in 1..(Len(q) + 1), NEW e, e = Append(q, m)[i]
        PROVE  /\ e.kind = "RemoteControllerChanged" => g[i] = e.client
               /\ e.kind # "RemoteControllerChanged" => g[i] = g[i - 1]
               /\ e.kind = "Intent" => g[i] = e.client /\ g[i] # None
    <3>1. CASE i \in 1..Len(q)
      BY <1>1, <1>3, <2>2, <3>1 DEF Follows
    <3>2. CASE i = Len(q) + 1
      <4>1. e = m /\ g[i] = c /\ g[i - 1] = f[Len(q)]
        BY <1>1, <1>2, <1>3, <2>2, <3>2
      <4>2. QED
        BY <4>1
    <3>3. QED
      BY <1>1, <3>1, <3>2
  <2>3. QED
    BY <1>1, <2>1, <2>2 DEF Follows
<1>5. QED
  BY <1>1, <1>2, <1>4

\* The engine takes the first message: the QSOs it leaves are those of the one
\* it then works for.
LEMMA Dequeued ==
  ASSUME NEW q \in Seq(Envelope), q # <<>>, NEW s, NEW f \in Operators(q), Follows(f, q, s),
         NEW r, r \subseteq {f[1]}
  PROVE  \E g \in Operators(Tail(q)) : Follows(g, Tail(q), r) /\ g[Len(Tail(q))] = f[Len(q)]
<1> DEFINE g == [i \in 0..(Len(q) - 1) |-> f[i + 1]]
<1>1. /\ Len(q) \in Nat \ {0} /\ Len(Tail(q)) = Len(q) - 1
      /\ \A i \in 1..(Len(q) - 1) : Tail(q)[i] = q[i + 1]
  OBVIOUS
<1>2. g \in Operators(Tail(q)) /\ g[Len(q) - 1] = f[Len(q)]
  BY <1>1 DEF Operators
<1>3. \A i \in 0..(Len(q) - 1) : g[i] = f[i + 1]
  BY <1>1
<1> HIDE DEF g
<1>4. Follows(g, Tail(q), r)
  <2>1. r \subseteq {g[0]}
    BY <1>1, <1>3
  <2>2. ASSUME NEW i \in 1..(Len(q) - 1), NEW e, e = Tail(q)[i]
        PROVE  /\ e.kind = "RemoteControllerChanged" => g[i] = e.client
               /\ e.kind # "RemoteControllerChanged" => g[i] = g[i - 1]
               /\ e.kind = "Intent" => g[i] = e.client /\ g[i] # None
    <3>1. /\ i + 1 \in 1..Len(q) /\ e = q[i + 1]
          /\ g[i] = f[i + 1] /\ g[i - 1] = f[(i + 1) - 1]
      BY <1>1, <1>3, <2>2
    <3>2. QED
      BY <3>1 DEF Follows
  <2>3. QED
    BY <1>1, <2>1, <2>2 DEF Follows
<1>5. QED
  BY <1>1, <1>2, <1>4

\* A client that takes control, or already has it, is in line once the cleanup
\* owed to it is counted.
LEMMA TakesItsPlace ==
  ASSUME NEW p \in Client, InLine(inbox, qsos, controller, qso_cleanup_owed)
  PROVE  InLine(inbox, qsos, p, Owed(p))
  BY NoneIsNothing DEF InLine, Owed

\* Giving up control keeps the line.
LEMMA LeavesInLine ==
  ASSUME NEW q, NEW s, NEW c, NEW owed, InLine(q, s, c, owed)
  PROVE  InLine(q, s, None, owed)
  BY DEF InLine

\* A flush keeps the line, whether or not the inbox had room for the cleanup.
LEMMA FlushKeepsLine ==
  ASSUME TypeInv, NEW c \in Client \union {None}, NEW owed \in Client \union {None},
         InLine(inbox, qsos, c, owed)
  PROVE  InLine(FlushedInbox(owed), qsos, c, StillOwed(owed))
<1> DEFINE m == Message("RemoteControllerChanged", owed)
<1>1. inbox \in Seq(Envelope) /\ m \in Envelope /\ m.client = owed
      /\ m.kind = "RemoteControllerChanged"
  BY DEF TypeInv, InboxFits, Message, Envelope
<1>2. CASE owed # None /\ HasRoom(inbox)
  <2>1. FlushedInbox(owed) = Append(inbox, m) /\ StillOwed(owed) = None
    BY <1>2 DEF FlushedInbox, StillOwed
  <2>2. PICK f \in Operators(inbox) : Follows(f, inbox, qsos)
    BY DEF InLine
  <2> HIDE DEF m
  <2>3. PICK g \in Operators(Append(inbox, m)) :
            Follows(g, Append(inbox, m), qsos) /\ g[Len(Append(inbox, m))] = owed
    BY <1>1, <2>2, Enqueued
  <2>4. QED
    BY <1>2, <2>1, <2>3 DEF InLine
<1>3. CASE ~(owed # None /\ HasRoom(inbox))
  BY <1>3 DEF FlushedInbox, StillOwed, InLine
<1>4. QED
  BY <1>2, <1>3

\* Which steps can disturb the line: those that move control, the cleanup, the
\* queue or the QSOs.
Steady ==
    /\ UNCHANGED <<qso_cleanup_owed, inbox, qsos>>
    /\ controller' \in {controller, None}
    /\ pc' = "sending" => pc = "sending" /\ controller' = controller

Takes(p) ==
    /\ UNCHANGED <<inbox, qsos>>
    /\ controller' = p /\ qso_cleanup_owed' = Owed(p)
    /\ pc' # "sending"

\* Every step is one of these.
LEMMA OperatorChange ==
  ASSUME [Next]_vars
  PROVE  \/ Steady
         \/ \E p \in Client : \/ Takes(p) \/ DispatchTxRequest(p) \/ DispatchStopCq(p)
                              \/ QsosEnd(p)
         \/ LoopTop \/ SendIntent \/ QsoEngine \/ Crash
<1> USE DEF gate, lists, peers, burned, seen, engine, world
<1>1. CASE \/ Connect \/ StartSession \/ SessionEnd \/ Idle \/ ReceiveFrame \/ Refused
           \/ ArmUnderLock \/ ReadGeneration \/ Reconcile \/ HousekeepingExpire
  BY <1>1 DEF Steady, Connect, StartSession, SessionEnd, Idle, ReceiveFrame, Refused,
     ArmUnderLock, ReadGeneration, Reconcile, HousekeepingExpire, ExpirePeerAuth
<1>2. ASSUME NEW p \in Client, PeerEstablished(p) \/ PeerDown(p)
      PROVE  Steady
  BY <1>2 DEF Steady, PeerEstablished, PeerDown
<1>3. ASSUME NEW p \in Client, Dispatch(p)
      PROVE  Steady \/ Takes(p) \/ DispatchTxRequest(p) \/ DispatchStopCq(p)
  BY <1>3
     DEF Dispatch, Steady, Takes, Grab, DispatchArm, DispatchHeartbeat, DispatchDisarm,
     DispatchHello, DispatchQsy, DispatchTakeControl, DispatchReleaseControl
<1>4. CASE \/ \E connect, undelegated \in SUBSET Client :
                  PollAuthorizations(connect, undelegated)
           \/ \E removed \in SUBSET Client : RevokeStaticEntries(removed)
           \/ \E w \in Publisher : Publish(w)
           \/ \E on \in ConsentEdits : SetConsent(on)
           \/ Restart
  BY <1>4 DEF Steady, PollAuthorizations, RevokeStaticEntries, PublishArmList, Publish,
     PublishAdmission, BumpGeneration, SetConsent, Restart
<1>5. CASE \/ ArmLapses \/ (\E t \in Token : TokenExpires(t))
           \/ (\E j \in Jti, t \in Token : SignGrant(j, t))
           \/ PoisonArmLock \/ UNCHANGED vars
  BY <1>5 DEF Steady, ArmLapses, TokenExpires, SignGrant, PoisonArmLock, vars
<1>6. QED
  BY <1>1, <1>2, <1>3, <1>4, <1>5 DEF Next, SessionTask

\* Control, cleanups, intents and the engine keep the line.
LEMMA OperatorStep ==
  ASSUME TypeInv, OperatorInLine, [Next]_vars
  PROVE  OperatorInLine'
<1> USE NoneIsNothing
<1>1. /\ DataOK /\ inbox \in Seq(Envelope)
      /\ InLine(inbox, qsos, controller, qso_cleanup_owed)
  BY DEF TypeInv, InboxFits, OperatorInLine
<1>2. CASE Steady
  BY <1>1, <1>2, LeavesInLine DEF Steady, OperatorInLine
<1>3. ASSUME NEW p \in Client, Takes(p)
      PROVE  OperatorInLine'
  BY <1>1, <1>3, TakesItsPlace DEF Takes, OperatorInLine
<1>4. ASSUME NEW p \in Client
      PROVE  /\ Owed(p) \in Client \union {None}
             /\ InLine(FlushedInbox(Owed(p)), qsos, p, StillOwed(Owed(p)))
  <2>1. Owed(p) \in Client \union {None}
    BY <1>1 DEF DataOK, Owed
  <2>2. QED
    BY <1>1, <2>1, TakesItsPlace, FlushKeepsLine
<1>5. ASSUME NEW p \in Client, DispatchTxRequest(p)
      PROVE  OperatorInLine'
  <2>1. CASE consent /\ ~poisoned
    BY <1>4, <1>5, <2>1 DEF DispatchTxRequest, Grab, IntentMayGo, OperatorInLine
  <2>2. CASE ~(consent /\ ~poisoned)
    <3>1. Takes(p)
      BY <1>5, <2>2 DEF DispatchTxRequest, Grab, Takes
    <3>2. QED
      BY <1>3, <3>1
  <2>3. QED
    BY <2>1, <2>2
<1>6. ASSUME NEW p \in Client, DispatchStopCq(p)
      PROVE  OperatorInLine'
  <2> DEFINE q == FlushedInbox(Owed(p))
             m == Message("StopCq", None)
  <2>1. /\ q \in Seq(Envelope) /\ m \in Envelope /\ m.kind = "StopCq"
        /\ inbox' = IF HasRoom(q) THEN Append(q, m) ELSE q
        /\ controller' = p /\ qso_cleanup_owed' = StillOwed(Owed(p))
        /\ qsos' = qsos /\ pc' # "sending"
    BY <1>4, <1>6, FlushFits DEF DispatchStopCq, Grab, Message, Envelope
  <2>2. InLine(q, qsos, p, StillOwed(Owed(p)))
    BY <1>4
  <2> HIDE DEF q, m
  <2>3. InLine(Append(q, m), qsos, p, StillOwed(Owed(p)))
    <3>1. PICK f \in Operators(q) :
              /\ Follows(f, q, qsos)
              /\ StillOwed(Owed(p)) = None => f[Len(q)] = p
      BY <2>2 DEF InLine
    <3>2. f[Len(q)] \in Client \union {None}
      BY <2>1 DEF Operators
    <3>3. PICK g \in Operators(Append(q, m)) :
              /\ Follows(g, Append(q, m), qsos)
              /\ g[Len(Append(q, m))] = f[Len(q)]
      BY <2>1, <3>1, <3>2, Enqueued
    <3>4. QED
      BY <2>2, <3>1, <3>3 DEF InLine
  <2>4. QED
    BY <2>1, <2>2, <2>3 DEF OperatorInLine
<1>7. CASE LoopTop
  BY <1>1, <1>7, FlushKeepsLine DEF DataOK, LoopTop, FlushEachTick, OperatorInLine
<1>8. CASE SendIntent
  <2> DEFINE m == Message("Intent", controller)
  <2>1. /\ controller \in Client /\ qso_cleanup_owed = None
        /\ m \in Envelope /\ m.kind = "Intent" /\ m.client = controller
        /\ inbox' = IF HasRoom(inbox) THEN Append(inbox, m) ELSE inbox
        /\ UNCHANGED <<controller, qso_cleanup_owed, qsos>> /\ pc' # "sending"
    BY <1>1, <1>8 DEF DataOK, OperatorInLine, SendIntent, Message, Envelope
  <2> HIDE DEF m
  <2>2. PICK f \in Operators(inbox) :
            Follows(f, inbox, qsos) /\ f[Len(inbox)] = controller
    BY <1>1, <2>1 DEF InLine
  <2>3. PICK g \in Operators(Append(inbox, m)) :
            /\ Follows(g, Append(inbox, m), qsos)
            /\ g[Len(Append(inbox, m))] = controller
    BY <1>1, <2>1, <2>2, Enqueued
  <2>4. InLine(Append(inbox, m), qsos, controller, qso_cleanup_owed)
    BY <2>1, <2>3 DEF InLine
  <2>5. QED
    BY <1>1, <2>1, <2>4 DEF OperatorInLine
<1>9. CASE QsoEngine
  <2>1. /\ inbox # <<>> /\ inbox' = Tail(inbox) /\ qsos' \in AfterMessage(Head(inbox))
        /\ UNCHANGED <<controller, qso_cleanup_owed, pc>>
    BY <1>9 DEF QsoEngine
  <2>2. PICK f \in Operators(inbox) :
            /\ Follows(f, inbox, qsos)
            /\ (controller # None /\ qso_cleanup_owed = None) => f[Len(inbox)] = controller
    BY <1>1 DEF InLine
  <2>3. qsos' \subseteq {f[1]}
    <3>1. /\ qsos \subseteq {f[0]} /\ Head(inbox) = inbox[1] /\ inbox[1] \in Envelope
          /\ inbox[1].kind = "RemoteControllerChanged" => f[1] = inbox[1].client
          /\ inbox[1].kind # "RemoteControllerChanged" => f[1] = f[0]
          /\ inbox[1].kind = "Intent" => f[1] = inbox[1].client
      BY <1>1, <2>1, <2>2 DEF Follows
    <3>2. QED
      BY <2>1, <3>1 DEF AfterMessage, Envelope
  <2>4. PICK g \in Operators(Tail(inbox)) :
            Follows(g, Tail(inbox), qsos') /\ g[Len(Tail(inbox))] = f[Len(inbox)]
    BY <1>1, <2>1, <2>2, <2>3, Dequeued
  <2>5. InLine(Tail(inbox), qsos', controller, qso_cleanup_owed)
    BY <1>1, <2>2, <2>4 DEF InLine
  <2>6. QED
    BY <2>1, <2>5 DEF OperatorInLine
<1>10. ASSUME NEW p \in Client, QsosEnd(p)
       PROVE  OperatorInLine'
  BY <1>1, <1>10 DEF QsosEnd, OperatorInLine, InLine, Follows
<1>11. CASE Crash
  BY <1>1, <1>11 DEF Crash, engine, OperatorInLine, InLine
<1>12. QED
  BY <1>2, <1>3, <1>5, <1>6, <1>7, <1>8, <1>9, <1>10, <1>11, OperatorChange

-----------------------------------------------------------------------------
(* The inductive invariant. *)

\* It holds when the component starts.
LEMMA AgentInit == Init => AgentInv
<1> SUFFICES ASSUME Init PROVE AgentInv
  OBVIOUS
<1> USE NoneIsNothing DEF Init
<1>1. DataOK
  BY ClientAssumption DEF DataOK, SeedArmList, Unpublished, PublisherRecord
<1>2. PeersFit
  <2>1. Established = {}
    BY DEF Established
  <2>2. QED
    BY <2>1, FS_EmptySet, LimitsAssumption DEF PeersFit
<1>3. InboxFits
  BY LimitsAssumption DEF InboxFits
<1>4. /\ OfflineHasNoPeers /\ GrantsAreTrue /\ UsedIsSpent /\ VerifiedIsFresh
      /\ ArmIsControllers /\ ArmedIsEligible
      /\ AuthIsOwn /\ DenyListedIsDead /\ GenerationOrder /\ SeenGenerationIsCurrent
  BY DEF OfflineHasNoPeers, GrantsAreTrue, UsedIsSpent, LiveJti, VerifiedIsFresh,
     ArmIsControllers, ArmedIsEligible, AuthIsOwn, DenyListedIsDead, GenerationOrder,
     SeenGenerationIsCurrent, SessionUp
<1>5. OperatorInLine
  <2> DEFINE f == [i \in 0..0 |-> None]
  <2>1. f \in Operators(<<>>) /\ Follows(f, <<>>, {})
    BY DEF Operators, Follows
  <2>2. QED
    BY <2>1 DEF OperatorInLine, InLine
<1>6. QED
  BY <1>1, <1>2, <1>3, <1>4, <1>5 DEF AgentInv, TypeInv

\* Every step keeps it.
LEMMA AgentStep == AgentInv /\ [Next]_vars => AgentInv'
<1> SUFFICES ASSUME AgentInv, [Next]_vars PROVE AgentInv'
  OBVIOUS
<1> USE DEF AgentInv
<1>1. TypeInv'
  BY DataStep, PeersStep, InboxStep DEF TypeInv
<1>2. OfflineHasNoPeers'
  BY OfflineStep
<1>3. GrantsAreTrue'
  BY GrantsStep
<1>4. UsedIsSpent'
  BY SpentStep
<1>5. VerifiedIsFresh'
  BY FreshStep
<1>6. ArmIsControllers'
  BY ControlStep
<1>7. ArmedIsEligible'
  BY EligibleStep
<1>8. AuthIsOwn' /\ DenyListedIsDead'
  BY AuthStep, DenyStep
<1>9. GenerationOrder' /\ SeenGenerationIsCurrent'
  BY GenerationStep
<1>10. OperatorInLine'
  BY OperatorStep
<1>11. QED
  BY <1>1, <1>2, <1>3, <1>4, <1>5, <1>6, <1>7, <1>8, <1>9, <1>10

\* So it holds in every reachable state.
LEMMA AgentInvariant == Spec => []AgentInv
  BY AgentInit, AgentStep, PTL DEF Spec

-----------------------------------------------------------------------------
(* What the agent promises. *)

\* The state is well typed, at most MAX_PEERS peers are established and the
\* inbox never holds more than its channel (run_one_session, MultiPeerSession).
THEOREM AgentTypeCorrect == Spec => []TypeOK
<1>1. AgentInv => TypeOK
  BY TypeInvImplies DEF AgentInv
<1>2. QED
  BY <1>1, AgentInvariant, PTL

\* Whenever TX is permitted, the armed client is in control and the arm is for
\* the session it has now (dispatch_action, disarm_on_loss).
THEOREM ArmFollowsTheController == Spec => []ArmFollowsControl
<1>1. AgentInv => ArmFollowsControl
  BY DEF AgentInv, ArmIsControllers, ArmFollowsControl, TxPermitted
<1>2. QED
  BY <1>1, AgentInvariant, PTL

\* A live arm's client is on the published arm list (verify_and_arm and the
\* publishers, under the arm lock).
THEOREM ArmsAreEligible == Spec => []ArmedIsEligible
<1>1. AgentInv => ArmedIsEligible
  BY DEF AgentInv
<1>2. QED
  BY <1>1, AgentInvariant, PTL

\* A session that has seen the latest generation holds the latest admission
\* list, unless a bump is owed (run_one_session, reconcile_authorizations).
THEOREM GenerationTellsTheList == Spec => []SeenGenerationIsCurrent
<1>1. AgentInv => SeenGenerationIsCurrent
  BY DEF AgentInv
<1>2. QED
  BY <1>1, AgentInvariant, PTL

\* A deny-listed token authorizes nobody and backs no arm
\* (reconcile_authorizations, dispatch_hello, verify_arm_grant).
THEOREM DenyListHolds == Spec => []DenyListedIsDead
<1>1. AgentInv => DenyListedIsDead
  BY DEF AgentInv
<1>2. QED
  BY <1>1, AgentInvariant, PTL

\* QSOs of two remote operators are never live together (flush_qso_cleanup).
THEOREM OneOperatorAtATime == Spec => []OneRemoteOperator
<1>1. AgentInv => OneRemoteOperator
  <2>1. SUFFICES ASSUME AgentInv PROVE OneRemoteOperator
    OBVIOUS
  <2>2. PICK f \in Operators(inbox) : Follows(f, inbox, qsos)
    BY <2>1 DEF AgentInv, OperatorInLine, InLine
  <2>3. qsos \in SUBSET {f[0]}
    BY <2>2 DEF Follows
  <2>4. IsFiniteSet({f[0]}) /\ Cardinality({f[0]}) = 1
    BY FS_Singleton
  <2>5. Cardinality(qsos) <= 1
    BY <2>3, <2>4, FS_Subset
  <2>6. QED
    BY <2>5 DEF OneRemoteOperator
<1>2. QED
  BY <1>1, AgentInvariant, PTL

\* Every step of the agent is a step of the lease or leaves it alone: a grant
\* that reaches the lock was never live, and every other step at most ends the
\* arm.
LEMMA LeaseStep == AgentInv /\ [Next]_vars => [Lease!Next]_<<LiveJti, ended>>
<1> SUFFICES ASSUME AgentInv, [Next]_vars PROVE [Lease!Next]_<<LiveJti, ended>>
  OBVIOUS
<1>1. DataOK /\ ArmChange /\ VerifiedIsFresh
  BY Changes DEF AgentInv, TypeInv
<1>2. CASE UNCHANGED <<arm, ended>>
  BY <1>2 DEF LiveJti
<1>3. CASE EndArm
  <2>1. LiveJti' = {} /\ ended' = ended \union LiveJti
    BY <1>3 DEF EndArm, LiveJti
  <2>2. CASE LiveJti = {}
    BY <2>1, <2>2
  <2>3. CASE LiveJti # {}
    BY <2>1, <2>3 DEF Lease!Next, Lease!End
  <2>4. QED
    BY <2>2, <2>3
<1>4. CASE ArmUnderLock /\ arm' = verified /\ ended' = ended \union LiveJti
  <2>1. verified \in Jti /\ verified \notin LiveJti \union ended
    BY <1>1, <1>4 DEF DataOK, VerifiedIsFresh, ArmUnderLock
  <2>2. LiveJti' = {verified}
    BY <1>4, <2>1, NoneIsNothing DEF LiveJti
  <2>3. Lease!Lease(verified)
    BY <1>4, <2>1, <2>2 DEF Lease!Lease
  <2>4. QED
    BY <2>1, <2>3 DEF Lease!Next
<1>5. QED
  BY <1>1, <1>2, <1>3, <1>4 DEF ArmChange

\* The agent's arms are leases: a grant arms at most once, even across a crash
\* that loses the memory of used grants (verify_arm_grant, session binding).
THEOREM ArmsAreLeases == Spec => LeaseSpec
<1>1. Init => Lease!Init
  BY DEF Init, Lease!Init, LiveJti
<1>2. QED
  BY <1>1, LeaseStep, AgentInvariant, PTL DEF Spec, LeaseSpec, Lease!Spec

=============================================================================
