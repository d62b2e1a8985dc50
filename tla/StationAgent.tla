--------------------------- MODULE StationAgent ----------------------------
(***************************************************************************)
(* The station agent (pancetta/src/coordinator/station_agent/mod.rs): one  *)
(* task that serves up to MAX_PEERS remote clients over one relay socket,  *)
(* lets at most one of them control the radio, and arms the shared TX gate *)
(* for it. Other tasks work on the same state while it runs:               *)
(*   - the authorization poller and the config reload each publish new     *)
(*     admission lists in three steps and end an arm they revoke;          *)
(*   - the QSO engine drains a bounded inbox;                              *)
(*   - the supervisor cleans up after a crash and starts a new task.       *)
(*                                                                         *)
(* The arm's own timing is ArmGate's subject. Here the live arm is the     *)
(* grant it came from, and "lapsed" says that one of its deadlines passed. *)
(* Frames to clients, rig control and the audit trail are left out.        *)
(***************************************************************************)
EXTENDS Integers, Sequences, FiniteSets

CONSTANTS
    Client,          \* client key ids
    Jti,             \* identifiers of the arm grants clients sign
    TokenCount,      \* capability tokens cqdx mints for one client
    TokenScope,      \* [Client -> Scope]: the scope of a client's tokens
    StaticAllow,     \* tx_allow_list the station was started with
    CqdxWillPoll,    \* cqdx auto-populate is configured
    MAX_PEERS,       \* multi_session.rs MAX_PEERS
    InboxCapacity,   \* slots in the QSO component's channel
    None,            \* Option::None
    Frames,          \* kinds of control frame the clients send
    ConsentEdits,    \* values a saved edit may give remote_tx_enabled
    MaxExpired,      \* bound: tokens that expire
    MaxGeneration,   \* bound: publications in one task lifetime
    MaxSessions,     \* bound: Noise sessions established
    MaxFaults        \* bound: panics (crashes and poisoned locks)

Scope == {"none", "status", "qsy", "tx"}
Token == Client \X (1..TokenCount)
Publisher == {"poll", "config"}

ASSUME ClientAssumption ==
    /\ TokenCount \in Nat \ {0}
    /\ TokenScope \in [Client -> Scope]
    /\ StaticAllow \subseteq Client
    /\ CqdxWillPoll \in BOOLEAN
ASSUME InputAssumption ==
    /\ Frames \subseteq {"arm", "heartbeat", "disarm", "hello", "qsy", "txRequest",
                          "stopCq", "takeControl", "releaseControl"}
    /\ ConsentEdits \subseteq BOOLEAN
ASSUME LimitsAssumption ==
    /\ MAX_PEERS \in Nat \ {0} /\ InboxCapacity \in Nat \ {0}
    /\ MaxGeneration \in Nat /\ MaxSessions \in Nat /\ MaxFaults \in Nat
    /\ MaxExpired \in Nat
ASSUME NoneAssumption == None \notin Client \union Jti \union Token

VARIABLES
    \* the shared ArmState behind its mutex
    arm,               \* jti of the live arm, or None
    lapsed,            \* a deadline of the live arm has passed
    consent,           \* station-agent channel consent
    poisoned,          \* a task panicked while it held the mutex
    \* shared with the publishers
    tx_allow_list,     \* who may connect
    tx_arm_allow_list, \* who may arm
    authz_generation,
    publisher,         \* what each publisher is about to do
    static_allow,      \* tx_allow_list of the running configuration
    \* the session task's own state
    pc,                \* where the task is
    allowed,           \* MultiPeerSession.allowed
    session_id,        \* channel binding of each established peer, 0 if none
    auth,              \* hello capability of each peer, or None
    controller,
    qso_cleanup_owed,
    seen_jtis,
    revoked_jtis,
    authz_generation_seen,
    current,           \* the generation reconcile_authorizations has read
    verified,          \* the grant waiting for the arm lock, or None
    \* the QSO engine
    inbox,             \* messages the session task has enqueued
    qsos,              \* clients with live or queued QSOs
    \* the world
    grants,            \* arm grants clients have signed
    expired,           \* capability tokens past their exp
    sessions,          \* Noise sessions established so far
    faults,
    ended              \* history: jtis whose arm is over

gate == <<arm, lapsed, ended>>
lists == <<tx_allow_list, tx_arm_allow_list, authz_generation, publisher, static_allow>>
peers == <<allowed, session_id, auth>>
burned == <<seen_jtis, revoked_jtis>>
seen == <<authz_generation_seen, current>>
engine == <<inbox, qsos>>
world == <<grants, expired, sessions, faults>>
vars == <<gate, consent, poisoned, lists, pc, peers, controller, qso_cleanup_owed,
          burned, seen, verified, engine, world>>

LiveJti == {arm} \ {None}
ArmedClient == grants[arm].client
Established == {p \in Client : session_id[p] # 0}
SessionUp == pc \notin {"dead", "down", "starting"}

\* ArmState::tx_permitted behind the TX worker's lock: poison denies.
TxPermitted == arm # None /\ ~lapsed /\ consent /\ ~poisoned

-----------------------------------------------------------------------------
(* Who may do what. *)

Tier == [none |-> 0, status |-> 1, qsy |-> 2, tx |-> 3]
scope_at_least(t, required) == Tier[TokenScope[t[1]]] >= Tier[required]

peer_admitted(p) == p \in tx_allow_list

peer_grants(p, required) ==
    /\ peer_admitted(p)
    /\ auth[p] # None
    /\ auth[p] \notin expired \union revoked_jtis
    /\ scope_at_least(auth[p], required)

is_tx_arm_eligible(p) == p \in tx_arm_allow_list

(* Ending the live arm. ArmState::disarm is skipped on a poisoned lock;    *)
(* the publishers, the crash guard and the supervisor enter it anyway.     *)
EndArm ==
    /\ arm' = None
    /\ lapsed' = FALSE
    /\ ended' = ended \union LiveJti

DisarmUnlessPoisoned == IF poisoned THEN UNCHANGED gate ELSE EndArm

(* Every change of controller to a client owes the QSO engine a cleanup.   *)
GatePasses(p) == controller \in {None, p}

Owed(p) == IF controller = p THEN qso_cleanup_owed ELSE p

\* Capabilities past their expiry are cleared; an expired controller is
\* disarmed and loses control.
ExpirePeerAuth ==
    LET lapsing == {p \in Client : auth[p] \in expired}
    IN  /\ auth' = [p \in Client |-> IF p \in lapsing THEN None ELSE auth[p]]
        /\ IF controller \in lapsing
             THEN DisarmUnlessPoisoned /\ controller' = None
             ELSE UNCHANGED <<gate, controller>>

(* flush_qso_cleanup on an inbox: what it enqueues and what stays owed.    *)
\* Mutant: one slot too many.
HasRoomByOne(q) == Len(q) <= InboxCapacity

HasRoom(q) == Len(q) < InboxCapacity
Message(kind, p) == [kind |-> kind, client |-> p]

FlushedInbox(owed) ==
    IF owed # None /\ HasRoom(inbox)
      THEN Append(inbox, Message("RemoteControllerChanged", owed)) ELSE inbox

StillOwed(owed) == IF HasRoom(inbox) THEN None ELSE owed

-----------------------------------------------------------------------------
(* The session loop. *)

\* Connected to the relay: the generation is recorded before the list is read.
Connect ==
    /\ pc = "down"
    /\ pc' = "starting"
    /\ authz_generation_seen' = authz_generation
    /\ session_id' = [p \in Client |-> 0]
    /\ auth' = [p \in Client |-> None]
    /\ UNCHANGED <<gate, consent, poisoned, lists, allowed, controller, qso_cleanup_owed,
                   burned, current, verified, engine, world>>

StartSession ==
    /\ pc = "starting"
    /\ pc' = "top"
    /\ allowed' = tx_allow_list
    /\ UNCHANGED <<gate, consent, poisoned, lists, session_id, auth, controller,
                   qso_cleanup_owed, burned, seen, verified, engine, world>>

\* The session ends (closed, error, failed transport, refused authentication,
\* shutdown) and disarm_on_loss runs. The cleanup stays owed.
SessionEnd ==
    /\ pc \in {"starting", "top", "received"}
    /\ pc' = "down"
    /\ DisarmUnlessPoisoned
    /\ controller' = None
    /\ session_id' = [p \in Client |-> 0]
    /\ auth' = [p \in Client |-> None]
    /\ UNCHANGED <<consent, poisoned, lists, allowed, qso_cleanup_owed, burned, seen,
                   verified, engine, world>>

\* Mutant: a cleanup that found the inbox full is not tried again.
FlushNever == UNCHANGED <<inbox, qso_cleanup_owed>>

FlushEachTick ==
    /\ inbox' = FlushedInbox(qso_cleanup_owed)
    /\ qso_cleanup_owed' = StillOwed(qso_cleanup_owed)

\* One iteration begins: flush an owed cleanup, receive, sweep a lapsed arm.
LoopTop ==
    /\ pc = "top"
    /\ pc' = "received"
    /\ FlushEachTick
    /\ IF lapsed THEN DisarmUnlessPoisoned ELSE UNCHANGED gate
    /\ UNCHANGED <<consent, poisoned, lists, peers, controller, burned, seen, verified,
                   qsos, world>>

\* Nothing for dispatch_action: quiet, refused peer, unparsable frame.
Idle ==
    /\ pc = "received"
    /\ pc' = "housekeeping"
    /\ UNCHANGED <<gate, consent, poisoned, lists, peers, controller, qso_cleanup_owed,
                   burned, seen, verified, engine, world>>

\* A Noise handshake with a peer of the session's admission set completes.
PeerEstablished(p) ==
    /\ pc = "received"
    /\ p \in allowed /\ session_id[p] = 0
    /\ Cardinality(Established) < MAX_PEERS
    /\ sessions < MaxSessions
    /\ sessions' = sessions + 1
    /\ session_id' = [session_id EXCEPT ![p] = sessions']
    /\ auth' = [auth EXCEPT ![p] = None]
    /\ pc' = "housekeeping"
    /\ UNCHANGED <<gate, consent, poisoned, lists, allowed, controller, qso_cleanup_owed,
                   burned, seen, verified, engine, grants, expired, faults>>

\* Presence "down", or a frame that does not decrypt under the peer's keys.
PeerDown(p) ==
    /\ pc = "received"
    /\ session_id[p] # 0
    /\ session_id' = [session_id EXCEPT ![p] = 0]
    /\ auth' = [auth EXCEPT ![p] = None]
    /\ IF controller = p
         THEN DisarmUnlessPoisoned /\ controller' = None
         ELSE UNCHANGED <<gate, controller>>
    /\ pc' = "housekeeping"
    /\ UNCHANGED <<consent, poisoned, lists, allowed, qso_cleanup_owed, burned, seen,
                   verified, engine, world>>

\* A control frame was received: capabilities expire before it is dispatched.
ReceiveFrame ==
    /\ pc = "received"
    /\ Established # {}
    /\ pc' = "dispatch"
    /\ ExpirePeerAuth
    /\ UNCHANGED <<consent, poisoned, lists, allowed, session_id, qso_cleanup_owed,
                   burned, seen, verified, engine, world>>

-----------------------------------------------------------------------------
(* dispatch_action: one control frame from peer p. *)

From(p, frame) == pc = "dispatch" /\ session_id[p] # 0 /\ frame \in Frames

\* A peer off the live admission list may only give up authority; a frame the
\* gate, the rig or a missing capability refuses changes nothing, and neither
\* does an unsupported one, which any peer may send.
Refused ==
    /\ pc = "dispatch"
    /\ pc' = "housekeeping"
    /\ UNCHANGED <<gate, consent, poisoned, lists, peers, controller, qso_cleanup_owed,
                   burned, seen, verified, engine, world>>

\* controller_gate: nobody in control means the peer takes it.
Grab(p) ==
    /\ peer_admitted(p)
    /\ GatePasses(p)
    /\ controller' = p

\* Mutant: the grant is not bound to the session it was signed for.
GrantVerifiesForPeer(p, j) ==
    /\ grants[j].client = p
    /\ is_tx_arm_eligible(p)
    /\ grants[j].token \notin expired \union revoked_jtis
    /\ scope_at_least(grants[j].token, "tx")
    /\ j \notin seen_jtis

\* verify_and_arm up to the arm lock: the claimed client is the sender, it may
\* arm, and verify_arm_grant accepts the grant for THIS peer's session.
GrantVerifies(p, j) ==
    /\ grants[j].client = p
    /\ is_tx_arm_eligible(p)
    /\ grants[j].token \notin expired \union revoked_jtis
    /\ scope_at_least(grants[j].token, "tx")
    /\ grants[j].session_id = session_id[p]
    /\ j \notin seen_jtis

DispatchArm(p, j) ==
    /\ From(p, "arm") /\ grants[j] # None
    /\ Grab(p)
    /\ qso_cleanup_owed' = Owed(p)
    /\ IF GrantVerifies(p, j)
         THEN /\ seen_jtis' = seen_jtis \union {j}
              /\ verified' = j
              /\ pc' = "arming"
         ELSE /\ pc' = "housekeeping"
              /\ UNCHANGED <<seen_jtis, verified>>
    /\ UNCHANGED <<gate, consent, poisoned, lists, peers, revoked_jtis, seen, engine, world>>

\* Mutant: eligibility is not read again.
MayArmUnchecked(j) == ~poisoned /\ consent /\ grants[j].token \notin expired

\* Under the arm lock: eligibility and consent are read again, and ArmState
\* refuses a grant whose authority has run out.
MayArm(j) ==
    /\ ~poisoned
    /\ is_tx_arm_eligible(grants[j].client)
    /\ consent
    /\ grants[j].token \notin expired

ArmUnderLock ==
    /\ pc = "arming"
    /\ IF MayArm(verified)
         THEN /\ arm' = verified
              /\ lapsed' = FALSE
              /\ ended' = ended \union LiveJti
         ELSE UNCHANGED gate
    /\ verified' = None
    /\ pc' = "housekeeping"
    /\ UNCHANGED <<consent, poisoned, lists, peers, controller, qso_cleanup_owed, burned,
                   seen, engine, world>>

\* A heartbeat of any peer finds the arm past its deadline and ends it. (One
\* in time only slides ArmGate's dead-man window.)
DispatchHeartbeat(p) ==
    /\ From(p, "heartbeat") /\ peer_admitted(p)
    /\ lapsed
    /\ DisarmUnlessPoisoned
    /\ pc' = "housekeeping"
    /\ UNCHANGED <<consent, poisoned, lists, peers, controller, qso_cleanup_owed, burned,
                   seen, verified, engine, world>>

\* Accepted from any established peer, admitted or not.
DispatchDisarm(p) ==
    /\ From(p, "disarm")
    /\ DisarmUnlessPoisoned
    /\ pc' = "housekeeping"
    /\ UNCHANGED <<consent, poisoned, lists, peers, controller, qso_cleanup_owed, burned,
                   seen, verified, engine, world>>

\* Mutant: the deny-list is not consulted.
HelloVerifiesDenied(p, t) ==
    t # None /\ t \notin expired /\ t[1] = p /\ scope_at_least(t, "status")

HelloVerifies(p, t) ==
    /\ t # None /\ t \notin expired
    /\ t[1] = p
    /\ t \notin revoked_jtis
    /\ scope_at_least(t, "status")

\* A hello that is refused clears the peer's capability; if that takes one
\* from the controller, it is disarmed and loses control.
DispatchHello(p, t) ==
    /\ From(p, "hello") /\ peer_admitted(p)
    /\ IF HelloVerifies(p, t)
         THEN /\ auth' = [auth EXCEPT ![p] = t]
              /\ UNCHANGED <<gate, controller>>
         ELSE /\ auth' = [auth EXCEPT ![p] = None]
              /\ IF auth[p] # None /\ controller = p
                   THEN DisarmUnlessPoisoned /\ controller' = None
                   ELSE UNCHANGED <<gate, controller>>
    /\ pc' = "housekeeping"
    /\ UNCHANGED <<consent, poisoned, lists, allowed, session_id, qso_cleanup_owed, burned,
                   seen, verified, engine, world>>

\* setFrequency and setSplit: the grab stands even when the scope does not
\* allow the change; the rig itself is not modelled.
DispatchQsy(p) ==
    /\ From(p, "qsy")
    /\ Grab(p)
    /\ qso_cleanup_owed' = Owed(p)
    /\ pc' = "housekeeping"
    /\ UNCHANGED <<gate, consent, poisoned, lists, peers, burned, seen, verified, engine, world>>

\* Mutant: the intent is sent whether or not the cleanup went out.
IntentMayGoAnyway(owed) == TRUE

IntentMayGo(owed) == StillOwed(owed) = None

\* txRequest with this channel's consent: flush, then send the intent unless a
\* cleanup is still owed.
DispatchTxRequest(p) ==
    /\ From(p, "txRequest")
    /\ Grab(p)
    /\ IF consent /\ ~poisoned
         THEN /\ inbox' = FlushedInbox(Owed(p))
              /\ qso_cleanup_owed' = StillOwed(Owed(p))
              /\ pc' = IF IntentMayGo(Owed(p)) THEN "sending" ELSE "housekeeping"
         ELSE /\ qso_cleanup_owed' = Owed(p)
              /\ pc' = "housekeeping"
              /\ UNCHANGED inbox
    /\ UNCHANGED <<gate, consent, poisoned, lists, peers, burned, seen, verified, qsos, world>>

\* The intent carries the sender's key id, which is the controller's.
SendIntent ==
    /\ pc = "sending"
    /\ inbox' = IF HasRoom(inbox) THEN Append(inbox, Message("Intent", controller)) ELSE inbox
    /\ pc' = "housekeeping"
    /\ UNCHANGED <<gate, consent, poisoned, lists, peers, controller, qso_cleanup_owed,
                   burned, seen, verified, qsos, world>>

\* stopCq flushes an owed cleanup but never waits for it.
DispatchStopCq(p) ==
    /\ From(p, "stopCq")
    /\ peer_grants(p, "status")
    /\ Grab(p)
    /\ qso_cleanup_owed' = StillOwed(Owed(p))
    /\ LET q == FlushedInbox(Owed(p))
       IN  inbox' = IF HasRoom(q) THEN Append(q, Message("StopCq", None)) ELSE q
    /\ pc' = "housekeeping"
    /\ UNCHANGED <<gate, consent, poisoned, lists, peers, burned, seen, verified, qsos, world>>

\* Mutant: the displaced controller's arm is kept.
DisplacesNobody(p) == FALSE

Displaces(p) == controller \notin {None, p}

\* An arm never moves to another controller.
DispatchTakeControl(p) ==
    /\ From(p, "takeControl")
    /\ peer_grants(p, "qsy")
    /\ IF Displaces(p) THEN DisarmUnlessPoisoned ELSE UNCHANGED gate
    /\ qso_cleanup_owed' = Owed(p)
    /\ controller' = p
    /\ pc' = "housekeeping"
    /\ UNCHANGED <<consent, poisoned, lists, peers, burned, seen, verified, engine, world>>

DispatchReleaseControl(p) ==
    /\ From(p, "releaseControl")
    /\ controller = p
    /\ DisarmUnlessPoisoned
    /\ controller' = None
    /\ pc' = "housekeeping"
    /\ UNCHANGED <<consent, poisoned, lists, peers, qso_cleanup_owed, burned, seen, verified,
                   engine, world>>

-----------------------------------------------------------------------------
(* session_housekeeping *)

\* reconcile_authorizations reads the generation before anything else.
ReadGeneration ==
    /\ pc = "housekeeping"
    /\ current' = authz_generation
    /\ pc' = IF authz_generation = authz_generation_seen THEN "expire" ELSE "reconcile"
    /\ UNCHANGED <<gate, consent, poisoned, lists, peers, controller, qso_cleanup_owed,
                   burned, authz_generation_seen, verified, engine, world>>

\* The admission set is replaced and every peer it dropped is evicted, its
\* token deny-listed; an evicted controller or armer is disarmed.
Reconcile ==
    /\ pc = "reconcile"
    /\ LET evicted == Established \ tx_allow_list
       IN  /\ allowed' = tx_allow_list
           /\ session_id' = [p \in Client |-> IF p \in evicted THEN 0 ELSE session_id[p]]
           /\ auth' = [p \in Client |-> IF p \in evicted THEN None ELSE auth[p]]
           /\ revoked_jtis' = revoked_jtis \union ({auth[p] : p \in evicted} \ {None})
           /\ IF controller \in evicted \/ (arm # None /\ ArmedClient \in evicted)
                THEN EndArm ELSE UNCHANGED gate
           /\ controller' = IF controller \in evicted THEN None ELSE controller
    /\ authz_generation_seen' = current
    /\ pc' = "expire"
    /\ UNCHANGED <<consent, poisoned, lists, qso_cleanup_owed, seen_jtis, current, verified,
                   engine, world>>

HousekeepingExpire ==
    /\ pc = "expire"
    /\ ExpirePeerAuth
    /\ pc' = "top"
    /\ UNCHANGED <<consent, poisoned, lists, allowed, session_id, qso_cleanup_owed, burned,
                   seen, verified, engine, world>>

-----------------------------------------------------------------------------
(***************************************************************************)
(* The publishers. Each takes the arm lock once: it ends an arm its new    *)
(* list does not cover and publishes who may arm. Then it publishes who    *)
(* may connect, and last, if either list changed, the generation. The poll *)
(* replaces the lists; a config edit takes clients out of them.            *)
(***************************************************************************)
Unpublished == [step |-> "idle", clients |-> {}, changed |-> FALSE]

PublishArmList(w, clients, newArmList) ==
    /\ publisher[w].step = "idle"
    /\ authz_generation < MaxGeneration
    /\ IF arm # None /\ ArmedClient \notin newArmList THEN EndArm ELSE UNCHANGED gate
    /\ tx_arm_allow_list' = newArmList
    /\ publisher' = [publisher EXCEPT ![w] =
                       [step |-> "admission", clients |-> clients,
                        changed |-> newArmList # tx_arm_allow_list]]
    /\ UNCHANGED <<tx_allow_list, authz_generation, consent, poisoned, pc, peers, controller,
                   qso_cleanup_owed, burned, seen, verified, engine, world>>

\* A poll fetched the station's authorization edges; the delegated ones may
\* connect but not arm.
PollAuthorizations(connect, undelegated) ==
    /\ CqdxWillPoll
    /\ undelegated \subseteq connect
    /\ PublishArmList("poll", connect, undelegated)
    /\ UNCHANGED static_allow

\* A saved edit removed clients from the configured list.
RevokeStaticEntries(removed) ==
    /\ removed # {} /\ removed \subseteq static_allow
    /\ PublishArmList("config", removed, tx_arm_allow_list \ removed)
    /\ static_allow' = static_allow \ removed

\* Mutant: only a change of the arm list counts as a change.
ChangedByArmListOnly(w, list) == publisher[w].changed

Changed(w, list) == publisher[w].changed \/ list # tx_allow_list

PublishAdmission(w) ==
    /\ publisher[w].step = "admission"
    /\ tx_allow_list' = IF w = "poll" THEN publisher[w].clients
                                      ELSE tx_allow_list \ publisher[w].clients
    /\ publisher' = [publisher EXCEPT
                       ![w].step = "bump",
                       ![w].changed = Changed(w, tx_allow_list')]
    /\ UNCHANGED <<gate, tx_arm_allow_list, authz_generation, static_allow, consent, poisoned,
                   pc, peers, controller, qso_cleanup_owed, burned, seen, verified, engine, world>>

BumpGeneration(w) ==
    /\ publisher[w].step = "bump"
    /\ authz_generation' = IF publisher[w].changed THEN authz_generation + 1
                                                   ELSE authz_generation
    /\ publisher' = [publisher EXCEPT ![w] = Unpublished]
    /\ UNCHANGED <<gate, tx_allow_list, tx_arm_allow_list, static_allow, consent, poisoned, pc,
                   peers, controller, qso_cleanup_owed, burned, seen, verified, engine, world>>

\* A saved edit changes remote_tx_enabled. The arm itself is not touched.
SetConsent(on) ==
    /\ consent # on
    /\ consent' = on
    /\ UNCHANGED <<gate, poisoned, lists, pc, peers, controller, qso_cleanup_owed, burned, seen,
                   verified, engine, world>>

-----------------------------------------------------------------------------
(* The QSO engine takes the next message off its inbox. *)

AfterMessage(m) ==
    CASE m.kind = "Intent" -> {qsos \union {m.client}}
      [] m.kind = "RemoteControllerChanged" -> {qsos \intersect {m.client}}
      [] m.kind = "StopCq" -> SUBSET qsos          \* ends whoever was calling CQ

QsoEngine ==
    /\ inbox # <<>>
    /\ inbox' = Tail(inbox)
    /\ qsos' \in AfterMessage(Head(inbox))
    /\ UNCHANGED <<gate, consent, poisoned, lists, pc, peers, controller, qso_cleanup_owed,
                   burned, seen, verified, world>>

\* A client's last QSO finishes or fails.
QsosEnd(p) ==
    /\ p \in qsos
    /\ qsos' = qsos \ {p}
    /\ UNCHANGED <<gate, consent, poisoned, lists, pc, peers, controller, qso_cleanup_owed,
                   burned, seen, verified, inbox, world>>

-----------------------------------------------------------------------------
(* Time and clients. *)

\* The arm's TTL, elapsed cap or dead-man window runs out.
ArmLapses ==
    /\ arm # None /\ ~lapsed
    /\ lapsed' = TRUE
    /\ UNCHANGED <<arm, ended, consent, poisoned, lists, pc, peers, controller,
                   qso_cleanup_owed, burned, seen, verified, engine, world>>

TokenExpires(t) ==
    /\ t \notin expired /\ Cardinality(expired) < MaxExpired
    /\ expired' = expired \union {t}
    /\ lapsed' = (lapsed \/ (arm # None /\ grants[arm].token = t))
    /\ UNCHANGED <<arm, ended, consent, poisoned, lists, pc, peers, controller,
                   qso_cleanup_owed, burned, seen, verified, engine, grants, sessions, faults>>

\* A client signs an arm grant for the session it has with the station.
SignGrant(j, t) ==
    /\ "arm" \in Frames
    /\ grants[j] = None
    /\ session_id[t[1]] # 0
    /\ grants' = [grants EXCEPT ![j] =
                    [client |-> t[1], token |-> t, session_id |-> session_id[t[1]]]]
    /\ UNCHANGED <<gate, consent, poisoned, lists, pc, peers, controller, qso_cleanup_owed,
                   burned, seen, verified, engine, expired, sessions, faults>>

-----------------------------------------------------------------------------
(* Faults. *)

\* Some task panics while it holds the arm mutex.
PoisonArmLock ==
    /\ faults < MaxFaults /\ ~poisoned
    /\ faults' = faults + 1
    /\ poisoned' = TRUE
    /\ UNCHANGED <<gate, consent, lists, pc, peers, controller, qso_cleanup_owed, burned, seen,
                   verified, engine, grants, expired, sessions>>

\* The session task panics: RemoteTxDisarmGuard disarms as it unwinds, and the
\* task's context is gone.
Crash ==
    /\ pc # "dead" /\ faults < MaxFaults
    /\ faults' = faults + 1
    /\ EndArm
    /\ pc' = "dead"
    /\ session_id' = [p \in Client |-> 0]
    /\ auth' = [p \in Client |-> None]
    /\ allowed' = {}
    /\ controller' = None /\ qso_cleanup_owed' = None /\ verified' = None
    /\ seen_jtis' = {} /\ revoked_jtis' = {}
    /\ UNCHANGED <<consent, poisoned, lists, seen, engine, grants, expired, sessions>>

SeedArmList(static) == IF CqdxWillPoll THEN {} ELSE static

\* The supervisor aborts the poll, disarms, clears the poison and starts the
\* component again from the configuration.
Restart ==
    /\ pc = "dead" /\ publisher["config"].step = "idle"
    /\ EndArm
    /\ poisoned' = FALSE
    /\ tx_allow_list' = static_allow
    /\ tx_arm_allow_list' = SeedArmList(static_allow)
    /\ authz_generation' = 0 /\ authz_generation_seen' = 0
    /\ publisher' = [publisher EXCEPT !["poll"] = Unpublished]
    /\ pc' = "down"
    /\ UNCHANGED <<consent, static_allow, peers, controller, qso_cleanup_owed, burned, current,
                   verified, engine, world>>

-----------------------------------------------------------------------------
Init ==
    /\ arm = None /\ lapsed = FALSE /\ ended = {}
    /\ consent \in BOOLEAN /\ poisoned = FALSE
    /\ static_allow = StaticAllow
    /\ tx_allow_list = StaticAllow
    /\ tx_arm_allow_list = SeedArmList(StaticAllow)
    /\ authz_generation = 0 /\ authz_generation_seen = 0 /\ current = 0
    /\ publisher = [w \in Publisher |-> Unpublished]
    /\ pc = "down"
    /\ allowed = {}
    /\ session_id = [p \in Client |-> 0] /\ auth = [p \in Client |-> None]
    /\ controller = None /\ qso_cleanup_owed = None
    /\ seen_jtis = {} /\ revoked_jtis = {} /\ verified = None
    /\ inbox = <<>> /\ qsos = {}
    /\ grants = [j \in Jti |-> None]
    /\ expired = {} /\ sessions = 0 /\ faults = 0

Dispatch(p) ==
    \/ \E j \in Jti : DispatchArm(p, j)
    \/ DispatchHeartbeat(p) \/ DispatchDisarm(p)
    \/ \E t \in Token \union {None} : DispatchHello(p, t)
    \/ DispatchQsy(p) \/ DispatchTxRequest(p) \/ DispatchStopCq(p)
    \/ DispatchTakeControl(p) \/ DispatchReleaseControl(p)

SessionTask ==
    \/ Connect \/ StartSession \/ LoopTop
    \/ Idle \/ ReceiveFrame
    \/ \E p \in Client : PeerEstablished(p) \/ PeerDown(p) \/ Dispatch(p)
    \/ Refused \/ ArmUnderLock \/ SendIntent
    \/ ReadGeneration \/ Reconcile \/ HousekeepingExpire

Publish(w) == PublishAdmission(w) \/ BumpGeneration(w)

Next ==
    \/ SessionTask \/ SessionEnd
    \/ \E connect, undelegated \in SUBSET Client : PollAuthorizations(connect, undelegated)
    \/ \E removed \in SUBSET Client : RevokeStaticEntries(removed)
    \/ \E w \in Publisher : Publish(w)
    \/ \E on \in ConsentEdits : SetConsent(on)
    \/ QsoEngine \/ \E p \in Client : QsosEnd(p)
    \/ ArmLapses \/ \E t \in Token : TokenExpires(t)
    \/ \E j \in Jti, t \in Token : SignGrant(j, t)
    \/ PoisonArmLock \/ Crash \/ Restart

Spec == Init /\ [][Next]_vars

\* Tasks are scheduled: the session loop, a publisher that has started and the
\* QSO engine keep going. Clients, faults, polls and edits may or may not come.
FairSpec ==
    /\ Spec
    /\ WF_vars(SessionTask)
    /\ \A w \in Publisher : WF_vars(Publish(w))
    /\ WF_vars(QsoEngine)

-----------------------------------------------------------------------------
(* Properties. *)

GrantRecord == [client : Client, token : Token, session_id : Nat \ {0}]

\* The state is well typed and within the code's limits: at most MAX_PEERS
\* established peers and no more queued messages than the channel has slots.
TypeOK ==
    /\ arm \in Jti \union {None} /\ lapsed \in BOOLEAN /\ ended \subseteq Jti
    /\ consent \in BOOLEAN /\ poisoned \in BOOLEAN
    /\ static_allow \subseteq Client
    /\ tx_allow_list \subseteq Client /\ tx_arm_allow_list \subseteq Client
    /\ authz_generation \in Nat /\ authz_generation_seen \in Nat /\ current \in Nat
    /\ publisher \in [Publisher -> [step : {"idle", "admission", "bump"},
                                    clients : SUBSET Client, changed : BOOLEAN]]
    /\ pc \in {"dead", "down", "starting", "top", "received", "dispatch", "arming",
               "sending", "housekeeping", "reconcile", "expire"}
    /\ allowed \subseteq Client
    /\ session_id \in [Client -> Nat] /\ Cardinality(Established) <= MAX_PEERS
    /\ auth \in [Client -> Token \union {None}]
    /\ controller \in Client \union {None} /\ qso_cleanup_owed \in Client \union {None}
    /\ seen_jtis \subseteq Jti /\ revoked_jtis \subseteq Token
    /\ verified \in Jti \union {None}
    /\ inbox \in Seq([kind : {"Intent", "RemoteControllerChanged", "StopCq"},
                      client : Client \union {None}])
    /\ Len(inbox) <= InboxCapacity
    /\ qsos \subseteq Client
    /\ grants \in [Jti -> GrantRecord \union {None}] /\ expired \subseteq Token
    /\ sessions \in Nat /\ faults \in Nat

\* Whenever TX is permitted, the armed client is the one in control and the arm
\* belongs to the session that client has right now: no takeover, release, lost
\* peer, expiry, eviction, reconnect, crash or poisoned lock leaves an arm to
\* somebody else or to a later session (dispatch_action, disarm_on_loss).
ArmFollowsControl ==
    TxPermitted =>
        /\ controller = ArmedClient
        /\ session_id[ArmedClient] = grants[arm].session_id

\* A live arm's client is on the published arm list, whichever of
\* verify_and_arm, the poll and the config edit takes the arm lock first.
ArmedIsEligible == arm # None => is_tx_arm_eligible(ArmedClient)

\* A session that has seen the latest generation holds the latest admission
\* list, unless a publisher still owes the bump for a change it made
\* (run_one_session reads the generation before the list; the publishers bump
\* after publishing).
SeenGenerationIsCurrent ==
    (/\ SessionUp
     /\ authz_generation_seen = authz_generation
     /\ \A w \in Publisher : publisher[w].step = "bump" => ~publisher[w].changed)
    => allowed = tx_allow_list

\* A token deny-listed by an eviction neither authorizes a peer nor backs a live
\* arm for the rest of the task's life (reconcile_authorizations,
\* dispatch_hello, verify_arm_grant).
DenyListedIsDead ==
    /\ \A p \in Client : auth[p] \notin revoked_jtis
    /\ arm # None => grants[arm].token \notin revoked_jtis

\* QSOs of two remote operators are never live together: no intent of a new
\* controller reaches the QSO engine ahead of the cleanup of the previous one,
\* however full the inbox is (flush_qso_cleanup, PAN-137).
OneRemoteOperator == Cardinality(qsos) <= 1

\* Arms as the station agent keeps them are leases: a grant arms at most once,
\* even when the client repeats it to a task that has lost its memory of it.
Lease == INSTANCE ArmLease WITH live <- LiveJti
LeaseSpec == Lease!Spec

\* A connected peer that loses its admission is evicted, unless it is admitted
\* again first (authz_generation, reconcile_authorizations).
DelistedIsEvicted ==
    \A p \in Client :
        (session_id[p] # 0 /\ p \notin tx_allow_list)
            ~> (session_id[p] = 0 \/ p \in tx_allow_list)

\* An owed cleanup is delivered as long as the session stays up and the QSO
\* engine reads its inbox (run_one_session flushes on every tick).
OwedCleanupIsDelivered ==
    (qso_cleanup_owed # None) ~> (qso_cleanup_owed = None \/ ~SessionUp)

\* What the code says of the two lists: every client that may arm may connect.
\* Asked only while no publisher is between its steps.
ArmListWithinAdmission ==
    (\A w \in Publisher : publisher[w].step = "idle")
        => tx_arm_allow_list \subseteq tx_allow_list
=============================================================================
