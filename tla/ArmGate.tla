------------------------------ MODULE ArmGate ------------------------------
(***************************************************************************)
(* The armed-TX gate of the station agent (pancetta-agent/src/arm.rs) and  *)
(* the verifier that mints its grants (pancetta-agent/src/capability.rs).  *)
(*                                                                         *)
(* A remote operator may key the transmitter only while an arm is live. An *)
(* arm is a signed, single-use grant; it ends at the earliest of three     *)
(* signed wall-clock deadlines, at an elapsed-time cap fixed when it was    *)
(* accepted, or when heartbeats stop. Three clocks matter: the wall clock   *)
(* (may step either way), the monotonic clock (stops while the host is     *)
(* suspended) and a suspend-aware clock.                                   *)
(*                                                                         *)
(* Grants and heartbeats reach the gate through a network that delays,     *)
(* duplicates, reorders and loses frames: any frame a client ever signed   *)
(* may arrive at any time, any number of times.                            *)
(***************************************************************************)
EXTENDS Integers

CONSTANTS
    Jti,                \* identifiers a client may give to its grants
    Client,             \* client key ids
    Channel,            \* remote paths to the transmitter (ConsentChannel)
    HEARTBEAT_TIMEOUT,  \* dead-man window (arm.rs HEARTBEAT_TIMEOUT_MS)
    MAX_ARM,            \* longest arm window (capability.rs MAX_ARM_MS)
    NoSession,          \* ArmState.session = None
    NoGrant,            \* no verified grant is waiting for the arm lock
    ArmedUntil,         \* armedUntil values clients sign into grants
    TokenExp,           \* expiries of the TX-enabled capability tokens issued
    WallTarget,         \* values the wall clock may be set to
    MaxTime,            \* bound: elapsed time of a run
    MaxSeq              \* bound: heartbeats a client signs for one arm

ASSUME HeartbeatTimeoutAssumption == HEARTBEAT_TIMEOUT \in Nat \ {0}
ASSUME MaxArmAssumption == MAX_ARM \in Nat \ {0}
ASSUME TimeAssumption ==
    ArmedUntil \subseteq Nat /\ TokenExp \subseteq Nat /\ WallTarget \subseteq Nat
ASSUME ChannelAssumption == "StationAgent" \in Channel
ASSUME BoundsAssumption == MaxTime \in Nat /\ MaxSeq \in Nat

DisarmReason == {"OperatorDisarm", "TtlExpired", "CapabilityExpired",
                 "TxEnablementExpired", "HeartbeatLost", "ComponentCrash",
                 "AuthorizationRevoked"}

VARIABLES
    session,      \* the live ArmedSession, or NoSession
    consent,      \* per-channel station-local consent
    local_kill,   \* station-local kill switch
    wall,         \* ArmTime.unix_ms
    mono,         \* ArmTime.monotonic
    susp,         \* ArmTime.suspend_aware_ms
    seen_jtis,    \* jtis the verifier has burned
    verified,     \* the VerifiedArmGrant on its way to the arm lock
    sent,         \* heartbeats each arm's client has signed (seq 0, 1, ...)
    granted,      \* history: authority left when each jti was verified
    ended         \* history: jtis whose arm has ended

vars == <<session, consent, local_kill, wall, mono, susp, seen_jtis,
          verified, sent, granted, ended>>

clocks == <<wall, mono, susp>>

(***************************************************************************)
(* The earliest signed deadline and its cause; ties prefer the capability, *)
(* then the enablement, then the arm window.                               *)
(***************************************************************************)
AuthorityDeadline(arm, capability, enablement) ==
    IF capability <= enablement /\ capability <= arm
      THEN [at |-> capability, reason |-> "CapabilityExpired"]
      ELSE IF enablement <= arm
             THEN [at |-> enablement, reason |-> "TxEnablementExpired"]
             ELSE [at |-> arm, reason |-> "TtlExpired"]

DeadlineOf(g) ==
    AuthorityDeadline(g.armed_until, g.capability_exp, g.tx_enabled_until)

Least(a, b) == IF a <= b THEN a ELSE b
Greatest(a, b) == IF a >= b THEN a ELSE b

(***************************************************************************)
(* A reading earlier than the stored one cannot be measured and counts as  *)
(* expired (fail closed).                                                  *)
(***************************************************************************)
ElapsedReaches(now, since, limit) == now < since \/ now - since >= limit

LifetimeOver(s) ==
    \/ ElapsedReaches(mono, s.armed_at, s.lifetime)
    \/ ElapsedReaches(susp, s.armed_at_suspend_aware, s.lifetime)

SilenceOver(s) ==
    \/ ElapsedReaches(mono, s.last_heartbeat, HEARTBEAT_TIMEOUT)
    \/ ElapsedReaches(susp, s.last_heartbeat_suspend_aware, HEARTBEAT_TIMEOUT)

\* Mutant: expiry by the wall clock alone.
ExpiredReasonWallOnly(s) ==
    IF wall >= DeadlineOf(s).at THEN DeadlineOf(s).reason ELSE "None"

(***************************************************************************)
(* ArmedSession::expired_reason: the signed deadline on the wall clock     *)
(* first, then its elapsed backstop, then the dead-man window.             *)
(***************************************************************************)
ExpiredReason(s) ==
    IF wall >= DeadlineOf(s).at THEN DeadlineOf(s).reason
    ELSE IF LifetimeOver(s) THEN s.lifetime_reason
    ELSE IF SilenceOver(s) THEN "HeartbeatLost"
    ELSE "None"

Expired(s) == ExpiredReason(s) # "None"

Armed == session # NoSession

\* ArmState::tx_permitted: the pure read the TX worker makes before keying.
TxPermitted(channel) ==
    /\ Armed
    /\ ~Expired(session)
    /\ consent[channel]
    /\ ~local_kill

\* remote_tx_permitted_for: a frame bound to a client needs that client's arm.
TxPermittedFor(c) == TxPermitted("StationAgent") /\ session.client_key_id = c

-----------------------------------------------------------------------------
(* Clocks. *)

Elapse ==
    /\ susp < MaxTime
    /\ wall' = wall + 1 /\ mono' = mono + 1 /\ susp' = susp + 1
    /\ UNCHANGED <<session, consent, local_kill, seen_jtis, verified, sent, granted, ended>>

\* The host sleeps: Instant stops, the suspend-aware clock and the wall do not.
Suspend ==
    /\ susp < MaxTime
    /\ wall' = wall + 1 /\ susp' = susp + 1
    /\ UNCHANGED <<mono, session, consent, local_kill, seen_jtis, verified, sent, granted, ended>>

\* NTP or an operator sets the wall clock, forwards or backwards.
WallStep(w) ==
    /\ w # wall
    /\ wall' = w
    /\ UNCHANGED <<mono, susp, session, consent, local_kill, seen_jtis, verified, sent, granted, ended>>

-----------------------------------------------------------------------------
(***************************************************************************)
(* The TX-enabled capability tokens verify_capability_token accepts: an    *)
(* enabled token's exp must equal its txEnabledUntil.                      *)
(***************************************************************************)
EnabledToken == {[exp |-> e, tx_enabled_until |-> e] : e \in TokenExp}

Grant(j, c, until, token) ==
    [jti |-> j, client_key_id |-> c, armed_until |-> until,
     capability_exp |-> token.exp, tx_enabled_until |-> token.tx_enabled_until,
     ttl |-> until - wall,
     effective_ttl |->
        AuthorityDeadline(until, token.exp, token.tx_enabled_until).at - wall,
     sampled |-> wall]

\* Mutant: a replayed grant is verified again.
JtiReusable(j) == j \in Jti

\* seen_jtis.insert fails on a jti that was already burned.
JtiIsFresh(j) == j \notin seen_jtis

(***************************************************************************)
(* CapabilityVerifier::verify_arm_grant. The signature, audience and       *)
(* binding checks are facts about the frame; a frame that fails one        *)
(* changes nothing. The jti is burned after every window check has passed  *)
(* and before the callsign is matched with the token's: a grant that is    *)
(* not attributed to the token's operator burns its jti and mints nothing. *)
(***************************************************************************)
VerifyArmGrant(j, c, until, token, attributed) ==
    /\ verified = NoGrant
    /\ token.tx_enabled_until > wall                   \* require_tx_enabled
    /\ until > wall /\ until - wall <= MAX_ARM
    /\ Grant(j, c, until, token).effective_ttl > 0
    /\ JtiIsFresh(j)
    /\ seen_jtis' = seen_jtis \union {j}
    /\ IF attributed
         THEN /\ verified' = Grant(j, c, until, token)
              /\ granted' = [granted EXCEPT ![j] = verified'.effective_ttl]
         ELSE UNCHANGED <<verified, granted>>
    /\ UNCHANGED <<session, consent, local_kill, clocks, sent, ended>>

\* fresh_arm_time: a sample taken under the arm lock, never before the
\* sample the frame was verified with.
FreshWall(floor) == Greatest(wall, floor)

\* Mutant: the remaining authority is recomputed from the wall clock alone.
AuthorityLifetimeUncapped(g) == DeadlineOf(g).at - wall

AuthorityLifetime(g) ==
    Least(g.effective_ttl, DeadlineOf(g).at - FreshWall(g.sampled))

Lifetime(g) == Least(g.ttl, AuthorityLifetime(g))

NewSession(g) ==
    [jti |-> g.jti, client_key_id |-> g.client_key_id,
     armed_at |-> mono, armed_at_suspend_aware |-> susp,
     lifetime |-> Lifetime(g),
     lifetime_reason |-> IF g.ttl < AuthorityLifetime(g)
                           THEN "TtlExpired" ELSE DeadlineOf(g).reason,
     armed_until |-> g.armed_until, capability_exp |-> g.capability_exp,
     tx_enabled_until |-> g.tx_enabled_until,
     last_heartbeat |-> mono, last_heartbeat_suspend_aware |-> susp,
     last_heartbeat_seq |-> -1]                        \* None

\* The jti of the live arm, as a set of at most one element.
LiveJti == IF Armed THEN {session.jti} ELSE {}

\* Mutant: a grant whose authority is spent is accepted.
ArmAcceptedSpent(g) == consent["StationAgent"]

ArmAccepted(g) == consent["StationAgent"] /\ Lifetime(g) > 0

\* ArmState::arm. A refusal leaves any live arm untouched; an acceptance
\* replaces it.
Arm ==
    /\ verified # NoGrant
    /\ susp + MAX_ARM <= MaxTime                       \* bound: it can run out
    /\ verified' = NoGrant
    /\ IF ArmAccepted(verified)
         THEN /\ session' = NewSession(verified)
              /\ ended' = ended \union LiveJti
         ELSE UNCHANGED <<session, ended>>
    /\ UNCHANGED <<consent, local_kill, clocks, seen_jtis, sent, granted>>

-----------------------------------------------------------------------------
\* The client whose arm is live signs its next heartbeat.
ClientHeartbeat(j) ==
    /\ j \in seen_jtis /\ sent[j] < MaxSeq
    /\ sent' = [sent EXCEPT ![j] = @ + 1]
    /\ UNCHANGED <<session, consent, local_kill, clocks, seen_jtis, verified, granted, ended>>

EndSession ==
    /\ session' = NoSession
    /\ ended' = ended \union LiveJti

\* ArmState::tick
Tick ==
    /\ Armed /\ Expired(session)
    /\ EndSession
    /\ UNCHANGED <<consent, local_kill, clocks, seen_jtis, verified, sent, granted>>

\* Mutant: the sequence check lets the last number through again.
HeartbeatAcceptedAgain(j, seq) ==
    j = session.jti /\ seq >= session.last_heartbeat_seq

HeartbeatAccepted(j, seq) ==
    j = session.jti /\ seq > session.last_heartbeat_seq

SlideWindow(s, seq) ==
    [s EXCEPT !.last_heartbeat_seq = seq, !.last_heartbeat = mono,
              !.last_heartbeat_suspend_aware = susp]

\* Mutant: heartbeat checks the lifetime but not the dead-man window.
HeartbeatTooLateByLifetime == LifetimeOver(session)

\* The tick that heartbeat runs before it looks at the frame.
HeartbeatTooLate == Expired(session)

\* ArmState::heartbeat: expiry first, then the jti and sequence checks.
Heartbeat(j, seq) ==
    /\ seq < sent[j]                                   \* some client signed it
    /\ Armed
    /\ \/ /\ HeartbeatTooLate
          /\ EndSession
       \/ /\ ~HeartbeatTooLate /\ HeartbeatAccepted(j, seq)
          /\ session' = SlideWindow(session, seq)
          /\ UNCHANGED ended
    /\ UNCHANGED <<consent, local_kill, clocks, seen_jtis, verified, sent, granted>>

\* ArmState::disarm / disarm_with_reason, from an operator or a fail-safe.
Disarm ==
    /\ Armed
    /\ EndSession
    /\ UNCHANGED <<consent, local_kill, clocks, seen_jtis, verified, sent, granted>>

SetChannelConsent(ch, on) ==
    /\ consent[ch] # on
    /\ consent' = [consent EXCEPT ![ch] = on]
    /\ UNCHANGED <<session, local_kill, clocks, seen_jtis, verified, sent, granted, ended>>

SetLocalKill(on) ==
    /\ local_kill # on
    /\ local_kill' = on
    /\ UNCHANGED <<session, consent, clocks, seen_jtis, verified, sent, granted, ended>>

-----------------------------------------------------------------------------
\* ArmState::new: not armed, every consent off, not killed.
Init ==
    /\ session = NoSession
    /\ consent = [ch \in Channel |-> FALSE]
    /\ local_kill = FALSE
    /\ wall = 0 /\ mono = 0 /\ susp = 0
    /\ seen_jtis = {} /\ verified = NoGrant
    /\ sent = [j \in Jti |-> 0] /\ granted = [j \in Jti |-> 0]
    /\ ended = {}

Next ==
    \/ Elapse \/ Suspend
    \/ \E w \in WallTarget : WallStep(w)
    \/ \E j \in Jti, c \in Client, until \in ArmedUntil,
          token \in EnabledToken, attributed \in BOOLEAN :
          VerifyArmGrant(j, c, until, token, attributed)
    \/ Arm
    \/ \E j \in Jti : ClientHeartbeat(j)
    \/ Tick
    \/ \E j \in Jti, seq \in 0..MaxSeq : Heartbeat(j, seq)
    \/ Disarm
    \/ \E ch \in Channel, on \in BOOLEAN : SetChannelConsent(ch, on)
    \/ \E on \in BOOLEAN : SetLocalKill(on)

Spec == Init /\ [][Next]_vars

\* The session loop sweeps on every iteration and time does not stop.
FairSpec == Spec /\ WF_vars(Tick) /\ WF_vars(Elapse)

-----------------------------------------------------------------------------
(* Properties. *)

GrantRecord ==
    [jti : Jti, client_key_id : Client, armed_until : Nat,
     capability_exp : Nat, tx_enabled_until : Nat,
     ttl : Nat \ {0}, effective_ttl : Nat \ {0}, sampled : Nat]

SessionRecord ==
    [jti : Jti, client_key_id : Client, armed_at : Nat,
     armed_at_suspend_aware : Nat, lifetime : Nat \ {0},
     lifetime_reason : DisarmReason, armed_until : Nat,
     capability_exp : Nat, tx_enabled_until : Nat, last_heartbeat : Nat,
     last_heartbeat_suspend_aware : Nat, last_heartbeat_seq : Int]

ASSUME NoneAssumption == NoSession \notin SessionRecord /\ NoGrant \notin GrantRecord

\* The state is well typed; a live arm always has a positive lifetime (ArmState
\* refuses a grant whose authority is already spent).
TypeOK ==
    /\ session \in SessionRecord \union {NoSession}
    /\ consent \in [Channel -> BOOLEAN]
    /\ local_kill \in BOOLEAN
    /\ wall \in Nat /\ mono \in Nat /\ susp \in Nat
    /\ seen_jtis \subseteq Jti
    /\ verified \in GrantRecord \union {NoGrant}
    /\ sent \in [Jti -> Nat]
    /\ granted \in [Jti -> Nat]
    /\ ended \subseteq Jti

\* Whatever the wall clock does between verification, acceptance and now, and
\* however long the host sleeps, TX is never permitted past the authority that
\* was left when the grant was verified, nor at a wall time at or past any of
\* the three signed deadlines (arm, expired_reason, tx_permitted).
AuthorityBound ==
    \A ch \in Channel : TxPermitted(ch) =>
        /\ susp - session.armed_at_suspend_aware < granted[session.jti]
        /\ wall < session.armed_until
        /\ wall < session.capability_exp
        /\ wall < session.tx_enabled_until

\* Dead-man: however heartbeats are delayed, duplicated, reordered or replayed,
\* each one a client signs buys at most one window. TX under an arm outlives its
\* acceptance by less than one window per heartbeat signed for it, plus one
\* (heartbeat's jti and sequence checks, and its expiry-first order).
DeadmanBound ==
    \A ch \in Channel : TxPermitted(ch) =>
        susp - session.armed_at_suspend_aware
            < (sent[session.jti] + 1) * HEARTBEAT_TIMEOUT

\* The inductive strengthening of the invariants above. A live arm's
\* stored readings never lie ahead of the clocks, its lifetime is within the
\* authority its grant was verified with, and its window has slid by at most one
\* dead-man timeout per heartbeat sequence number it has consumed. A grant on its
\* way to the arm lock names a burned jti that is neither live nor ended.
SessionInv ==
    Armed =>
      /\ session.jti \in seen_jtis \ ended
      /\ session.armed_at <= mono
      /\ session.last_heartbeat <= mono
      /\ session.armed_at_suspend_aware <= session.last_heartbeat_suspend_aware
      /\ session.last_heartbeat_suspend_aware <= susp
      /\ session.lifetime <= granted[session.jti]
      /\ -1 <= session.last_heartbeat_seq
      /\ session.last_heartbeat_seq < sent[session.jti]
      /\ session.last_heartbeat_suspend_aware - session.armed_at_suspend_aware
            <= (session.last_heartbeat_seq + 1) * HEARTBEAT_TIMEOUT

VerifiedInv ==
    verified # NoGrant =>
      /\ verified.jti \in seen_jtis \ ended
      /\ Armed => session.jti # verified.jti
      /\ granted[verified.jti] = verified.effective_ttl

IndInv == TypeOK /\ SessionInv /\ VerifiedInv /\ ended \subseteq seen_jtis

\* Once an elapsed limit has been reached, no frame, consent or kill-switch
\* change and no clock step makes the same arm permit TX again, even before a
\* sweep has noticed (heartbeat runs the expiry check before anything else).
ElapsedExpiryIsFinal ==
    [][ (Armed /\ Armed' /\ session'.jti = session.jti
           /\ (LifetimeOver(session) \/ SilenceOver(session)))
         => (LifetimeOver(session) \/ SilenceOver(session))' ]_vars

\* The gate keeps arms the way ArmLease promises: whatever is replayed, a grant
\* becomes an arm at most once and an arm that is over stays over (the
\* verifier's single-use jti; a heartbeat never creates an arm).
Lease == INSTANCE ArmLease WITH live <- LiveJti
LeaseSpec == Lease!Spec

\* With sweeps and time going on, every arm ends (sweep_arm_expiry runs on each
\* session-loop iteration; the lifetime cap needs no frame to arrive).
ArmEventuallyEnds ==
    \A j \in Jti : (j \in LiveJti) ~> (j \notin LiveJti)
=============================================================================
