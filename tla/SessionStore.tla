---------------------------- MODULE SessionStore -----------------------------
(***************************************************************************)
(* The notary's session table, zktls-notary/src/session.rs: a HashMap from  *)
(* session id to session behind one RwLock, with a capacity.                *)
(*                                                                          *)
(* Every operation takes the lock once and holds it across no await, so     *)
(* each is one atomic action (StoreLock shows it).  The table is a total    *)
(* function; an id that is not a key maps to None.  StoreSpec lets any      *)
(* caller issue any operation at any moment, in any order: it is the table  *)
(* alone.  Notary drives the same operations in the order the request       *)
(* handler does.                                                            *)
(***************************************************************************)
EXTENDS CoreTypes, Naturals, FiniteSets

CONSTANT MaxSessions    \* capacity given to SessionStore::new

ASSUME SessionIdAssumption == IsFiniteSet(SessionId)

ASSUME MaxSessionsAssumption == MaxSessions \in Nat

VARIABLE sessions       \* [SessionId -> NotarySession or None]

------------------------------------------------------------------------------
(* State *)

SessionState == {"initialized", "fetching", "committing", "completed", "failed"}

Terminal == {"completed", "failed"}

NotarySession ==
    [target_hostname  : Hostname,
     template_id      : TemplateId,
     state            : SessionState,
     response_body    : Body \cup {None},
     certificate_hash : {CertHash(h) : h \in Hostname} \cup {None},
     proof            : SessionProof \cup {None},
     attestation      : Attestation \cup {None}]

ASSUME NoneAssumption == None \notin NotarySession

(* The keys of a table. *)
Occupied(table) == {id \in SessionId : table[id] # None}

(* The sessions active_count counts: neither completed nor failed. *)
ActiveIds == {id \in Occupied(sessions) : sessions[id].state \notin Terminal}

StoreTypeOK == sessions \in [SessionId -> NotarySession \cup {None}]

------------------------------------------------------------------------------
(* Operations *)

StoreInit == sessions = [id \in SessionId |-> None]

(* Variants of the operations below with a fault in them; each names the         *)
(* property that tells it from the real one.                                     *)

(* The sweep forgets failed sessions: EvictionDiscipline. *)
SweptCompletedOnly ==
    IF Cardinality(Occupied(sessions)) >= MaxSessions
    THEN [id \in SessionId |->
            IF sessions[id] # None /\ sessions[id].state = "completed" THEN None
            ELSE sessions[id]]
    ELSE sessions

(* The sweep drops sessions in progress too: Notary's InFlightStored. *)
SweptEverything ==
    IF Cardinality(Occupied(sessions)) >= MaxSessions
    THEN [id \in SessionId |-> None]
    ELSE sessions

(* The table as create leaves it before it looks for room: at capacity every  *)
(* completed or failed session is removed, below capacity nothing is.          *)
Swept ==
    IF Cardinality(Occupied(sessions)) >= MaxSessions
    THEN [id \in SessionId |-> IF id \in ActiveIds THEN sessions[id] ELSE None]
    ELSE sessions

(* Both are strings, and one takes the other's place: StoreTypeOK. *)
NewSessionSwapped(host, t) ==
    [target_hostname |-> t, template_id |-> host, state |-> "initialized",
     response_body |-> None, certificate_hash |-> None,
     proof |-> None, attestation |-> None]

NewSession(host, t) ==
    [target_hostname |-> host, template_id |-> t, state |-> "initialized",
     response_body |-> None, certificate_hash |-> None,
     proof |-> None, attestation |-> None]

(* create draws a fresh id and inserts ... *)
CreateOk(id, host, t) ==
    /\ sessions[id] = None
    /\ Cardinality(Occupied(Swept)) < MaxSessions
    /\ sessions' = [Swept EXCEPT ![id] = NewSession(host, t)]

(* The refusal before the sweep: Notary's ImplementsAdmissionControl. *)
CreateRefusedUnswept ==
    /\ Cardinality(Occupied(sessions)) >= MaxSessions
    /\ UNCHANGED sessions

(* ... or, when the sweep made no room, returns TooManySessions. *)
CreateRefused ==
    /\ Cardinality(Occupied(Swept)) >= MaxSessions
    /\ sessions' = Swept

(* The other operations find the session or return SessionNotFound. *)
UpdateState(id, st) ==
    sessions' = IF sessions[id] = None THEN sessions
                ELSE [sessions EXCEPT ![id].state = st]

StoreResponse(id, b, cert) ==
    sessions' = IF sessions[id] = None THEN sessions
                ELSE [sessions EXCEPT ![id].response_body = b,
                                      ![id].certificate_hash = cert]

(* The plaintext stays: Notary's ReplyFate. *)
StoreProofKeepsBody(id, p, a) ==
    sessions' = IF sessions[id] = None THEN sessions
                ELSE [sessions EXCEPT ![id].proof = p,
                                      ![id].attestation = a,
                                      ![id].state = "completed"]

StoreProof(id, p, a) ==
    sessions' = IF sessions[id] = None THEN sessions
                ELSE [sessions EXCEPT ![id].proof = p,
                                      ![id].attestation = a,
                                      ![id].response_body = None,
                                      ![id].state = "completed"]

StoreNext ==
    \/ CreateRefused
    \/ \E id \in SessionId :
          \/ \E host \in Hostname, t \in TemplateId : CreateOk(id, host, t)
          \/ \E st \in SessionState : UpdateState(id, st)
          \/ \E b \in Body, h \in Hostname : StoreResponse(id, b, CertHash(h))
          \/ \E p \in SessionProof, a \in Attestation : StoreProof(id, p, a)

StoreSpec == StoreInit /\ [][StoreNext]_sessions

------------------------------------------------------------------------------
(* Properties *)

(* The table never holds more than max_sessions sessions, whatever sequence   *)
(* of operations its callers make: create inserts only after the sweep has     *)
(* made room (session.rs, create).                                             *)
CapacityRespected == Cardinality(Occupied(sessions)) <= MaxSessions

(* A session leaves the table only when the table was full, to let a new one  *)
(* in, only if it had completed or failed, and then every other completed or   *)
(* failed session leaves with it: no caller loses a session in progress, none  *)
(* is dropped while there is room, and a refused create drops none (create,    *)
(* the eviction block).                                                        *)
EvictionDiscipline ==
    [][ (\E id \in SessionId : sessions[id] # None /\ sessions'[id] = None)
        => /\ Cardinality(Occupied(sessions)) = MaxSessions
           /\ \E id \in SessionId : sessions[id] = None /\ sessions'[id] # None
           /\ \A id \in SessionId :
                 sessions[id] # None =>
                    (sessions'[id] = None <=> sessions[id].state \in Terminal) ]_sessions

==============================================================================
