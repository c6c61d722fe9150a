------------------------- MODULE SessionStoreProofs --------------------------
(***************************************************************************)
(* What the session table guarantees for every set of ids and every          *)
(* capacity, whatever its callers do.                                        *)
(***************************************************************************)
EXTENDS SessionStore, FiniteSetTheorems, TLAPS

(* The keys of any table are finitely many, so they can be counted. *)
LEMMA OccupiedFinite ==
    ASSUME NEW table
    PROVE  IsFiniteSet(Occupied(table)) /\ Cardinality(Occupied(table)) \in Nat
<1>1. Occupied(table) \subseteq SessionId  BY DEF Occupied
<1>2. IsFiniteSet(Occupied(table))  BY <1>1, SessionIdAssumption, FS_Subset
<1> QED  BY <1>2, FS_CardinalityType

(* A sweep yields a table, and one with no keys but those it found. *)
LEMMA SweptIsTable ==
    ASSUME StoreTypeOK
    PROVE  /\ Swept \in [SessionId -> NotarySession \cup {None}]
           /\ Occupied(Swept) \subseteq Occupied(sessions)
BY DEF StoreTypeOK, Swept, Occupied

(* A new session is a session. *)
LEMMA NewSessionTyped ==
    ASSUME NEW host \in Hostname, NEW t \in TemplateId
    PROVE  NewSession(host, t) \in NotarySession
BY DEF NewSession, NotarySession, SessionState

(* Each operation keeps the table a table: create ...                        *)
LEMMA CreateTyped ==
    ASSUME StoreTypeOK, NEW id \in SessionId,
           NEW host \in Hostname, NEW t \in TemplateId,
           CreateOk(id, host, t)
    PROVE  StoreTypeOK'
BY SweptIsTable, NewSessionTyped DEF StoreTypeOK, CreateOk

(* ... refusing ...                                                          *)
LEMMA RefuseTyped ==
    ASSUME StoreTypeOK, CreateRefused
    PROVE  StoreTypeOK'
BY SweptIsTable DEF StoreTypeOK, CreateRefused

(* ... update_state ...                                                      *)
LEMMA UpdateTyped ==
    ASSUME StoreTypeOK, NEW id \in SessionId, NEW st \in SessionState,
           UpdateState(id, st)
    PROVE  StoreTypeOK'
<1>1. CASE sessions[id] = None  BY <1>1 DEF StoreTypeOK, UpdateState
<1>2. CASE sessions[id] # None
  <2>1. sessions[id] \in NotarySession  BY <1>2 DEF StoreTypeOK
  <2>2. [sessions[id] EXCEPT !.state = st] \in NotarySession
    BY <2>1 DEF NotarySession
  <2> QED  BY <1>2, <2>2 DEF StoreTypeOK, UpdateState
<1> QED  BY <1>1, <1>2

(* ... store_response ...                                                    *)
LEMMA ResponseTyped ==
    ASSUME StoreTypeOK, NEW id \in SessionId, NEW b \in Body, NEW h \in Hostname,
           StoreResponse(id, b, CertHash(h))
    PROVE  StoreTypeOK'
<1>1. CASE sessions[id] = None  BY <1>1 DEF StoreTypeOK, StoreResponse
<1>2. CASE sessions[id] # None
  <2>1. sessions[id] \in NotarySession  BY <1>2 DEF StoreTypeOK
  <2>2. [sessions[id] EXCEPT !.response_body = b,
                             !.certificate_hash = CertHash(h)] \in NotarySession
    BY <2>1 DEF NotarySession
  <2> QED  BY <1>2, <2>2 DEF StoreTypeOK, StoreResponse
<1> QED  BY <1>1, <1>2

(* ... and store_proof.                                                      *)
LEMMA ProofTyped ==
    ASSUME StoreTypeOK, NEW id \in SessionId,
           NEW p \in SessionProof, NEW a \in Attestation,
           StoreProof(id, p, a)
    PROVE  StoreTypeOK'
<1>1. CASE sessions[id] = None  BY <1>1 DEF StoreTypeOK, StoreProof
<1>2. CASE sessions[id] # None
  <2>1. sessions[id] \in NotarySession  BY <1>2 DEF StoreTypeOK
  <2>2. [sessions[id] EXCEPT !.proof = p, !.attestation = a,
                             !.response_body = None,
                             !.state = "completed"] \in NotarySession
    BY <2>1 DEF NotarySession, SessionState
  <2> QED  BY <1>2, <2>2 DEF StoreTypeOK, StoreProof
<1> QED  BY <1>1, <1>2

------------------------------------------------------------------------------
(* What each operation does to the one session it names, and to the others *)

LEMMA UpdateEffect ==
    ASSUME StoreTypeOK, NEW id \in SessionId, sessions[id] # None,
           NEW st \in SessionState, UpdateState(id, st)
    PROVE  /\ StoreTypeOK'
           /\ sessions'[id] # None
           /\ sessions'[id] = [sessions[id] EXCEPT !.state = st]
           /\ sessions'[id].state = st
           /\ sessions'[id].template_id = sessions[id].template_id
           /\ sessions'[id].target_hostname = sessions[id].target_hostname
           /\ sessions'[id].response_body = sessions[id].response_body
           /\ sessions'[id].proof = sessions[id].proof
           /\ \A i \in SessionId : i # id => sessions'[i] = sessions[i]
<1>1. sessions[id] \in NotarySession  BY DEF StoreTypeOK
<1>2. sessions'[id] = [sessions[id] EXCEPT !.state = st]
  BY DEF StoreTypeOK, UpdateState
<1>3. [sessions[id] EXCEPT !.state = st] \in NotarySession
  BY <1>1 DEF NotarySession
<1>4. \A i \in SessionId : i # id => sessions'[i] = sessions[i]
  BY DEF StoreTypeOK, UpdateState
<1> QED
  BY <1>1, <1>2, <1>3, <1>4, UpdateTyped, NoneAssumption DEF NotarySession

LEMMA ResponseEffect ==
    ASSUME StoreTypeOK, NEW id \in SessionId, sessions[id] # None,
           NEW b \in Body, NEW h \in Hostname, StoreResponse(id, b, CertHash(h))
    PROVE  /\ StoreTypeOK'
           /\ sessions'[id] # None
           /\ sessions'[id].state = sessions[id].state
           /\ sessions'[id].template_id = sessions[id].template_id
           /\ sessions'[id].target_hostname = sessions[id].target_hostname
           /\ sessions'[id].response_body = b
           /\ sessions'[id].proof = sessions[id].proof
           /\ \A i \in SessionId : i # id => sessions'[i] = sessions[i]
<1> DEFINE new == [sessions[id] EXCEPT !.response_body = b,
                                       !.certificate_hash = CertHash(h)]
<1>1. sessions[id] \in NotarySession  BY DEF StoreTypeOK
<1>2. sessions'[id] = new  BY DEF StoreTypeOK, StoreResponse
<1>3. new \in NotarySession  BY <1>1 DEF NotarySession
<1>4. \A i \in SessionId : i # id => sessions'[i] = sessions[i]
  BY DEF StoreTypeOK, StoreResponse
<1> QED
  BY <1>1, <1>2, <1>3, <1>4, ResponseTyped, NoneAssumption DEF NotarySession

LEMMA ProofEffect ==
    ASSUME StoreTypeOK, NEW id \in SessionId, sessions[id] # None,
           NEW p \in SessionProof, NEW a \in Attestation, StoreProof(id, p, a)
    PROVE  /\ StoreTypeOK'
           /\ sessions'[id] # None
           /\ sessions'[id].state = "completed"
           /\ sessions'[id].template_id = sessions[id].template_id
           /\ sessions'[id].target_hostname = sessions[id].target_hostname
           /\ sessions'[id].response_body = None
           /\ sessions'[id].proof = p
           /\ sessions'[id].attestation = a
           /\ \A i \in SessionId : i # id => sessions'[i] = sessions[i]
<1> DEFINE new == [sessions[id] EXCEPT !.proof = p, !.attestation = a,
                                       !.response_body = None,
                                       !.state = "completed"]
<1>1. sessions[id] \in NotarySession  BY DEF StoreTypeOK
<1>2. sessions'[id] = new  BY DEF StoreTypeOK, StoreProof
<1>3. new \in NotarySession  BY <1>1 DEF NotarySession, SessionState
<1>4. \A i \in SessionId : i # id => sessions'[i] = sessions[i]
  BY DEF StoreTypeOK, StoreProof
<1> QED
  BY <1>1, <1>2, <1>3, <1>4, ProofTyped, NoneAssumption DEF NotarySession

(* A sweep leaves each session as it was or evicts a terminal one. *)
LEMMA SweptEntry ==
    ASSUME StoreTypeOK, NEW i \in SessionId
    PROVE  \/ Swept[i] = sessions[i]
           \/ /\ Swept[i] = None /\ sessions[i] # None
              /\ sessions[i].state \in Terminal
BY DEF StoreTypeOK, Swept, ActiveIds, Occupied

LEMMA CreateEffect ==
    ASSUME StoreTypeOK, NEW id \in SessionId,
           NEW host \in Hostname, NEW t \in TemplateId,
           CreateOk(id, host, t)
    PROVE  /\ StoreTypeOK'
           /\ sessions'[id] # None
           /\ sessions'[id] = NewSession(host, t)
           /\ \A i \in SessionId : i # id => sessions'[i] = Swept[i]
<1>1. NewSession(host, t) # None  BY NewSessionTyped, NoneAssumption
<1> QED  BY <1>1, SweptIsTable, CreateTyped DEF CreateOk

------------------------------------------------------------------------------
(* Type correctness *)

LEMMA StoreNextTyped ==
    ASSUME StoreTypeOK, [StoreNext]_sessions
    PROVE  StoreTypeOK'
<1>1. CASE CreateRefused  BY <1>1, RefuseTyped
<1>2. ASSUME NEW id \in SessionId, NEW host \in Hostname, NEW t \in TemplateId,
             CreateOk(id, host, t)
      PROVE  StoreTypeOK'
  BY <1>2, CreateTyped
<1>3. ASSUME NEW id \in SessionId, NEW st \in SessionState, UpdateState(id, st)
      PROVE  StoreTypeOK'
  BY <1>3, UpdateTyped
<1>4. ASSUME NEW id \in SessionId, NEW b \in Body, NEW h \in Hostname,
             StoreResponse(id, b, CertHash(h))
      PROVE  StoreTypeOK'
  BY <1>4, ResponseTyped
<1>5. ASSUME NEW id \in SessionId, NEW p \in SessionProof, NEW a \in Attestation,
             StoreProof(id, p, a)
      PROVE  StoreTypeOK'
  BY <1>5, ProofTyped
<1>6. CASE UNCHANGED sessions  BY <1>6 DEF StoreTypeOK
<1> QED  BY <1>1, <1>2, <1>3, <1>4, <1>5, <1>6 DEF StoreNext

(* The table is always a table of sessions, whatever the callers do. *)
THEOREM StoreTypeCorrect == StoreSpec => []StoreTypeOK
<1>1. StoreInit => StoreTypeOK  BY DEF StoreInit, StoreTypeOK
<1>2. StoreTypeOK /\ [StoreNext]_sessions => StoreTypeOK'  BY StoreNextTyped
<1> QED  BY <1>1, <1>2, PTL DEF StoreSpec

------------------------------------------------------------------------------
(* Capacity *)

(* A successful create adds one key to those the sweep left. *)
LEMMA CreateOccupies ==
    ASSUME StoreTypeOK, NEW id \in SessionId,
           NEW host \in Hostname, NEW t \in TemplateId,
           CreateOk(id, host, t)
    PROVE  Occupied(sessions') = Occupied(Swept) \cup {id}
<1>1. NewSession(host, t) # None  BY NewSessionTyped, NoneAssumption
<1> QED  BY <1>1, SweptIsTable DEF CreateOk, Occupied

(* The operations other than create neither add nor remove a key. *)
LEMMA OthersKeepKeys ==
    ASSUME StoreTypeOK, NEW id \in SessionId,
           \/ \E st \in SessionState : UpdateState(id, st)
           \/ \E b \in Body, h \in Hostname : StoreResponse(id, b, CertHash(h))
           \/ \E p \in SessionProof, a \in Attestation : StoreProof(id, p, a)
    PROVE  Occupied(sessions') = Occupied(sessions)
<1>1. StoreTypeOK'  BY UpdateTyped, ResponseTyped, ProofTyped
<1>2. \A i \in SessionId : i # id => sessions'[i] = sessions[i]
  BY DEF StoreTypeOK, UpdateState, StoreResponse, StoreProof
<1>3. sessions[id] = None => sessions' = sessions
  BY DEF UpdateState, StoreResponse, StoreProof
<1>4. ASSUME sessions[id] # None PROVE sessions'[id] # None
  <2> DEFINE s == sessions[id]
  <2>1. s \in NotarySession  BY <1>4 DEF StoreTypeOK
  <2>2. ASSUME NEW st \in SessionState, UpdateState(id, st)
        PROVE  sessions'[id] \in NotarySession
    <3>1. [s EXCEPT !.state = st] \in NotarySession
      BY <2>1 DEF NotarySession
    <3> QED  BY <1>4, <2>2, <3>1 DEF UpdateState, StoreTypeOK
  <2>3. ASSUME NEW b \in Body, NEW h \in Hostname,
               StoreResponse(id, b, CertHash(h))
        PROVE  sessions'[id] \in NotarySession
    <3>1. [s EXCEPT !.response_body = b, !.certificate_hash = CertHash(h)]
             \in NotarySession
      BY <2>1 DEF NotarySession
    <3> QED  BY <1>4, <2>3, <3>1 DEF StoreResponse, StoreTypeOK
  <2>4. ASSUME NEW p \in SessionProof, NEW a \in Attestation,
               StoreProof(id, p, a)
        PROVE  sessions'[id] \in NotarySession
    <3>1. [s EXCEPT !.proof = p, !.attestation = a, !.response_body = None,
                    !.state = "completed"] \in NotarySession
      BY <2>1 DEF NotarySession, SessionState
    <3> QED  BY <1>4, <2>4, <3>1 DEF StoreProof, StoreTypeOK
  <2> QED  BY <2>2, <2>3, <2>4, NoneAssumption
<1> QED  BY <1>2, <1>3, <1>4 DEF Occupied

LEMMA StoreNextCapacity ==
    ASSUME StoreTypeOK, CapacityRespected, [StoreNext]_sessions
    PROVE  CapacityRespected'
<1>1. CASE CreateRefused
  <2>1. Occupied(sessions') \subseteq Occupied(sessions)
    BY <1>1, SweptIsTable DEF CreateRefused
  <2>2. Cardinality(Occupied(sessions')) <= Cardinality(Occupied(sessions))
    BY <2>1, OccupiedFinite, FS_Subset
  <2> QED  BY <2>2, OccupiedFinite, MaxSessionsAssumption DEF CapacityRespected
<1>2. ASSUME NEW id \in SessionId, NEW host \in Hostname, NEW t \in TemplateId,
             CreateOk(id, host, t)
      PROVE  CapacityRespected'
  <2>1. Occupied(sessions') = Occupied(Swept) \cup {id}
    BY <1>2, CreateOccupies
  <2>2. Cardinality(Occupied(Swept)) < MaxSessions  BY <1>2 DEF CreateOk
  <2>3. IsFiniteSet(Occupied(Swept)) /\ Cardinality(Occupied(Swept)) \in Nat
    BY OccupiedFinite
  <2>4. Cardinality(Occupied(Swept) \cup {id}) <= Cardinality(Occupied(Swept)) + 1
    <3>1. Cardinality(Occupied(Swept) \cup {id})
            \in {Cardinality(Occupied(Swept)), Cardinality(Occupied(Swept)) + 1}
      BY <2>3, FS_AddElement
    <3> QED  BY <2>3, <3>1
  <2> QED
    BY <2>1, <2>2, <2>3, <2>4, OccupiedFinite, MaxSessionsAssumption
    DEF CapacityRespected
<1>3. ASSUME NEW id \in SessionId,
             \/ \E st \in SessionState : UpdateState(id, st)
             \/ \E b \in Body, h \in Hostname : StoreResponse(id, b, CertHash(h))
             \/ \E p \in SessionProof, a \in Attestation : StoreProof(id, p, a)
      PROVE  CapacityRespected'
  BY <1>3, OthersKeepKeys DEF CapacityRespected
<1>4. CASE UNCHANGED sessions  BY <1>4 DEF CapacityRespected, Occupied
<1> QED  BY <1>1, <1>2, <1>3, <1>4 DEF StoreNext

(* The capacity holds for every number of ids and every max_sessions: the      *)
(* invariant is inductive once the table is known to be one.                    *)
THEOREM CapacityIsRespected == StoreSpec => []CapacityRespected
<1>1. StoreInit => CapacityRespected
  <2>1. StoreInit => Occupied(sessions) = {}  BY DEF StoreInit, Occupied
  <2> QED  BY <2>1, FS_EmptySet, MaxSessionsAssumption DEF CapacityRespected
<1>2. StoreTypeOK /\ CapacityRespected /\ [StoreNext]_sessions
        => CapacityRespected'
  BY StoreNextCapacity
<1> QED  BY <1>1, <1>2, StoreTypeCorrect, PTL DEF StoreSpec

------------------------------------------------------------------------------
(* Eviction *)

LEMMA StoreNextEviction ==
    ASSUME StoreTypeOK, CapacityRespected, StoreNext,
           NEW gone \in SessionId, sessions[gone] # None, sessions'[gone] = None
    PROVE  /\ Cardinality(Occupied(sessions)) = MaxSessions
           /\ \E id \in SessionId : sessions[id] = None /\ sessions'[id] # None
           /\ \A id \in SessionId :
                 sessions[id] # None =>
                    (sessions'[id] = None <=> sessions[id].state \in Terminal)
<1>1. ~ \E id \in SessionId :
           \/ \E st \in SessionState : UpdateState(id, st)
           \/ \E b \in Body, h \in Hostname : StoreResponse(id, b, CertHash(h))
           \/ \E p \in SessionProof, a \in Attestation : StoreProof(id, p, a)
  BY OthersKeepKeys DEF Occupied
<1>2. ASSUME Swept[gone] = None
      PROVE  /\ Cardinality(Occupied(sessions)) = MaxSessions
             /\ Cardinality(Occupied(Swept)) < MaxSessions
             /\ Swept = [id \in SessionId |->
                            IF id \in ActiveIds THEN sessions[id] ELSE None]
  <2>1. Cardinality(Occupied(sessions)) >= MaxSessions
    BY <1>2 DEF Swept
  <2>2. Cardinality(Occupied(sessions)) = MaxSessions
    BY <2>1, OccupiedFinite, MaxSessionsAssumption DEF CapacityRespected
  <2>3. Occupied(Swept) \subseteq Occupied(sessions) \ {gone}
    BY <1>2, SweptIsTable DEF Occupied
  <2>4. gone \in Occupied(sessions)  BY DEF Occupied
  <2>5. Cardinality(Occupied(sessions) \ {gone}) = MaxSessions - 1
    BY <2>2, <2>4, OccupiedFinite, FS_RemoveElement
  <2>6. Cardinality(Occupied(Swept)) <= MaxSessions - 1
    BY <2>3, <2>5, OccupiedFinite, FS_RemoveElement, FS_Subset
  <2> QED
    BY <2>1, <2>2, <2>6, OccupiedFinite, MaxSessionsAssumption DEF Swept
<1>3. ~ CreateRefused
  BY <1>2, OccupiedFinite, MaxSessionsAssumption DEF CreateRefused
<1>4. PICK new \in SessionId, host \in Hostname, t \in TemplateId :
         CreateOk(new, host, t)
  BY <1>1, <1>3 DEF StoreNext
<1>5. NewSession(host, t) # None  BY NewSessionTyped, NoneAssumption
<1>6. /\ sessions[new] = None /\ sessions'[new] # None
      /\ \A id \in SessionId : id # new => sessions'[id] = Swept[id]
  BY <1>4, <1>5, SweptIsTable DEF CreateOk
<1>7. Swept[gone] = None  BY <1>6
<1>8. ASSUME NEW id \in SessionId, sessions[id] # None
      PROVE  sessions'[id] = None <=> sessions[id].state \in Terminal
  <2>1. sessions'[id] = Swept[id]  BY <1>6, <1>8
  <2> QED  BY <2>1, <1>2, <1>7, <1>8 DEF ActiveIds, Occupied
<1> QED  BY <1>2, <1>6, <1>7, <1>8

(* Sessions leave the table as EvictionDiscipline says, for every capacity. *)
THEOREM EvictionIsDisciplined == StoreSpec => EvictionDiscipline
<1> DEFINE Step ==
      (\E id \in SessionId : sessions[id] # None /\ sessions'[id] = None)
      => /\ Cardinality(Occupied(sessions)) = MaxSessions
         /\ \E id \in SessionId : sessions[id] = None /\ sessions'[id] # None
         /\ \A id \in SessionId :
               sessions[id] # None =>
                  (sessions'[id] = None <=> sessions[id].state \in Terminal)
<1>1. StoreTypeOK /\ CapacityRespected /\ StoreNext => Step
  BY StoreNextEviction
<1> HIDE DEF Step
<1>2. StoreSpec => [][Step]_sessions
  BY <1>1, StoreTypeCorrect, CapacityIsRespected, PTL DEF StoreSpec
<1> QED  BY <1>2 DEF EvictionDiscipline, Step

==============================================================================
