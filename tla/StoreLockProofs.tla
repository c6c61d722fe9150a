--------------------------- MODULE StoreLockProofs ----------------------------
(***************************************************************************)
(* That an operation on the session table is one step for all the others, for  *)
(* any number of callers, sessions and ids.  That every call returns is a        *)
(* liveness property and left to TLC.                                             *)
(***************************************************************************)
EXTENDS StoreLock, SessionStoreProofs

Held == {"locked", "swept", "room"}

LTypes ==
    /\ pc \in [Caller -> {"idle", "waiting"} \cup Held]
    /\ mode \in [Caller -> Mode]

(* Who works on the table holds a guard, and who holds one to write is alone. *)
Guarded ==
    /\ holders = {k \in Caller : pc[k] \in Held}
    /\ \A h \in holders, k \in holders : h # k => mode[h] = "read" /\ mode[k] = "read"
    /\ \A k \in Caller : pc[k] \in {"swept", "room"} => mode[k] = "create"

(* Only a create under way makes the table differ from what is known of it, and  *)
(* what it has made of it is the sweep of that.                                    *)
Halfway ==
    /\ (\A k \in Caller : pc[k] \notin {"swept", "room"}) => known = sessions
    /\ \A k \in Caller : pc[k] \in {"swept", "room"} => sessions = Table!Swept
    /\ \A k \in Caller : pc[k] = "room" => ~Full

LInv == LTypes /\ Guarded /\ Halfway

(* The instance of SessionStore counts as this module does. *)
LEMMA SameCount == \A S : Table!Cardinality(S) = Cardinality(S)
BY DEF Cardinality, Table!Cardinality

LEMMA LockInitEstablishes == LockInit => LInv
BY DEF LockInit, LInv, LTypes, Guarded, Halfway, Mode, Held

(* A writer is the only holder, and nobody else is halfway through a create. *)
LEMMA WriterAlone ==
    ASSUME LInv, NEW k \in Caller, pc[k] \in Held, mode[k] # "read"
    PROVE  /\ holders = {k}
           /\ \A q \in Caller : q # k => pc[q] \notin Held
BY DEF LInv, Guarded

(* Who has just got its guard finds the table as it is known. *)
LEMMA LockedFindsKnown ==
    ASSUME LInv, NEW k \in Caller, pc[k] = "locked"
    PROVE  known = sessions
<1>1. ASSUME NEW q \in Caller, pc[q] \in {"swept", "room"} PROVE FALSE
  <2>1. mode[q] = "create" /\ q \in holders /\ k \in holders /\ q # k
    BY <1>1 DEF LInv, Guarded, Held
  <2> QED  BY <2>1 DEF LInv, Guarded
<1> QED  BY <1>1 DEF LInv, Halfway

------------------------------------------------------------------------------
(* Steps *)

(* Waiting for a guard and getting it. *)
LEMMA LockStepKeeps ==
    ASSUME LInv, NEW k \in Caller,
           (\E m \in Mode : Call(k, m)) \/ GiveUp(k) \/ Acquire(k)
    PROVE  LInv' /\ UNCHANGED known
<1> USE DEF LInv, LTypes, Guarded, Held
<1>1. /\ pc[k] \in {"idle", "waiting"}
      /\ sessions' = sessions /\ known' = known
      /\ \A q \in Caller : q # k => pc'[q] = pc[q] /\ mode'[q] = mode[q]
      /\ pc'[k] \in {"idle", "waiting", "locked"}
  BY DEF Call, GiveUp, Acquire, Goto
<1>2. LTypes'  BY DEF Call, GiveUp, Acquire, Goto
<1>3. ASSUME Acquire(k) PROVE Guarded'
  <2>1. pc'[k] = "locked" /\ holders' = holders \cup {k} /\ mode' = mode
    BY <1>3 DEF Acquire, Goto
  <2>2. \A h \in holders : mode[h] = "read" /\ mode[k] = "read"
    BY <1>3 DEF Acquire
  <2> QED  BY <1>1, <2>1, <2>2
<1>4. ASSUME ~Acquire(k) PROVE Guarded'
  <2>1. pc'[k] \in {"idle", "waiting"} /\ holders' = holders
    BY <1>4 DEF Call, GiveUp, Goto
  <2> QED  BY <1>1, <2>1
<1>5. Guarded'  BY <1>3, <1>4
<1>6. Halfway'
  <2>1. \A q \in Caller : pc'[q] \in {"swept", "room"} => pc'[q] = pc[q]
    BY <1>1
  <2>2. \A q \in Caller : pc[q] \in {"swept", "room"} => pc'[q] = pc[q]
    BY <1>1
  <2>3. Table!Swept' = Table!Swept
    BY <1>1 DEF Table!Swept, Table!Occupied, Table!ActiveIds
  <2>4. Full' = Full  BY <1>1 DEF Full, Occupied
  <2> QED  BY <1>1, <2>1, <2>2, <2>3, <2>4 DEF Halfway
<1> QED  BY <1>1, <1>2, <1>5, <1>6

(* The steps of create that its guard hides. *)
LEMMA HiddenStepKeeps ==
    ASSUME LInv, NEW k \in Caller, FindRoom(k) \/ Sweep(k) \/ RoomMade(k)
    PROVE  LInv' /\ UNCHANGED known
<1>1. /\ pc[k] \in Held /\ mode[k] = "create" /\ k \in holders
      /\ known' = known /\ mode' = mode /\ holders' = holders
      /\ \A q \in Caller : q # k => pc'[q] = pc[q]
      /\ pc'[k] \in {"swept", "room"} /\ LTypes'
  BY DEF LInv, LTypes, Guarded, FindRoom, Sweep, RoomMade, Goto, Held
<1>2. \A q \in Caller : q # k => pc'[q] \notin Held
  BY <1>1, WriterAlone
<1>3. Guarded'  BY <1>1, <1>2 DEF LInv, Guarded, Held
<1>4. Table!Swept' = Table!Swept
  BY <1>1 DEF Table!Swept, Table!Occupied, Table!ActiveIds
<1>5. sessions' = Table!Swept' /\ (pc'[k] = "room" => ~Full')
  <2>1. CASE FindRoom(k)
    <3>1. known = sessions /\ ~Full /\ sessions' = sessions
      BY <2>1, LockedFindsKnown DEF FindRoom
    <3>2. Table!Swept = sessions
      BY <3>1, SameCount DEF Table!Swept, Table!Occupied, Full, Occupied
    <3> QED  BY <1>4, <3>1, <3>2 DEF Full, Occupied
  <2>2. CASE Sweep(k)
    <3>1. /\ known = sessions /\ Full /\ pc'[k] = "swept"
          /\ sessions' = [id \in SessionId |->
                            IF id \in ActiveIds THEN sessions[id] ELSE None]
      BY <2>2, LockedFindsKnown DEF Sweep, Goto, LInv, LTypes
    <3>2. Table!Swept = [id \in SessionId |->
                            IF id \in ActiveIds THEN sessions[id] ELSE None]
      BY <3>1, SameCount
      DEF Table!Swept, Table!Occupied, Table!ActiveIds, Table!Terminal, Full, Occupied,
          ActiveIds, Terminal
    <3> QED  BY <1>4, <3>1, <3>2
  <2>3. CASE RoomMade(k)
    <3>1. sessions = Table!Swept /\ ~Full /\ sessions' = sessions
      BY <2>3 DEF RoomMade, LInv, Halfway
    <3> QED  BY <1>4, <3>1 DEF Full, Occupied
  <2> QED  BY <2>1, <2>2, <2>3
<1>6. Halfway'  BY <1>1, <1>2, <1>5 DEF Halfway, Held
<1> QED  BY <1>1, <1>3, <1>6 DEF LInv

(* The step that ends an operation makes the table known. *)
LEMMA ReturnKeeps ==
    ASSUME LInv, NEW k \in Caller, pc[k] \in Held, Return(k),
           mode[k] = "read" => sessions' = sessions
    PROVE  LInv'
<1>1. /\ mode' = mode /\ holders' = holders \ {k} /\ known' = sessions'
      /\ pc'[k] = "idle"
      /\ \A q \in Caller : q # k => pc'[q] = pc[q]
      /\ LTypes'
  BY DEF LInv, LTypes, Return, Goto
<1>2. Guarded'  BY <1>1 DEF LInv, LTypes, Guarded, Held
<1>3. \A q \in Caller : pc'[q] \notin {"swept", "room"}
  <2>1. ASSUME NEW q \in Caller, pc'[q] \in {"swept", "room"} PROVE FALSE
    <3>1. q # k /\ pc[q] \in {"swept", "room"}  BY <1>1, <2>1
    <3>2. q \in holders /\ k \in holders /\ mode[q] = "create"
      BY <3>1 DEF LInv, Guarded, Held
    <3> QED  BY <3>1, <3>2 DEF LInv, Guarded
  <2> QED  BY <2>1
<1>4. Halfway'  BY <1>1, <1>3 DEF Halfway
<1> QED  BY <1>1, <1>2, <1>4 DEF LInv

(* Every operation that ends is one of the table. *)
LEMMA ReturnImplements ==
    ASSUME LInv, NEW k \in Caller,
           \/ Refuse(k) \/ Assign(k) \/ Read(k)
           \/ \E id \in SessionId, host \in Hostname, t \in TemplateId :
                 Insert(k, id, host, t)
    PROVE  LInv' /\ [Table!StoreNext]_known
<1>1. CASE Refuse(k)
  <2>1. /\ pc[k] = "swept" /\ Full /\ known' = sessions /\ Return(k)
        /\ sessions' = sessions
    BY <1>1 DEF Refuse, Return
  <2>2. sessions = Table!Swept  BY <2>1 DEF LInv, Halfway
  <2>3. Table!CreateRefused
    BY <2>1, <2>2, SameCount DEF Table!CreateRefused, Table!Occupied, Full, Occupied
  <2>4. LInv'  BY <2>1, ReturnKeeps DEF Held
  <2> QED  BY <2>3, <2>4 DEF Table!StoreNext
<1>2. ASSUME NEW id \in SessionId, NEW host \in Hostname, NEW t \in TemplateId,
             Insert(k, id, host, t)
      PROVE  LInv' /\ [Table!StoreNext]_known
  <2>1. /\ pc[k] = "room" /\ Return(k) /\ known[id] = None
        /\ known' = [sessions EXCEPT ![id] = NewSession(host, t)]
    BY <1>2 DEF Insert, Return
  <2>2. sessions = Table!Swept /\ ~Full  BY <2>1 DEF LInv, Halfway
  <2>3. Table!CreateOk(id, host, t)
    <3>1. Table!Cardinality(Table!Occupied(Table!Swept)) < MaxSessions
      BY <2>2, SameCount, OccupiedFinite, MaxSessionsAssumption
      DEF Table!Occupied, Full, Occupied
    <3>2. Table!NewSession(host, t) = NewSession(host, t)
      BY DEF Table!NewSession, NewSession
    <3> QED  BY <2>1, <2>2, <3>1, <3>2 DEF Table!CreateOk
  <2>4. mode[k] # "read"  BY <2>1 DEF LInv, Guarded
  <2>5. LInv'  BY <2>1, <2>4, ReturnKeeps DEF Held
  <2> QED  BY <2>3, <2>5 DEF Table!StoreNext
<1>3. CASE Assign(k)
  <2>1. /\ pc[k] = "locked" /\ mode[k] # "read" /\ Return(k)
        /\ known = sessions /\ known' = sessions'
    BY <1>3, LockedFindsKnown DEF Assign, Return
  <2>2. LInv'  BY <2>1, ReturnKeeps DEF Held
  <2>3. ASSUME NEW id \in SessionId, NEW st \in SessionState, UpdateState(id, st)
        PROVE  Table!StoreNext
    <3>1. Table!UpdateState(id, st)
      BY <2>1, <2>3 DEF Table!UpdateState, UpdateState
    <3> QED  BY <3>1 DEF Table!StoreNext, Table!SessionState, SessionState
  <2>4. ASSUME NEW id \in SessionId, NEW b \in Body, NEW h \in Hostname,
               StoreResponse(id, b, CertHash(h))
        PROVE  Table!StoreNext
    <3>1. Table!StoreResponse(id, b, Table!CertHash(h))
      BY <2>1, <2>4
      DEF Table!StoreResponse, StoreResponse, Table!CertHash, CertHash, Table!Sha512,
          Sha512
    <3> QED  BY <3>1 DEF Table!StoreNext
  <2>5. ASSUME NEW id \in SessionId, NEW p \in SessionProof, NEW a \in Attestation,
               StoreProof(id, p, a)
        PROVE  Table!StoreNext
    <3>1. Table!StoreProof(id, p, a)
      BY <2>1, <2>5 DEF Table!StoreProof, StoreProof
    <3>2. p \in Table!SessionProof /\ a \in Table!Attestation
      BY DEF Table!SessionProof, SessionProof, Table!Attestation, Attestation,
             Table!CertHash, CertHash, Table!Sha512, Sha512
    <3> QED  BY <3>1, <3>2 DEF Table!StoreNext
  <2> QED  BY <1>3, <2>2, <2>3, <2>4, <2>5 DEF Assign
<1>4. CASE Read(k)
  <2>1. /\ pc[k] = "locked" /\ Return(k) /\ known = sessions /\ known' = sessions'
        /\ sessions' = sessions
    BY <1>4, LockedFindsKnown DEF Read, Return
  <2>2. LInv'  BY <2>1, ReturnKeeps DEF Held
  <2> QED  BY <2>1, <2>2
<1> QED  BY <1>1, <1>2, <1>3, <1>4

LEMMA LockNextImplements ==
    ASSUME LInv, [LockNext]_lvars
    PROVE  LInv' /\ [Table!StoreNext]_known
<1>1. CASE UNCHANGED lvars
  <2>1. Table!Swept' = Table!Swept
    BY <1>1 DEF lvars, Table!Swept, Table!Occupied, Table!ActiveIds
  <2> QED
    BY <1>1, <2>1
    DEF lvars, LInv, LTypes, Guarded, Halfway, Full, Occupied
<1>2. ASSUME NEW k \in Caller,
             (\E m \in Mode : Call(k, m)) \/ GiveUp(k) \/ Proceed(k)
      PROVE  LInv' /\ [Table!StoreNext]_known
  BY <1>2, LockStepKeeps, HiddenStepKeeps, ReturnImplements DEF Proceed
<1> QED  BY <1>1, <1>2 DEF LockNext

------------------------------------------------------------------------------

(* Capacity and types, in every step and not only at the end of an operation. *)
LEMMA LockNextCapacity ==
    ASSUME LInv, StoreTypeOK, CapacityRespected, [LockNext]_lvars
    PROVE  StoreTypeOK' /\ CapacityRespected'
<1>1. CASE sessions' = sessions
  BY <1>1 DEF StoreTypeOK, CapacityRespected, Occupied
<1>2. ASSUME NEW k \in Caller, Sweep(k)
      PROVE  StoreTypeOK' /\ CapacityRespected'
  <2>1. StoreTypeOK' /\ Occupied(sessions') \subseteq Occupied(sessions)
    BY <1>2 DEF Sweep, StoreTypeOK, Occupied
  <2>2. Cardinality(Occupied(sessions')) <= Cardinality(Occupied(sessions))
    BY <2>1, OccupiedFinite, FS_Subset
  <2> QED
    BY <2>1, <2>2, OccupiedFinite, MaxSessionsAssumption DEF CapacityRespected
<1>3. ASSUME NEW k \in Caller, NEW id \in SessionId, NEW host \in Hostname,
             NEW t \in TemplateId, Insert(k, id, host, t)
      PROVE  StoreTypeOK' /\ CapacityRespected'
  <2>1. /\ StoreTypeOK'
        /\ Occupied(sessions') \subseteq Occupied(sessions) \cup {id}
    BY <1>3, NewSessionTyped DEF Insert, StoreTypeOK, Occupied
  <2>2. ~Full  BY <1>3 DEF Insert, LInv, Halfway
  <2>3. Cardinality(Occupied(sessions)) < MaxSessions
    BY <2>2, OccupiedFinite, MaxSessionsAssumption DEF Full
  <2>4. /\ IsFiniteSet(Occupied(sessions) \cup {id})
        /\ Cardinality(Occupied(sessions) \cup {id})
              \in {Cardinality(Occupied(sessions)), Cardinality(Occupied(sessions)) + 1}
    BY OccupiedFinite, FS_AddElement
  <2>5. Cardinality(Occupied(sessions'))
          <= Cardinality(Occupied(sessions) \cup {id})
    BY <2>1, <2>4, FS_Subset
  <2> QED
    BY <2>1, <2>3, <2>4, <2>5, OccupiedFinite, MaxSessionsAssumption
    DEF CapacityRespected
<1>4. ASSUME NEW k \in Caller, Assign(k)
      PROVE  StoreTypeOK' /\ CapacityRespected'
  <2>1. PICK id \in SessionId :
           \/ \E st \in SessionState : UpdateState(id, st)
           \/ \E b \in Body, h \in Hostname : StoreResponse(id, b, CertHash(h))
           \/ \E p \in SessionProof, a \in Attestation : StoreProof(id, p, a)
    BY <1>4 DEF Assign
  <2>2. StoreTypeOK'  BY <2>1, UpdateTyped, ResponseTyped, ProofTyped
  <2>3. Occupied(sessions') = Occupied(sessions)  BY <2>1, OthersKeepKeys
  <2> QED  BY <2>2, <2>3 DEF CapacityRespected
<1>5. ASSUME NEW k \in Caller,
             \/ \E m \in Mode : Call(k, m)
             \/ GiveUp(k) \/ Acquire(k) \/ FindRoom(k) \/ RoomMade(k)
             \/ Refuse(k) \/ Read(k)
      PROVE  sessions' = sessions
  BY <1>5 DEF Call, GiveUp, Acquire, FindRoom, RoomMade, Refuse, Read
<1>6. CASE UNCHANGED lvars  BY <1>1, <1>6 DEF lvars
<1> QED  BY <1>1, <1>2, <1>3, <1>4, <1>5, <1>6 DEF LockNext, Proceed

(* The table never holds more than max_sessions sessions, at no moment of any        *)
(* operation and for any number of callers: what create found under its guard stays   *)
(* true until it inserts.                                                              *)
THEOREM CapacityHoldsThroughout == LockSpec => []CapacityRespected
<1>1. LockInit => LInv /\ StoreTypeOK /\ CapacityRespected
  <2>1. LockInit => StoreTypeOK /\ Occupied(sessions) = {}
    BY DEF LockInit, StoreInit, StoreTypeOK, Occupied
  <2> QED
    BY <2>1, LockInitEstablishes, FS_EmptySet, MaxSessionsAssumption
    DEF CapacityRespected
<1>2. LInv /\ StoreTypeOK /\ CapacityRespected /\ [LockNext]_lvars
        => LInv' /\ StoreTypeOK' /\ CapacityRespected'
  BY LockNextImplements, LockNextCapacity
<1> QED  BY <1>1, <1>2, PTL DEF LockSpec

(* Concurrent calls have the effect of calls made one after another: the table    *)
(* that every operation finds when it gets its guard is one SessionStore allows,   *)
(* whatever the other callers are doing (create's single guard, session.rs).        *)
THEOREM OperationsAreAtomic == LockSpec => ImplementsStore
<1>1. LockInit => LInv /\ Table!StoreInit
  BY LockInitEstablishes DEF LockInit, StoreInit, Table!StoreInit
<1>2. LInv /\ [LockNext]_lvars => LInv' /\ [Table!StoreNext]_known
  BY LockNextImplements
<1> QED  BY <1>1, <1>2, PTL DEF LockSpec, ImplementsStore, Table!StoreSpec

==============================================================================
