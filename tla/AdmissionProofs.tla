-------------------------- MODULE AdmissionProofs ----------------------------
(***************************************************************************)
(* The notary implements AdmissionControl: seen from outside, its session    *)
(* table is a counting semaphore with max_sessions slots.                    *)
(***************************************************************************)
EXTENDS NotaryProofs

(* Only a request that was marked failed or notarized has a terminal session. *)
LEMMA TerminalWasAnswered ==
    ASSUME IInv, NEW q \in SessionId, sessions[q] # None,
           sessions[q].state \in Terminal
    PROVE  Outcome(q) \in MarkedFailed \cup {"notarized"}
<1>1. pc[q] \notin AfterCreate
  BY HandlerHolds DEF AfterCreate, StateAt, Terminal
<1>2. pc[q] \notin {"idle", "create", "cancelled"}
  BY DEF IInv, RequestInv, Fates, NoSessionFate, CancelledFate
<1>3. pc[q] = "done"
  BY <1>1, <1>2 DEF IInv, Shapes, InFlight, BeforeCreate, Ended
<1>4. reply[q] \in Reply /\ reply[q] # None
  BY <1>3 DEF IInv, Shapes, RequestInv, LocalsBound
<1>5. Outcome(q) \in Error \cup {"notarized"}
  BY <1>4 DEF Outcome, Reply
<1>6. Outcome(q) \notin NoSession
  BY DEF IInv, RequestInv, Fates, NoSessionFate
<1>7. Outcome(q) \notin Unmarked
  BY DEF IInv, RequestInv, Fates, UnmarkedFate, Terminal
<1> QED  BY <1>5, <1>6, <1>7 DEF Error

(* A step of another request changes neither a request's verdict nor whether   *)
(* it holds a slot.                                                            *)
LEMMA AbstractFrame ==
    ASSUME IInv, NEW q \in SessionId, Untouched(q)
    PROVE  /\ Verdict(q)' = Verdict(q)
           /\ q \in ActiveIds' <=> q \in ActiveIds
<1>1. Outcome(q)' = Outcome(q)  BY DEF Untouched, Outcome
<1>2. CASE sessions'[q] = sessions[q]
  BY <1>1, <1>2 DEF Verdict, ActiveIds, Occupied
<1>3. CASE /\ sessions'[q] = None /\ sessions[q] # None
           /\ sessions[q].state \in Terminal
  <2>1. Outcome(q) \in MarkedFailed \cup {"notarized"}
    BY <1>3, TerminalWasAnswered
  <2>2. Verdict(q)' = Verdict(q)
    BY <1>1, <1>3, <2>1 DEF Verdict, MarkedFailed
  <2> QED  BY <1>3, <2>2 DEF ActiveIds, Occupied
<1> QED  BY <1>2, <1>3 DEF Untouched

(* So a step is known by what it does to the request that takes it. *)
LEMMA AbstractStep ==
    ASSUME IInv, NEW r \in SessionId,
           \A q \in SessionId : q # r => Untouched(q)
    PROVE  /\ [q \in SessionId |-> Verdict(q)]'
                = [[q \in SessionId |-> Verdict(q)] EXCEPT ![r] = Verdict(r)']
           /\ ActiveIds' = (ActiveIds \ {r}) \cup
                           (IF r \in ActiveIds' THEN {r} ELSE {})
<1>1. ActiveIds \subseteq SessionId /\ ActiveIds' \subseteq SessionId
  BY DEF ActiveIds, Occupied
<1>2. \A q \in SessionId : q # r => Verdict(q)' = Verdict(q)  BY AbstractFrame
<1>3. \A q \in SessionId : q # r => (q \in ActiveIds' <=> q \in ActiveIds)
  BY AbstractFrame
<1> QED  BY <1>1, <1>2, <1>3

(* A step that changes neither for the request that takes it is a stutter. *)
LEMMA AbstractStutter ==
    ASSUME IInv, NEW r \in SessionId,
           \A q \in SessionId : q # r => Untouched(q),
           Verdict(r)' = Verdict(r), r \in ActiveIds' <=> r \in ActiveIds
    PROVE  UNCHANGED Admission!avars
<1>1. ActiveIds' = ActiveIds
  BY AbstractStep DEF ActiveIds, Occupied
<1>2. [q \in SessionId |-> Verdict(q)]' = [q \in SessionId |-> Verdict(q)]
  BY AbstractStep
<1> QED  BY <1>1, <1>2 DEF Admission!avars

(* A step by which the request's own session turns terminal gives a slot back. *)
LEMMA AbstractRelease ==
    ASSUME IInv, NEW r \in SessionId,
           \A q \in SessionId : q # r => Untouched(q),
           Verdict(r)' = Verdict(r), r \in ActiveIds, r \notin ActiveIds'
    PROVE  Admission!Release(r)
<1>1. ActiveIds' = ActiveIds \ {r}
  BY AbstractStep
<1>2. [q \in SessionId |-> Verdict(q)]' = [q \in SessionId |-> Verdict(q)]
  BY AbstractStep
<1> QED  BY <1>1, <1>2 DEF Admission!Release

------------------------------------------------------------------------------
(* The capacity, as the sweep counts it and as the semaphore does *)

LEMMA ActiveFinite == IsFiniteSet(ActiveIds) /\ Cardinality(ActiveIds) \in Nat
<1>1. ActiveIds \subseteq Occupied(sessions)  BY DEF ActiveIds
<1> QED  BY <1>1, OccupiedFinite, FS_Subset, FS_CardinalityType

(* The instance of AdmissionControl counts as this module does. *)
LEMMA SameCardinality == \A S : Admission!Cardinality(S) = Cardinality(S)
BY DEF Cardinality, Admission!Cardinality

(* Every active session survives the sweep, and at capacity no other does. *)
LEMMA SweepKeepsActive ==
    ASSUME StoreTypeOK
    PROVE  /\ ActiveIds \subseteq Occupied(Swept)
           /\ Cardinality(Occupied(sessions)) >= MaxSessions
                 => Occupied(Swept) = ActiveIds
BY DEF StoreTypeOK, Swept, ActiveIds, Occupied

LEMMA RoomMeansSlot ==
    ASSUME StoreTypeOK, Cardinality(Occupied(Swept)) < MaxSessions
    PROVE  Cardinality(ActiveIds) < MaxSessions
<1>1. Cardinality(ActiveIds) <= Cardinality(Occupied(Swept))
  BY SweepKeepsActive, OccupiedFinite, FS_Subset
<1> QED  BY <1>1, ActiveFinite, OccupiedFinite, MaxSessionsAssumption

LEMMA RefusedMeansNoSlot ==
    ASSUME StoreTypeOK, CreateRefused
    PROVE  Cardinality(ActiveIds) >= MaxSessions /\ ActiveIds' = ActiveIds
<1>1. Cardinality(Occupied(Swept)) >= MaxSessions  BY DEF CreateRefused
<1>2. Cardinality(Occupied(Swept)) <= Cardinality(Occupied(sessions))
  BY SweptIsTable, OccupiedFinite, FS_Subset
<1>3. Cardinality(Occupied(sessions)) >= MaxSessions
  BY <1>1, <1>2, OccupiedFinite, MaxSessionsAssumption
<1>4. Occupied(Swept) = ActiveIds  BY <1>3, SweepKeepsActive
<1>5. ActiveIds' = ActiveIds
  BY <1>3 DEF CreateRefused, Swept, ActiveIds, Occupied
<1> QED  BY <1>1, <1>4, <1>5

------------------------------------------------------------------------------
(* The steps that move the semaphore *)

(* The verdict and the slot of a request whose reply has not changed follow     *)
(* from its session.                                                            *)
LEMMA CreateIsAdmission ==
    ASSUME IInv, NEW r \in SessionId, Create(r)
    PROVE  Admission!Admit(r) \/ Admission!Refuse(r)
<1>1. /\ pc[r] = "create" /\ reply[r] = None /\ sessions[r] = None
      /\ StoreTypeOK
      /\ \A q \in SessionId : q # r => Untouched(q)
  BY OthersUntouched, ReplyIsSome
  DEF Create, IInv, Shapes, RequestInv, LocalsBound, Fates, NoSessionFate, StepOf,
      HandlerStep
<1>2. Verdict(r) = "none" /\ r \notin ActiveIds
  BY <1>1
  DEF Verdict, Outcome, ActiveIds, Occupied, MarkedFailed, Unmarked
<1>3. CASE CreateOk(r, Host(r), Template(r)) /\ Goto(r, "mark_fetching")
  <2>1. Host(r) \in Hostname /\ Template(r) \in TemplateId
    BY <1>1, RequestTyped
  <2>2. sessions'[r] # None /\ sessions'[r] = NewSession(Host(r), Template(r))
    BY <1>1, <1>3, <2>1, CreateEffect
  <2>3. Verdict(r)' = "admitted"
    BY <1>1, <1>3, <2>2 DEF Verdict, Outcome, Goto
  <2>4. r \in ActiveIds'
    BY <2>2 DEF ActiveIds, Occupied, NewSession, Terminal
  <2>5. Cardinality(ActiveIds) < MaxSessions
    BY <1>1, <1>3, RoomMeansSlot DEF CreateOk
  <2>6. ActiveIds' = ActiveIds \cup {r}  BY <1>1, <1>2, <2>4, AbstractStep
  <2>7. [q \in SessionId |-> Verdict(q)]'
           = [[q \in SessionId |-> Verdict(q)] EXCEPT ![r] = "admitted"]
    BY <1>1, <2>3, AbstractStep
  <2>8. [q \in SessionId |-> Verdict(q)][r] = "none"  BY <1>2
  <2>9. Admission!Admit(r)  BY <2>5, <2>6, <2>7, <2>8, SameCardinality
      DEF Admission!Admit
  <2> QED  BY <2>9
<1>4. CASE CreateRefused /\ Answer(r, ErrorReply("too_many_sessions"))
  <2>1. Cardinality(ActiveIds) >= MaxSessions /\ ActiveIds' = ActiveIds
    BY <1>1, <1>4, RefusedMeansNoSlot
  <2>2. Outcome(r)' = "too_many_sessions"
    BY <1>4, ErrorReplyTyped, ReplyIsSome
    DEF Answer, IInv, Shapes, Outcome, Error, NoSession
  <2>3. Verdict(r)' = "refused"  BY <2>2 DEF Verdict
  <2>4. [q \in SessionId |-> Verdict(q)]'
           = [[q \in SessionId |-> Verdict(q)] EXCEPT ![r] = "refused"]
    BY <1>1, <2>3, AbstractStep
  <2>5. [q \in SessionId |-> Verdict(q)][r] = "none"  BY <1>2
  <2>6. Admission!Refuse(r)  BY <2>1, <2>4, <2>5, SameCardinality
      DEF Admission!Refuse
  <2> QED  BY <2>6
<1> QED  BY <1>3, <1>4 DEF Create

(* An admitted request stays admitted while its session is in the table. *)
LEMMA StillAdmitted ==
    ASSUME NEW r \in SessionId, sessions[r] # None, sessions'[r] # None,
           Outcome(r) # "too_many_sessions", Outcome(r)' # "too_many_sessions"
    PROVE  Verdict(r)' = Verdict(r)
BY DEF Verdict

LEMMA FinishIsRelease ==
    ASSUME IInv, NEW r \in SessionId, Finish(r)
    PROVE  Admission!Release(r)
<1>1. /\ sessions[r] # None /\ sessions[r].state = "committing" /\ reply[r] = None
      /\ ProofOf(r) \in SessionProof /\ AttestationOf(r) \in Attestation
      /\ StoreProof(r, ProofOf(r), AttestationOf(r)) /\ StoreTypeOK
  BY HandlerHolds, AnswerTyped DEF Finish, AfterCreate, StateAt, IInv, Shapes
<1>2. sessions'[r] # None /\ sessions'[r].state = "completed"
  BY <1>1, ProofEffect
<1>3. \A q \in SessionId : q # r => Untouched(q)
  BY OthersUntouched DEF StepOf, HandlerStep
<1>4. reply'[r].outcome = "notarized"
  BY DEF Finish, Answer, IInv, Shapes
<1>5. Verdict(r)' = Verdict(r)
  BY <1>1, <1>2, <1>4, StillAdmitted DEF Outcome
<1> QED
  BY <1>1, <1>2, <1>3, <1>5, AbstractRelease DEF ActiveIds, Occupied, Terminal

LEMMA MarkFailedIsRelease ==
    ASSUME IInv, NEW r \in SessionId, MarkFailed(r)
    PROVE  Admission!Release(r)
<1>1. /\ sessions[r] # None /\ sessions[r].state = "fetching"
      /\ Outcome(r) \in MarkedFailed
      /\ UpdateState(r, "failed") /\ StoreTypeOK
  BY DEF MarkFailed, IInv, Shapes, RequestInv, LocalsBound, Fates, MarkedFate, SessionOf
<1>2. "failed" \in SessionState  BY DEF SessionState
<1>3. sessions'[r] # None /\ sessions'[r].state = "failed"
  BY <1>1, <1>2, UpdateEffect
<1>4. \A q \in SessionId : q # r => Untouched(q)
  BY OthersUntouched DEF StepOf
<1>5. Outcome(r)' = Outcome(r)  BY DEF MarkFailed, Outcome
<1>6. Verdict(r)' = Verdict(r)
  BY <1>1, <1>3, <1>5, StillAdmitted DEF MarkedFailed
<1> QED
  BY <1>1, <1>3, <1>4, <1>6, AbstractRelease DEF ActiveIds, Occupied, Terminal

------------------------------------------------------------------------------
(* The steps it does not see *)

(* While a handler holds its session and leaves its state non-terminal, or      *)
(* leaves the table alone, nothing changes for the semaphore.                    *)
LEMMA HandlerStutters ==
    ASSUME IInv, NEW r \in SessionId, StepOf(r), pc[r] \in AfterCreate,
           sessions'[r] # None, sessions'[r].state \notin Terminal,
           reply'[r] = None \/ reply'[r].outcome # "too_many_sessions"
    PROVE  UNCHANGED Admission!avars
<1>1. /\ sessions[r] # None /\ sessions[r].state \notin Terminal /\ reply[r] = None
  BY HandlerHolds DEF AfterCreate, StateAt, Terminal
<1>2. Verdict(r)' = Verdict(r)
  BY <1>1, StillAdmitted DEF Outcome
<1>3. r \in ActiveIds' <=> r \in ActiveIds
  BY <1>1 DEF ActiveIds, Occupied
<1> QED  BY <1>2, <1>3, OthersUntouched, AbstractStutter

LEMMA ArriveStutters ==
    ASSUME IInv, NEW r \in SessionId, NEW t \in TemplateId,
           NEW d \in Disclosure \cup {None}, Arrive(r, t, d)
    PROVE  UNCHANGED Admission!avars
<1>1. sessions' = sessions /\ sessions[r] = None
  BY DEF Arrive, IInv, RequestInv, Fates, NoSessionFate
<1>2. Outcome(r) = "none"
  BY DEF Arrive, IInv, RequestInv, LocalsBound, Outcome
<1>3. Outcome(r)' \in {"none", "template_not_found", "hostname_not_allowed"}
  <2>1. CASE reply' = reply  BY <1>2, <2>1 DEF Outcome
  <2>2. ASSUME NEW e \in {"template_not_found", "hostname_not_allowed"},
               Answer(r, ErrorReply(e))
        PROVE  Outcome(r)' = e
    BY <2>2, ErrorReplyTyped, ReplyIsSome
    DEF Answer, Outcome, IInv, Shapes, Error, NoSession
  <2> QED  BY <2>1, <2>2 DEF Arrive, Goto
<1>4. Verdict(r)' = Verdict(r)
  BY <1>1, <1>2, <1>3 DEF Verdict, MarkedFailed, Unmarked
<1>5. r \in ActiveIds' <=> r \in ActiveIds  BY <1>1 DEF ActiveIds, Occupied
<1> QED  BY <1>4, <1>5, OthersUntouched, AbstractStutter DEF StepOf

LEMMA CancelStutters ==
    ASSUME IInv, NEW r \in SessionId, Cancel(r)
    PROVE  UNCHANGED Admission!avars
<1>1. sessions' = sessions /\ reply' = reply  BY DEF Cancel, Goto
<1>2. Verdict(r)' = Verdict(r)  BY <1>1 DEF Verdict, Outcome
<1>3. r \in ActiveIds' <=> r \in ActiveIds  BY <1>1 DEF ActiveIds, Occupied
<1> QED  BY <1>2, <1>3, OthersUntouched, AbstractStutter DEF StepOf

LEMMA MarkingStutters ==
    ASSUME IInv, NEW r \in SessionId, MarkFetching(r) \/ KeepResponse(r) \/ Commit(r)
    PROVE  UNCHANGED Admission!avars
<1>1. StoreTypeOK /\ pc[r] \in AfterCreate /\ sessions[r] # None
      /\ sessions[r].state \notin Terminal /\ reply[r] = None
  BY HandlerHolds
  DEF MarkFetching, KeepResponse, Commit, AfterCreate, StateAt, Terminal, IInv, Shapes
<1>2. sessions'[r] # None /\ sessions'[r].state \notin Terminal
  <2>1. ASSUME NEW st \in {"fetching", "committing"}, UpdateState(r, st)
        PROVE  sessions'[r] # None /\ sessions'[r].state \notin Terminal
    <3>1. st \in SessionState  BY DEF SessionState
    <3>2. sessions'[r] # None /\ sessions'[r].state = st
      BY <1>1, <2>1, <3>1, UpdateEffect
    <3> QED  BY <3>2 DEF Terminal
  <2>2. CASE KeepResponse(r)
    <3>1. body[r] \in Body /\ Host(r) \in Hostname
      BY <2>2, RequestTyped DEF KeepResponse, IInv, Shapes, RequestInv, LocalsBound
    <3> QED  BY <1>1, <2>2, <3>1, ResponseEffect DEF KeepResponse
  <2> QED  BY <2>1, <2>2 DEF MarkFetching, Commit
<1>3. reply'[r] = None \/ reply'[r].outcome # "too_many_sessions"
  <2>1. CASE reply' = reply  BY <1>1, <2>1
  <2>2. ASSUME NEW e \in {"voter_not_found", "extraction_failed"},
               Answer(r, ErrorReply(e))
        PROVE  reply'[r].outcome = e
    BY <2>2 DEF Answer, ErrorReply, IInv, Shapes
  <2> QED  BY <2>1, <2>2 DEF MarkFetching, KeepResponse, Commit, Goto
<1> QED  BY <1>1, <1>2, <1>3, HandlerStutters DEF StepOf, HandlerStep

LEMMA FetchingStutters ==
    ASSUME IInv, NEW r \in SessionId, BuildClient(r) \/ FetchEnds(r)
    PROVE  UNCHANGED Admission!avars
<1>1. /\ pc[r] \in AfterCreate /\ sessions[r] # None
      /\ sessions[r].state \notin Terminal /\ reply[r] = None
  BY HandlerHolds
  DEF BuildClient, FetchEnds, FetchFails, BodyUnreadable, TargetResponds, AfterCreate,
      StateAt, Terminal
<1>2. sessions' = sessions
  BY DEF BuildClient, FetchEnds, FetchFails, BodyUnreadable, TargetResponds
<1>3. reply'[r] = None \/ reply'[r].outcome # "too_many_sessions"
  <2>1. CASE reply' = reply  BY <1>1, <2>1
  <2>2. ASSUME NEW e \in MarkedFailed \cup Unmarked, Answer(r, ErrorReply(e))
        PROVE  reply'[r].outcome # "too_many_sessions"
    BY <2>2 DEF Answer, ErrorReply, IInv, Shapes, MarkedFailed, Unmarked
  <2> QED
    BY <2>1, <2>2
    DEF BuildClient, FetchEnds, FetchFails, BodyUnreadable, TargetResponds, Goto, Unmarked
<1> QED  BY <1>1, <1>2, <1>3, HandlerStutters DEF StepOf, HandlerStep

------------------------------------------------------------------------------

LEMMA StepIsAdmissionStep ==
    ASSUME IInv, [Next]_vars
    PROVE  [Admission!Next]_(Admission!avars)
<1>1. ASSUME NEW r \in SessionId, StepOf(r)
      PROVE  [Admission!Next]_(Admission!avars)
  BY <1>1, ArriveStutters, CreateIsAdmission, MarkingStutters, FetchingStutters,
     FinishIsRelease, MarkFailedIsRelease, CancelStutters
  DEF StepOf, HandlerStep, Admission!Next
<1>2. CASE UNCHANGED vars
  BY <1>2 DEF vars, hvars, Admission!avars, Verdict, Outcome, ActiveIds, Occupied
<1> QED  BY <1>1, <1>2, NextIsStepOf

LEMMA InitIsAdmissionInit == Init => Admission!Init
BY DEF Init, StoreInit, Admission!Init, Verdict, Outcome, ActiveIds, Occupied,
       MarkedFailed, Unmarked

(* For any number of requests and any capacity, the notary's admission is the  *)
(* counting semaphore: 503 exactly when max_sessions sessions are active, one   *)
(* slot per session, given back at most once.                                   *)
THEOREM NotaryImplementsAdmission == Spec => ImplementsAdmissionControl
<1>1. IInv /\ [Next]_vars => [Admission!Next]_(Admission!avars)
  BY StepIsAdmissionStep
<1> QED
  BY <1>1, InitIsAdmissionInit, InvariantHolds, PTL
  DEF Spec, ImplementsAdmissionControl, Admission!Spec

------------------------------------------------------------------------------
(* Who holds the slots *)

(* What the invariant says of a request that was answered. *)
LEMMA AnsweredHolds ==
    ASSUME IInv, NEW q \in SessionId, pc[q] = "done"
    PROVE  /\ reply[q] # None
           /\ Outcome(q) \in NoSession \cup MarkedFailed \cup Unmarked \cup {"notarized"}
<1>1. reply[q] \in Reply /\ reply[q] # None
  BY DEF IInv, Shapes, RequestInv, LocalsBound
<1> QED  BY <1>1 DEF Outcome, Reply, Error

LEMMA PcCases ==
    ASSUME IInv, NEW q \in SessionId
    PROVE  \/ pc[q] \in {"idle", "create"}
           \/ pc[q] \in AfterCreate
           \/ pc[q] = "done"
           \/ pc[q] = "cancelled"
BY DEF IInv, Shapes, InFlight, BeforeCreate, Ended

(* The accounting of slots is a consequence of the fates: an active session is   *)
(* none of a request that was refused, notarized or marked failed.                *)
LEMMA SlotsAccounted ==
    ASSUME IInv
    PROVE  SlotsAccountedFor
<1>1. ASSUME NEW q \in ActiveIds PROVE q \in InProgress \cup LeakedIds
  <2>1. q \in SessionId /\ sessions[q] # None /\ sessions[q].state \notin Terminal
    BY <1>1 DEF ActiveIds, Occupied
  <2>2. pc[q] \notin {"idle", "create"}
    BY <2>1 DEF IInv, RequestInv, Fates, NoSessionFate
  <2>3. CASE pc[q] \in AfterCreate  BY <2>1, <2>3 DEF InProgress
  <2>4. CASE pc[q] = "cancelled"  BY <1>1, <2>4 DEF LeakedIds
  <2>5. CASE pc[q] = "done"
    <3>1. Outcome(q) \notin NoSession \cup {"notarized"}
      BY <2>1 DEF IInv, RequestInv, Fates, NoSessionFate, NotarizedFate, Terminal
    <3>2. CASE Outcome(q) \in MarkedFailed
      <4>1. q \in failing
        BY <2>1, <3>2 DEF IInv, RequestInv, Fates, MarkedFate, Terminal
      <4> QED  BY <2>1, <4>1 DEF InProgress
    <3>3. CASE Outcome(q) \in Unmarked  BY <1>1, <3>3 DEF LeakedIds
    <3> QED  BY <2>1, <2>5, <3>1, <3>2, <3>3, AnsweredHolds
  <2> QED  BY <2>1, <2>2, <2>3, <2>4, <2>5, PcCases
<1>2. ASSUME NEW q \in InProgress PROVE q \in ActiveIds
  <2>1. q \in SessionId  BY <1>2 DEF InProgress
  <2>2. CASE pc[q] \in AfterCreate
    <3>1. sessions[q] # None /\ sessions[q].state \notin Terminal
      BY <2>1, <2>2, HandlerHolds DEF AfterCreate, StateAt, Terminal
    <3> QED  BY <2>1, <3>1 DEF ActiveIds, Occupied
  <2>3. CASE q \in failing
    <3>1. Outcome(q) \in MarkedFailed
      BY <2>1, <2>3 DEF IInv, RequestInv, LocalsBound
    <3>2. sessions[q] # None /\ sessions[q].state = "fetching"
      BY <2>1, <2>3, <3>1 DEF IInv, RequestInv, Fates, MarkedFate, SessionOf
    <3> QED  BY <2>1, <3>2 DEF ActiveIds, Occupied, Terminal
  <2> QED  BY <1>2, <2>2, <2>3 DEF InProgress
<1>3. LeakedIds \subseteq ActiveIds  BY DEF LeakedIds
<1> QED  BY <1>1, <1>2, <1>3 DEF SlotsAccountedFor

(* Every slot is held by a request in progress or was leaked, for any number of *)
(* requests and any capacity.                                                    *)
THEOREM SlotsAreAccountedFor == Spec => []SlotsAccountedFor
<1>1. IInv => SlotsAccountedFor  BY SlotsAccounted
<1> QED  BY <1>1, InvariantHolds, PTL

LEMMA SlotSetsFinite ==
    /\ IsFiniteSet(InProgress) /\ Cardinality(InProgress) \in Nat
    /\ IsFiniteSet(LeakedIds) /\ Cardinality(LeakedIds) \in Nat
    /\ Cardinality(LeakedIds) <= Cardinality(ActiveIds)
<1>1. InProgress \subseteq SessionId  BY DEF InProgress
<1>2. LeakedIds \subseteq ActiveIds  BY DEF LeakedIds
<1> QED
  BY <1>1, <1>2, SessionIdAssumption, ActiveFinite, FS_Subset, FS_CardinalityType

(* That a 503 means a full semaphore is what AdmissionControl says of a refusal; *)
(* who fills it is SlotsAccountedFor.                                            *)
LEMMA RefusalHasCause ==
    ASSUME IInv, [Next]_vars, NEW r \in SessionId,
           Outcome(r) = "none", Outcome(r)' = "too_many_sessions"
    PROVE  Cardinality(InProgress) + Cardinality(LeakedIds) >= MaxSessions
<1> DEFINE verdicts == [q \in SessionId |-> Verdict(q)]
<1>1. verdicts[r] # "refused" /\ verdicts'[r] = "refused"
  BY DEF Verdict
<1>2. Cardinality(ActiveIds) >= MaxSessions
  <2>1. PICK q \in SessionId : Admission!Admit(q) \/ Admission!Refuse(q) \/ Admission!Release(q)
    BY <1>1, StepIsAdmissionStep DEF Admission!Next, Admission!avars
  <2>2. ~Admission!Admit(q) /\ ~Admission!Release(q)
    BY <1>1 DEF Admission!Admit, Admission!Release
  <2> QED  BY <2>1, <2>2, SameCardinality DEF Admission!Refuse
<1>3. ActiveIds = InProgress \cup LeakedIds
  BY SlotsAccounted DEF SlotsAccountedFor
<1>4. Cardinality(ActiveIds) <= Cardinality(InProgress) + Cardinality(LeakedIds)
  <2>1. /\ Cardinality(InProgress \cup LeakedIds)
             = Cardinality(InProgress) + Cardinality(LeakedIds)
               - Cardinality(InProgress \cap LeakedIds)
    BY SlotSetsFinite, FS_Union
  <2>2. Cardinality(InProgress \cap LeakedIds) \in Nat
    BY SlotSetsFinite, FS_Intersection, FS_CardinalityType
  <2> QED  BY <1>3, <2>1, <2>2, SlotSetsFinite
<1> QED  BY <1>2, <1>4, SlotSetsFinite, ActiveFinite, MaxSessionsAssumption

(* A 503 is answered only when the requests in progress and the slots leaked so *)
(* far fill the capacity.                                                        *)
THEOREM RefusalsHaveACause == Spec => RefusedForCause
<1> DEFINE Step ==
      \A r \in SessionId :
         Outcome(r) = "none" /\ Outcome(r)' = "too_many_sessions"
         => Cardinality(InProgress) + Cardinality(LeakedIds) >= MaxSessions
<1>1. IInv /\ [Next]_vars => Step  BY RefusalHasCause
<1> HIDE DEF Step
<1>2. Spec => [][Step]_vars  BY <1>1, InvariantHolds, PTL DEF Spec
<1> QED  BY <1>2 DEF RefusedForCause, Step

------------------------------------------------------------------------------
(* Leaks *)

(* A request whose slot is leaked has no step left to take ... *)
LEMMA LeakedIsIdle ==
    ASSUME IInv, NEW r \in LeakedIds
    PROVE  r \in SessionId /\ ~StepOf(r)
<1>1. r \in SessionId  BY DEF LeakedIds, ActiveIds, Occupied
<1>2. pc[r] \in Ended
  BY <1>1
  DEF LeakedIds, IInv, RequestInv, LocalsBound, Outcome, Unmarked, Ended
<1>3. Outcome(r) \notin MarkedFailed
  BY <1>1
  DEF LeakedIds, IInv, RequestInv, LocalsBound, Outcome, Unmarked, MarkedFailed
<1>4. r \notin failing  BY <1>1, <1>3 DEF IInv, RequestInv, LocalsBound
<1>5. ~Cancel(r) /\ ~MarkFailed(r)
  BY <1>2, <1>4 DEF Cancel, MarkFailed, InFlight, BeforeCreate, AfterCreate, Ended
<1>6. ~HandlerStep(r)
  BY <1>2
  DEF HandlerStep, Create, MarkFetching, BuildClient, FetchEnds, FetchFails,
      BodyUnreadable, TargetResponds, KeepResponse, Commit, Finish, Ended
<1>7. ~ \E t \in TemplateId, d \in Disclosure \cup {None} : Arrive(r, t, d)
  BY <1>2 DEF Arrive, Ended
<1> QED  BY <1>1, <1>5, <1>6, <1>7 DEF StepOf

(* ... and no step of another request ends or evicts its session. *)
LEMMA LeaksStay ==
    ASSUME IInv, [Next]_vars
    PROVE  LeakedIds \subseteq LeakedIds'
<1> SUFFICES ASSUME NEW r \in LeakedIds PROVE r \in LeakedIds'
  OBVIOUS
<1>1. r \in SessionId /\ sessions[r] # None /\ sessions[r].state \notin Terminal
  BY DEF LeakedIds, ActiveIds, Occupied
<1>2. CASE UNCHANGED vars
  BY <1>2 DEF vars, hvars, LeakedIds, ActiveIds, Occupied, Outcome
<1>3. ASSUME NEW q \in SessionId, StepOf(q) PROVE r \in LeakedIds'
  <2>1. Untouched(r)  BY <1>1, <1>3, LeakedIsIdle, OthersUntouched
  <2>2. sessions'[r] = sessions[r]  BY <1>1, <2>1 DEF Untouched
  <2> QED
    BY <1>1, <2>1, <2>2 DEF Untouched, LeakedIds, ActiveIds, Occupied, Outcome
<1> QED  BY <1>2, <1>3, NextIsStepOf

Saturated == Cardinality(LeakedIds) >= MaxSessions

NoAdmission ==
    \A r \in SessionId : sessions[r] = None => sessions'[r] = None

(* With the capacity leaked away the sweep makes no room. *)
LEMMA SaturatedAdmitsNone ==
    ASSUME IInv, Saturated, [Next]_vars, NEW r \in SessionId, sessions[r] = None
    PROVE  sessions'[r] = None
<1>0. StoreTypeOK  BY DEF IInv, Shapes
<1>1. ASSUME NEW q \in SessionId, StepOf(q), q # r PROVE sessions'[r] = None
  BY <1>1, OthersUntouched DEF Untouched
<1>2. ASSUME StepOf(r) PROVE sessions'[r] = None
  <2>1. pc[r] \notin AfterCreate  BY HandlerHolds
  <2>2. r \notin failing
    BY DEF IInv, RequestInv, LocalsBound, Fates, MarkedFate, SessionOf
  <2>3. CASE Create(r)
    <3>1. Cardinality(ActiveIds) >= MaxSessions
      BY SlotSetsFinite, ActiveFinite, MaxSessionsAssumption DEF Saturated
    <3>2. ~(Cardinality(Occupied(Swept)) < MaxSessions)
      BY <1>0, <3>1, RoomMeansSlot, ActiveFinite, MaxSessionsAssumption
    <3>3. sessions' = Swept
      BY <2>3, <3>2 DEF Create, CreateOk, CreateRefused
    <3> QED  BY <1>0, <3>3, SweptEntry
  <2>4. CASE /\ ~Create(r)
             /\ \/ HandlerStep(r) \/ MarkFailed(r)
    BY <2>1, <2>2, <2>4
    DEF HandlerStep, MarkFetching, BuildClient, FetchEnds, FetchFails, BodyUnreadable,
        TargetResponds, KeepResponse, Commit, Finish, MarkFailed, AfterCreate
  <2>5. CASE Cancel(r)  BY <2>5 DEF Cancel
  <2>6. ASSUME NEW t \in TemplateId, NEW d \in Disclosure \cup {None}, Arrive(r, t, d)
        PROVE  sessions'[r] = None
    BY <2>6 DEF Arrive
  <2> QED  BY <1>2, <2>3, <2>4, <2>5, <2>6 DEF StepOf
<1>3. CASE UNCHANGED vars  BY <1>3 DEF vars
<1> QED  BY <1>1, <1>2, <1>3, NextIsStepOf

(* No eviction and no late task gives a leaked slot back, and a notary whose    *)
(* slots have all leaked never opens a session again.                           *)
THEOREM LeakedSlotsNeverReturn == Spec => LeaksAreForever
<1> DEFINE Step ==
      /\ LeakedIds \subseteq LeakedIds'
      /\ Cardinality(LeakedIds) >= MaxSessions
            => \A r \in SessionId : sessions[r] = None => sessions'[r] = None
<1>1. IInv /\ [Next]_vars => Step
  BY LeaksStay, SaturatedAdmitsNone DEF Saturated
<1> HIDE DEF Step
<1>2. Spec => [][Step]_vars  BY <1>1, InvariantHolds, PTL DEF Spec
<1> QED  BY <1>2 DEF LeaksAreForever, Step

LEMMA SaturationStays ==
    ASSUME IInv, Saturated, [Next]_vars
    PROVE  Saturated'
<1>1. LeakedIds \subseteq LeakedIds'  BY LeaksStay
<1>2. LeakedIds' \subseteq SessionId  BY DEF LeakedIds, ActiveIds, Occupied
<1>3. IsFiniteSet(LeakedIds')  BY <1>2, SessionIdAssumption, FS_Subset
<1>4. /\ Cardinality(LeakedIds) <= Cardinality(LeakedIds')
      /\ Cardinality(LeakedIds') \in Nat
  BY <1>1, <1>3, FS_Subset, FS_CardinalityType
<1> QED  BY <1>4, SlotSetsFinite, MaxSessionsAssumption DEF Saturated

(* Once max_sessions slots have leaked, no request is admitted in any later     *)
(* state: the notary answers 503 until it is restarted.                          *)
THEOREM SaturationIsFinal ==
    Spec => [](Saturated => []Saturated /\ [][NoAdmission]_vars)
<1>1. IInv /\ Saturated /\ [Next]_vars => Saturated'  BY SaturationStays
<1>2. IInv /\ Saturated /\ [Next]_vars => NoAdmission
  BY SaturatedAdmitsNone DEF NoAdmission
<1> QED  BY <1>1, <1>2, InvariantHolds, PTL DEF Spec

------------------------------------------------------------------------------
(* Plaintext *)

PlaintextOf(r) ==
    sessions[r] # None /\ sessions[r].response_body # None
    => \/ pc[r] \in {"mark_committing", "store_proof", "cancelled"}
       \/ Outcome(r) \in {"voter_not_found", "extraction_failed"}

(* An answer given for a failed fetch, or before it, leaves no body behind. *)
NoBodyLeft(r) ==
    Outcome(r) \in MarkedFailed \cup {"client_build_failed", "body_unreadable"}
    => sessions[r] = None \/ sessions[r].response_body = None

(* Of all other requests the fates say what their sessions hold. *)
LEMMA PlaintextByFate ==
    IInv => \A r \in SessionId : NoBodyLeft(r) => PlaintextOf(r)
<1> SUFFICES ASSUME IInv, NEW r \in SessionId, NoBodyLeft(r) PROVE PlaintextOf(r)
  OBVIOUS
<1> USE DEF NoBodyLeft
<1>1. CASE pc[r] \in {"idle", "create"}
  BY <1>1 DEF PlaintextOf, IInv, RequestInv, Fates, NoSessionFate
<1>2. CASE pc[r] \in AfterCreate  BY <1>2, HandlerHolds DEF PlaintextOf
<1>3. CASE pc[r] = "cancelled"  BY <1>3 DEF PlaintextOf
<1>4. CASE pc[r] = "done"
  <2>1. CASE Outcome(r) \in NoSession
    BY <2>1 DEF PlaintextOf, IInv, RequestInv, Fates, NoSessionFate
  <2>2. CASE Outcome(r) = "notarized"
    BY <2>2 DEF PlaintextOf, IInv, RequestInv, Fates, NotarizedFate
  <2>3. CASE Outcome(r) \in MarkedFailed \cup Unmarked
    BY <2>3 DEF PlaintextOf, MarkedFailed, Unmarked
  <2> QED  BY <1>4, <2>1, <2>2, <2>3, AnsweredHolds
<1> QED  BY <1>1, <1>2, <1>3, <1>4, PcCases

(* A step of r itself that ends in such an answer has not stored one. *)
LEMMA NoBodyNoPlaintext ==
    ASSUME IInv, PlaintextForCause, NEW r \in SessionId, StepOf(r)
    PROVE  NoBodyLeft(r)'
<1> SUFFICES
      ASSUME Outcome(r)' \in MarkedFailed \cup {"client_build_failed", "body_unreadable"}
      PROVE  sessions'[r] = None \/ sessions'[r].response_body = None
  BY DEF NoBodyLeft
<1>0. StoreTypeOK  BY DEF IInv, Shapes
<1>1. CASE MarkFailed(r)
  <2>1. Outcome(r) \in MarkedFailed /\ pc[r] = "done" /\ UpdateState(r, "failed")
    BY <1>1 DEF MarkFailed, IInv, RequestInv, LocalsBound, Outcome, MarkedFailed
  <2>2. sessions[r] # None /\ sessions[r].response_body = None
    BY <1>1, <2>1
    DEF PlaintextForCause, MarkFailed, IInv, RequestInv, Fates, MarkedFate, SessionOf,
        MarkedFailed
  <2>3. "failed" \in SessionState  BY DEF SessionState
  <2> QED  BY <1>0, <2>1, <2>2, <2>3, UpdateEffect
<1>2. CASE BuildClient(r) \/ FetchEnds(r)
  <2>1. /\ pc[r] \in AfterCreate /\ pc[r] \notin {"mark_committing", "store_proof"}
        /\ sessions' = sessions
    BY <1>2
    DEF BuildClient, FetchEnds, FetchFails, BodyUnreadable, TargetResponds, AfterCreate
  <2> QED  BY <2>1, HandlerHolds
<1>3. CASE reply' = reply
  <2>1. Outcome(r)' = Outcome(r)  BY <1>3 DEF Outcome
  <2>2. pc[r] = "done"
    BY <2>1 DEF IInv, RequestInv, LocalsBound, Outcome, MarkedFailed
  <2>3. ~Cancel(r) /\ ~HandlerStep(r)
    BY <2>2
    DEF Cancel, InFlight, BeforeCreate, AfterCreate, HandlerStep, Create, MarkFetching,
        BuildClient, FetchEnds, FetchFails, BodyUnreadable, TargetResponds,
        KeepResponse, Commit, Finish
  <2>4. ~ \E t \in TemplateId, d \in Disclosure \cup {None} : Arrive(r, t, d)
    BY <2>2 DEF Arrive
  <2> QED  BY <1>1, <2>3, <2>4 DEF StepOf
<1>4. ASSUME NEW e \in NoSession \cup {"voter_not_found", "extraction_failed"},
             Answer(r, ErrorReply(e))
      PROVE  FALSE
  <2>1. e \in Error  BY DEF Error, NoSession, Unmarked
  <2>2. Outcome(r)' = e
    BY <1>4, <2>1, ErrorReplyTyped, ReplyIsSome DEF Answer, Outcome, IInv, Shapes
  <2> QED  BY <2>2 DEF NoSession, MarkedFailed
<1>5. CASE Finish(r)
  <2>1. reply'[r].outcome = "notarized"
    BY <1>5 DEF Finish, Answer, IInv, Shapes
  <2> QED  BY <2>1 DEF Outcome, MarkedFailed
<1>6. CASE Create(r) \/ MarkFetching(r) \/ KeepResponse(r) \/ Commit(r) \/ Cancel(r)
  BY <1>3, <1>4, <1>6
  DEF Create, MarkFetching, KeepResponse, Commit, Cancel, Goto, NoSession
<1>7. ASSUME NEW t \in TemplateId, NEW d \in Disclosure \cup {None}, Arrive(r, t, d)
      PROVE  sessions'[r] = None \/ sessions'[r].response_body = None
  BY <1>3, <1>4, <1>7 DEF Arrive, Goto, NoSession
<1> QED
  BY <1>1, <1>2, <1>5, <1>6, <1>7 DEF StepOf, HandlerStep

LEMMA NextKeepsPlaintextForCause ==
    ASSUME IInv, PlaintextForCause, [Next]_vars
    PROVE  PlaintextForCause'
<1>0. (\A r \in SessionId : NoBodyLeft(r) => PlaintextOf(r))'
  <2>1. IInv'  BY NextPreserves
  <2> QED  BY <2>1, PlaintextByFate, PTL
<1>1. ASSUME NEW r \in SessionId, NEW q \in SessionId, StepOf(q)
      PROVE  PlaintextOf(r)'
  <2>1. CASE q # r
    <3>1. Untouched(r)  BY <1>1, <2>1, OthersUntouched
    <3> QED  BY <3>1 DEF PlaintextForCause, PlaintextOf, Untouched, Outcome
  <2>2. CASE q = r
    BY <1>0, <1>1, <2>2, NoBodyNoPlaintext
  <2> QED  BY <2>1, <2>2
<1>2. CASE UNCHANGED vars
  BY <1>2 DEF vars, hvars, PlaintextForCause, Outcome
<1> QED  BY <1>1, <1>2, NextIsStepOf DEF PlaintextForCause, PlaintextOf

(* The table keeps no plaintext but that of a request past its fetch, of one     *)
(* whose client left it, and of one answered 422.                                *)
THEOREM PlaintextIsKeptForCause == Spec => []PlaintextForCause
<1>1. Init => PlaintextForCause  BY DEF Init, StoreInit, PlaintextForCause
<1>2. IInv /\ PlaintextForCause /\ [Next]_vars => PlaintextForCause'
  BY NextKeepsPlaintextForCause
<1> QED  BY <1>1, <1>2, InvariantHolds, PTL DEF Spec

==============================================================================
