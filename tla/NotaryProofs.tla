---------------------------- MODULE NotaryProofs -----------------------------
(***************************************************************************)
(* What holds of any number of concurrent notarizations, for every table     *)
(* capacity, registry, allowlist, target and extraction.                     *)
(*                                                                          *)
(* The inductive invariant is a conjunction over requests, and a step of one  *)
(* request can touch another only by evicting its session.  So each step is   *)
(* proved for the request that takes it, and once and for all (Frame) for     *)
(* every other.                                                              *)
(***************************************************************************)
EXTENDS Notary, SessionStoreProofs

Fates(r) ==
    /\ NoSessionFate(r)
    /\ NotarizedFate(r)
    /\ MarkedFate(r)
    /\ UnmarkedFate(r)
    /\ CancelledFate(r)

RequestInv(r) == LocalsBound(r) /\ HandlerSession(r) /\ Fates(r)

Shapes ==
    /\ StoreTypeOK
    /\ pc \in [SessionId -> {"idle"} \cup InFlight \cup Ended]
    /\ req \in [SessionId -> Request \cup {None}]
    /\ body \in [SessionId -> Body \cup {None}]
    /\ reply \in [SessionId -> Reply \cup {None}]
    /\ failing \subseteq SessionId

IInv == Shapes /\ \A r \in SessionId : RequestInv(r)

LEMMA InvariantParts == IInv <=> TypeOK /\ InFlightStored /\ ReplyFate
BY DEF IInv, Shapes, TypeOK, InFlightStored, ReplyFate, RequestInv, Fates

(* A create by another request leaves a session alone or evicts it, and it     *)
(* evicts terminal sessions only.                                               *)
Untouched(q) ==
    /\ pc'[q] = pc[q] /\ req'[q] = req[q] /\ body'[q] = body[q]
    /\ reply'[q] = reply[q]
    /\ q \in failing' <=> q \in failing
    /\ \/ sessions'[q] = sessions[q]
       \/ /\ sessions'[q] = None /\ sessions[q] # None
          /\ sessions[q].state \in Terminal

LEMMA Frame ==
    ASSUME Shapes, NEW q \in SessionId, RequestInv(q), Untouched(q)
    PROVE  RequestInv(q)'
<1> USE DEF Untouched, Outcome
<1>1. LocalsBound(q)'
  BY DEF RequestInv, LocalsBound, Extracted, Template, Mask
<1>2. CASE sessions'[q] = sessions[q]
  <2>1. HandlerSession(q)'
    BY <1>2 DEF RequestInv, HandlerSession, SessionOf, Template, Host
  <2>2. Fates(q)'
    BY <1>2 DEF RequestInv, Fates, NoSessionFate, NotarizedFate, MarkedFate,
                UnmarkedFate, CancelledFate, SessionOf, Template, Host
  <2> QED  BY <1>1, <2>1, <2>2 DEF RequestInv
<1>3. CASE /\ sessions'[q] = None /\ sessions[q] # None
           /\ sessions[q].state \in Terminal
  <2>1. pc[q] \notin AfterCreate
    BY <1>3 DEF RequestInv, HandlerSession, StateAt, AfterCreate, Terminal
  <2>2. Outcome(q) \notin Unmarked
    BY <1>3 DEF RequestInv, Fates, UnmarkedFate, Terminal
  <2>3. q \notin failing
    BY <1>3 DEF RequestInv, Fates, MarkedFate, LocalsBound, Terminal
  <2>4. HandlerSession(q)'  BY <2>1 DEF HandlerSession
  <2>5. Fates(q)'
    BY <1>3, <2>2, <2>3 DEF RequestInv, Fates, NoSessionFate, NotarizedFate,
                            MarkedFate, UnmarkedFate, CancelledFate
  <2> QED  BY <1>1, <2>4, <2>5 DEF RequestInv
<1> QED  BY <1>2, <1>3

LEMMA StepPreserves ==
    ASSUME IInv, NEW r \in SessionId, Shapes', RequestInv(r)',
           \A q \in SessionId : q # r => Untouched(q)
    PROVE  IInv'
<1>1. ASSUME NEW q \in SessionId PROVE RequestInv(q)'
  <2>1. CASE q = r  BY <2>1
  <2>2. CASE q # r  BY <2>2, Frame DEF IInv
  <2> QED  BY <2>1, <2>2
<1> QED  BY <1>1 DEF IInv

------------------------------------------------------------------------------
(* Types of what a handler computes *)

LEMMA RequestTyped ==
    ASSUME IInv, NEW r \in SessionId, pc[r] # "idle"
    PROVE  /\ req[r] \in Request
           /\ Template(r) \in TemplateId
           /\ Host(r) \in Hostname
           /\ Mask(r) \in Disclosure
<1>1. req[r] \in Request
  BY DEF IInv, Shapes, RequestInv, LocalsBound
<1> QED
  BY <1>1, RegistryAssumption DEF Request, Template, Host, Mask

LEMMA AnswerTyped ==
    ASSUME IInv, NEW r \in SessionId, pc[r] = "store_proof"
    PROVE  /\ ProofOf(r) \in SessionProof
           /\ AttestationOf(r) \in Attestation
<1>1. body[r] \in Body
  BY DEF IInv, Shapes, RequestInv, LocalsBound
<1>2. Extracted(r) \in Extraction
  BY <1>1, RequestTyped, ExtractionAssumption
  DEF IInv, RequestInv, LocalsBound, Extracted
<1> QED
  BY <1>1, <1>2, RequestTyped
  DEF ProofOf, AttestationOf, SessionProof, Attestation

LEMMA ErrorReplyTyped ==
    ASSUME NEW e \in Error
    PROVE  ErrorReply(e) \in Reply /\ ErrorReply(e).outcome = e
BY DEF ErrorReply, Reply

(* A reply is not the absence of one. *)
LEMMA ReplyIsSome == None \notin Reply
BY AbsenceAssumption

(* A handler that has answered with an error satisfies the invariant once its  *)
(* session has the fate that error calls for.                                   *)
LEMMA ErrorAnswered ==
    ASSUME IInv, NEW r \in SessionId, pc[r] # "idle", req' = req,
           NEW e \in Error, pc'[r] = "done", reply'[r] = ErrorReply(e),
           r \in failing' => e \in MarkedFailed,
           e \in NoSession => sessions'[r] = None,
           e \in MarkedFailed =>
              IF r \in failing' THEN SessionOf(r)' /\ sessions'[r].state = "fetching"
              ELSE sessions'[r] # None => sessions'[r].state = "failed",
           e \in Unmarked =>
              /\ SessionOf(r)'
              /\ sessions'[r].state =
                    IF e \in {"voter_not_found", "extraction_failed"}
                    THEN "committing" ELSE "fetching"
    PROVE  RequestInv(r)'
<1>1. reply'[r] # None /\ reply'[r].outcome = e
  BY ErrorReplyTyped, ReplyIsSome
<1>2. req'[r] # None  BY DEF IInv, RequestInv, LocalsBound
<1>3. e # "notarized"  BY DEF Error, NoSession, MarkedFailed, Unmarked
<1>4. LocalsBound(r)'  BY <1>1, <1>2 DEF LocalsBound, Outcome
<1>5. HandlerSession(r)'  BY DEF HandlerSession, AfterCreate
<1>6. Fates(r)'
  BY <1>1, <1>3
  DEF Fates, NoSessionFate, NotarizedFate, MarkedFate, UnmarkedFate, CancelledFate,
      Outcome
<1> QED  BY <1>4, <1>5, <1>6 DEF RequestInv

(* A handler that goes on after create satisfies it once its session is as the *)
(* next await expects.                                                         *)
LEMMA HandlerGoesOn ==
    ASSUME IInv, NEW r \in SessionId, pc[r] # "idle", reply[r] = None,
           req' = req, reply' = reply, failing' = failing,
           pc'[r] \in AfterCreate,
           SessionOf(r)', sessions'[r].state = StateAt[pc'[r]],
           sessions'[r].proof = None,
           sessions'[r].response_body =
              IF pc'[r] \in {"mark_committing", "store_proof"} THEN body'[r] ELSE None,
           pc'[r] \in {"store_response", "mark_committing", "store_proof"}
              => body'[r] # None,
           pc'[r] = "store_proof" => Extracted(r)' # None
    PROVE  RequestInv(r)'
<1>1. req'[r] # None /\ r \notin failing
  BY DEF IInv, RequestInv, LocalsBound, Outcome, MarkedFailed
<1>2. LocalsBound(r)'  BY <1>1 DEF LocalsBound, AfterCreate
<1>3. HandlerSession(r)'  BY DEF HandlerSession
<1>4. Fates(r)'
  BY DEF Fates, NoSessionFate, NotarizedFate, MarkedFate, UnmarkedFate,
         CancelledFate, Outcome, AfterCreate, NoSession, MarkedFailed, Unmarked
<1> QED  BY <1>2, <1>3, <1>4 DEF RequestInv

(* What the invariant says of a handler that holds a session. *)
LEMMA HandlerHolds ==
    ASSUME IInv, NEW r \in SessionId, pc[r] \in AfterCreate
    PROVE  /\ reply[r] = None /\ r \notin failing
           /\ SessionOf(r)
           /\ sessions[r] # None
           /\ sessions[r].state = StateAt[pc[r]]
           /\ sessions[r].proof = None
           /\ sessions[r].response_body =
                 IF pc[r] \in {"mark_committing", "store_proof"} THEN body[r]
                 ELSE None
BY DEF IInv, RequestInv, LocalsBound, HandlerSession, SessionOf, AfterCreate, Outcome,
       MarkedFailed

------------------------------------------------------------------------------
(* Non-interference *)

(* The steps a request r can take. *)
StepOf(r) ==
    \/ \E t \in TemplateId, d \in Disclosure \cup {None} : Arrive(r, t, d)
    \/ HandlerStep(r)
    \/ MarkFailed(r)
    \/ Cancel(r)

(* A step of one request leaves every other as Frame needs it. *)
LEMMA OthersUntouched ==
    ASSUME IInv, NEW r \in SessionId, StepOf(r)
    PROVE  \A q \in SessionId : q # r => Untouched(q)
<1>0. StoreTypeOK  BY DEF IInv, Shapes
<1>1. ASSUME NEW t \in TemplateId, NEW d \in Disclosure \cup {None}, Arrive(r, t, d)
      PROVE  \A q \in SessionId : q # r => Untouched(q)
  BY <1>1 DEF Arrive, Goto, Answer, IInv, Shapes, Untouched
<1>2. CASE Create(r)
  <2>1. Host(r) \in Hostname /\ Template(r) \in TemplateId
    BY <1>2, RequestTyped DEF Create
  <2>2. \A q \in SessionId : q # r => sessions'[q] = Swept[q]
    BY <1>0, <1>2, <2>1, CreateEffect DEF Create, CreateRefused
  <2> QED
    BY <1>0, <1>2, <2>2, SweptEntry DEF Create, Goto, Answer, IInv, Shapes, Untouched
<1>3. CASE MarkFetching(r) \/ KeepResponse(r) \/ Commit(r) \/ Finish(r) \/ MarkFailed(r)
  <2>1. \A q \in SessionId : q # r => sessions'[q] = sessions[q]
    BY <1>0, <1>3
    DEF MarkFetching, KeepResponse, Commit, Finish, MarkFailed, UpdateState,
        StoreResponse, StoreProof, StoreTypeOK
  <2> QED
    BY <1>3, <2>1
    DEF MarkFetching, KeepResponse, Commit, Finish, MarkFailed, Goto, Answer, IInv,
        Shapes, Untouched
<1>4. CASE BuildClient(r) \/ FetchEnds(r) \/ Cancel(r)
  BY <1>4
  DEF BuildClient, FetchEnds, FetchFails, BodyUnreadable, TargetResponds, Cancel,
      Goto, Answer, IInv, Shapes, Untouched
<1> QED  BY <1>1, <1>2, <1>3, <1>4 DEF StepOf, HandlerStep

(* Every step is a step of one request. *)
LEMMA NextIsStepOf == Next <=> \E r \in SessionId : StepOf(r)
BY DEF Next, StepOf

------------------------------------------------------------------------------
(* One lemma per step of Next *)

LEMMA ArriveStep ==
    ASSUME IInv, NEW r \in SessionId, NEW t \in TemplateId,
           NEW d \in Disclosure \cup {None}, Arrive(r, t, d)
    PROVE  IInv'
<1>1. /\ pc[r] = "idle" /\ reply[r] = None /\ sessions[r] = None
      /\ r \notin failing
  BY ReplyIsSome
  DEF Arrive, IInv, RequestInv, LocalsBound, Fates, NoSessionFate, Outcome, MarkedFailed
<1>2. [template_id |-> t, disclosure |-> d] \in Request  BY DEF Request
<1>3. /\ req'[r] \in Request /\ req'[r] # None
      /\ sessions' = sessions /\ failing' = failing /\ body' = body
  BY <1>2, AbsenceAssumption DEF Arrive, IInv, Shapes
<1>4. \/ pc'[r] = "create" /\ reply'[r] = None
      \/ \E e \in NoSession : pc'[r] = "done" /\ reply'[r] = ErrorReply(e)
  BY <1>1 DEF Arrive, Goto, Answer, IInv, Shapes, NoSession
<1>5. Shapes'
  BY <1>2, ErrorReplyTyped
  DEF Arrive, Goto, Answer, IInv, Shapes, StoreTypeOK, InFlight, BeforeCreate, Ended,
      Error, NoSession
<1>6. \A q \in SessionId : q # r => Untouched(q)
  BY OthersUntouched DEF StepOf
<1>7. RequestInv(r)'
  <2>1. CASE pc'[r] = "create" /\ reply'[r] = None
    BY <2>1, <1>1, <1>3
    DEF RequestInv, LocalsBound, HandlerSession, AfterCreate, Fates, NoSessionFate,
        NotarizedFate, MarkedFate, UnmarkedFate, CancelledFate, Outcome, NoSession,
        MarkedFailed, Unmarked
  <2>2. ASSUME NEW e \in NoSession, pc'[r] = "done", reply'[r] = ErrorReply(e)
        PROVE  RequestInv(r)'
    <3>1. reply'[r] # None /\ reply'[r].outcome = e
      BY <2>2, ErrorReplyTyped, ReplyIsSome DEF Error
    <3> QED
      BY <2>2, <3>1, <1>1, <1>3
      DEF RequestInv, LocalsBound, HandlerSession, AfterCreate, Fates, NoSessionFate,
          NotarizedFate, MarkedFate, UnmarkedFate, CancelledFate, Outcome, NoSession,
          MarkedFailed, Unmarked
  <2> QED  BY <1>4, <2>1, <2>2
<1> QED  BY <1>5, <1>6, <1>7, StepPreserves

LEMMA CreateStep ==
    ASSUME IInv, NEW r \in SessionId, Create(r)
    PROVE  IInv'
<1>1. /\ pc[r] = "create" /\ reply[r] = None /\ sessions[r] = None
      /\ r \notin failing
  BY ReplyIsSome
  DEF Create, IInv, RequestInv, LocalsBound, Fates, NoSessionFate, Outcome, MarkedFailed
<1>2. StoreTypeOK /\ Host(r) \in Hostname /\ Template(r) \in TemplateId
  BY <1>1, RequestTyped DEF IInv, Shapes
<1>3. CASE CreateOk(r, Host(r), Template(r)) /\ Goto(r, "mark_fetching")
  <2>1. /\ StoreTypeOK' /\ sessions'[r] # None
        /\ sessions'[r] = NewSession(Host(r), Template(r))
        /\ \A i \in SessionId : i # r => sessions'[i] = Swept[i]
    BY <1>2, <1>3, CreateEffect
  <2>2. Shapes'
    BY <1>3, <2>1 DEF Create, Goto, IInv, Shapes, InFlight, AfterCreate
  <2>3. \A q \in SessionId : q # r => Untouched(q)
    BY OthersUntouched DEF StepOf, HandlerStep
  <2>4. req' = req /\ reply' = reply /\ failing' = failing /\ pc'[r] = "mark_fetching"
    BY <1>3 DEF Create, Goto, IInv, Shapes
  <2>5. SessionOf(r)' /\ sessions'[r].state = "initialized"
        /\ sessions'[r].proof = None /\ sessions'[r].response_body = None
    BY <2>1, <2>4 DEF NewSession, SessionOf, Host, Template
  <2>6. RequestInv(r)'
    BY <1>1, <2>4, <2>5, HandlerGoesOn DEF AfterCreate, StateAt
  <2> QED  BY <2>2, <2>3, <2>6, StepPreserves
<1>4. CASE CreateRefused /\ Answer(r, ErrorReply("too_many_sessions"))
  <2> DEFINE e == "too_many_sessions"
  <2>1. StoreTypeOK' /\ \A i \in SessionId : sessions'[i] = Swept[i]
    BY <1>2, <1>4, RefuseTyped DEF CreateRefused
  <2>2. sessions'[r] = None  BY <1>1, <1>2, <2>1, SweptEntry
  <2>3. Shapes'
    BY <1>4, <2>1, ErrorReplyTyped
    DEF Create, Answer, IInv, Shapes, Ended, Error, NoSession
  <2>4. \A q \in SessionId : q # r => Untouched(q)
    BY OthersUntouched DEF StepOf, HandlerStep
  <2>5. /\ req' = req /\ failing' = failing /\ pc'[r] = "done"
        /\ reply'[r] = ErrorReply(e)
    BY <1>4 DEF Create, Answer, IInv, Shapes
  <2>6. e \in Error /\ e \notin MarkedFailed /\ e \notin Unmarked
    BY DEF Error, NoSession, MarkedFailed, Unmarked
  <2>7. RequestInv(r)'
    BY <1>1, <2>2, <2>5, <2>6, ErrorAnswered
  <2> QED  BY <2>3, <2>4, <2>7, StepPreserves
<1> QED  BY <1>3, <1>4 DEF Create

LEMMA MarkFetchingStep ==
    ASSUME IInv, NEW r \in SessionId, MarkFetching(r)
    PROVE  IInv'
<1>1. pc[r] = "mark_fetching" /\ pc[r] \in AfterCreate
  BY DEF MarkFetching, AfterCreate
<1>2. StoreTypeOK /\ sessions[r] # None /\ UpdateState(r, "fetching")
  BY <1>1, HandlerHolds DEF MarkFetching, IInv, Shapes
<1>3. "fetching" \in SessionState  BY DEF SessionState
<1>4. /\ StoreTypeOK'
      /\ \A i \in SessionId : i # r => sessions'[i] = sessions[i]
  BY <1>2, <1>3, UpdateEffect
<1>5. Shapes'
  BY <1>4 DEF MarkFetching, Goto, IInv, Shapes, InFlight, AfterCreate
<1>6. \A q \in SessionId : q # r => Untouched(q)
  BY OthersUntouched DEF StepOf, HandlerStep
<1>7. req' = req /\ reply' = reply /\ failing' = failing /\ pc'[r] = "jitter"
  BY DEF MarkFetching, Goto, IInv, Shapes
<1>8. SessionOf(r)' /\ sessions'[r].state = "fetching"
      /\ sessions'[r].proof = None /\ sessions'[r].response_body = None
  BY <1>1, <1>2, <1>3, <1>7, UpdateEffect, HandlerHolds DEF SessionOf, Host, Template
<1>9. RequestInv(r)'
  BY <1>1, <1>7, <1>8, HandlerHolds, HandlerGoesOn DEF AfterCreate, StateAt
<1> QED  BY <1>5, <1>6, <1>9, StepPreserves

LEMMA BuildClientStep ==
    ASSUME IInv, NEW r \in SessionId, BuildClient(r)
    PROVE  IInv'
<1>1. pc[r] = "jitter" /\ pc[r] \in AfterCreate
  BY DEF BuildClient, AfterCreate
<1>2. /\ sessions' = sessions /\ req' = req /\ body' = body /\ failing' = failing
  BY DEF BuildClient
<1>3. /\ SessionOf(r)' /\ sessions'[r].state = "fetching"
      /\ sessions'[r].proof = None /\ sessions'[r].response_body = None
  BY <1>1, <1>2, HandlerHolds DEF SessionOf, Host, Template, StateAt
<1>4. \A q \in SessionId : q # r => Untouched(q)
  BY OthersUntouched DEF StepOf, HandlerStep
<1>5. CASE Goto(r, "fetch")
  <2>1. Shapes'
    BY <1>2, <1>5 DEF Goto, IInv, Shapes, StoreTypeOK, InFlight, AfterCreate
  <2>2. reply' = reply /\ pc'[r] = "fetch"  BY <1>5 DEF Goto, IInv, Shapes
  <2>3. RequestInv(r)'
    BY <1>1, <1>2, <1>3, <2>2, HandlerHolds, HandlerGoesOn DEF AfterCreate, StateAt
  <2> QED  BY <1>4, <2>1, <2>3, StepPreserves
<1>6. CASE Answer(r, ErrorReply("client_build_failed"))
  <2> DEFINE e == "client_build_failed"
  <2>1. e \in Error /\ e \notin NoSession /\ e \notin MarkedFailed
    BY DEF Error, NoSession, MarkedFailed, Unmarked
  <2>2. Shapes'
    BY <1>2, <1>6, <2>1, ErrorReplyTyped
    DEF Answer, IInv, Shapes, StoreTypeOK, Ended
  <2>3. pc'[r] = "done" /\ reply'[r] = ErrorReply(e)
    BY <1>6 DEF Answer, IInv, Shapes
  <2>4. RequestInv(r)'
    BY <1>1, <1>2, <1>3, <2>1, <2>3, HandlerHolds, ErrorAnswered
  <2> QED  BY <1>4, <2>2, <2>4, StepPreserves
<1> QED  BY <1>5, <1>6 DEF BuildClient

LEMMA FetchFailsStep ==
    ASSUME IInv, NEW r \in SessionId, NEW e \in MarkedFailed, FetchFails(r, e)
    PROVE  IInv'
<1>1. pc[r] = "fetch" /\ pc[r] \in AfterCreate
  BY DEF FetchFails, AfterCreate
<1>2. /\ sessions' = sessions /\ req' = req /\ body' = body
      /\ failing' = failing \cup {r}
  BY DEF FetchFails
<1>3. SessionOf(r)' /\ sessions'[r].state = "fetching"
  BY <1>1, <1>2, HandlerHolds DEF SessionOf, Host, Template, StateAt
<1>4. e \in Error /\ e \notin NoSession /\ e \notin Unmarked
  BY DEF Error, NoSession, MarkedFailed, Unmarked
<1>5. Shapes'
  BY <1>2, <1>4, ErrorReplyTyped
  DEF FetchFails, Answer, IInv, Shapes, StoreTypeOK, Ended
<1>6. \A q \in SessionId : q # r => Untouched(q)
  BY OthersUntouched DEF StepOf, HandlerStep, FetchEnds
<1>7. pc'[r] = "done" /\ reply'[r] = ErrorReply(e) /\ r \in failing'
  BY <1>2 DEF FetchFails, Answer, IInv, Shapes
<1>8. RequestInv(r)'
  BY <1>1, <1>2, <1>3, <1>4, <1>7, ErrorAnswered
<1> QED  BY <1>5, <1>6, <1>8, StepPreserves

LEMMA BodyUnreadableStep ==
    ASSUME IInv, NEW r \in SessionId, BodyUnreadable(r)
    PROVE  IInv'
<1> DEFINE e == "body_unreadable"
<1>1. pc[r] = "fetch" /\ pc[r] \in AfterCreate
  BY DEF BodyUnreadable, AfterCreate
<1>2. sessions' = sessions /\ req' = req /\ body' = body /\ failing' = failing
  BY DEF BodyUnreadable
<1>3. SessionOf(r)' /\ sessions'[r].state = "fetching"
  BY <1>1, <1>2, HandlerHolds DEF SessionOf, Host, Template, StateAt
<1>4. e \in Error /\ e \notin NoSession /\ e \notin MarkedFailed
  BY DEF Error, NoSession, MarkedFailed, Unmarked
<1>5. Shapes'
  BY <1>2, <1>4, ErrorReplyTyped
  DEF BodyUnreadable, Answer, IInv, Shapes, StoreTypeOK, Ended
<1>6. \A q \in SessionId : q # r => Untouched(q)
  BY OthersUntouched DEF StepOf, HandlerStep, FetchEnds
<1>7. pc'[r] = "done" /\ reply'[r] = ErrorReply(e)
  BY DEF BodyUnreadable, Answer, IInv, Shapes
<1>8. RequestInv(r)'
  BY <1>1, <1>2, <1>3, <1>4, <1>7, HandlerHolds, ErrorAnswered
<1> QED  BY <1>5, <1>6, <1>8, StepPreserves

LEMMA TargetRespondsStep ==
    ASSUME IInv, NEW r \in SessionId, NEW b \in Body, TargetResponds(r, b)
    PROVE  IInv'
<1>1. pc[r] = "fetch" /\ pc[r] \in AfterCreate
  BY DEF TargetResponds, AfterCreate
<1>2. /\ sessions' = sessions /\ req' = req /\ reply' = reply
      /\ failing' = failing /\ pc'[r] = "store_response" /\ body'[r] = b
  BY DEF TargetResponds, Goto, IInv, Shapes
<1>3. /\ SessionOf(r)' /\ sessions'[r].state = "fetching"
      /\ sessions'[r].proof = None /\ sessions'[r].response_body = None
  BY <1>1, <1>2, HandlerHolds DEF SessionOf, Host, Template, StateAt
<1>4. Shapes'
  BY <1>2 DEF TargetResponds, Goto, IInv, Shapes, StoreTypeOK, InFlight, AfterCreate
<1>5. \A q \in SessionId : q # r => Untouched(q)
  BY OthersUntouched DEF StepOf, HandlerStep, FetchEnds
<1>6. b # None  BY AbsenceAssumption
<1>7. RequestInv(r)'
  BY <1>1, <1>2, <1>3, <1>6, HandlerHolds, HandlerGoesOn DEF AfterCreate, StateAt
<1> QED  BY <1>4, <1>5, <1>7, StepPreserves

LEMMA KeepResponseStep ==
    ASSUME IInv, NEW r \in SessionId, KeepResponse(r)
    PROVE  IInv'
<1>1. pc[r] = "store_response" /\ pc[r] \in AfterCreate
  BY DEF KeepResponse, AfterCreate
<1>2. /\ StoreTypeOK /\ sessions[r] # None /\ body[r] \in Body
      /\ Host(r) \in Hostname
      /\ StoreResponse(r, body[r], CertHash(Host(r)))
  BY <1>1, HandlerHolds, RequestTyped
  DEF KeepResponse, IInv, Shapes, RequestInv, LocalsBound
<1>3. /\ StoreTypeOK'
      /\ \A i \in SessionId : i # r => sessions'[i] = sessions[i]
  BY <1>2, ResponseEffect
<1>4. Shapes'
  BY <1>3 DEF KeepResponse, Goto, IInv, Shapes, InFlight, AfterCreate
<1>5. \A q \in SessionId : q # r => Untouched(q)
  BY OthersUntouched DEF StepOf, HandlerStep
<1>6. /\ req' = req /\ reply' = reply /\ failing' = failing /\ body' = body
      /\ pc'[r] = "mark_committing"
  BY DEF KeepResponse, Goto, IInv, Shapes
<1>7. SessionOf(r)' /\ sessions'[r].state = "fetching"
      /\ sessions'[r].proof = None /\ sessions'[r].response_body = body'[r]
  BY <1>1, <1>2, <1>6, ResponseEffect, HandlerHolds
  DEF SessionOf, Host, Template, StateAt
<1>8. body'[r] # None  BY <1>2, <1>6, AbsenceAssumption
<1>9. RequestInv(r)'
  BY <1>1, <1>6, <1>7, <1>8, HandlerHolds, HandlerGoesOn DEF AfterCreate, StateAt
<1> QED  BY <1>4, <1>5, <1>9, StepPreserves

LEMMA CommitStep ==
    ASSUME IInv, NEW r \in SessionId, Commit(r)
    PROVE  IInv'
<1>1. pc[r] = "mark_committing" /\ pc[r] \in AfterCreate
  BY DEF Commit, AfterCreate
<1>2. /\ StoreTypeOK /\ sessions[r] # None /\ UpdateState(r, "committing")
      /\ body[r] # None
  BY <1>1, HandlerHolds DEF Commit, IInv, Shapes, RequestInv, LocalsBound
<1>3. "committing" \in SessionState  BY DEF SessionState
<1>4. /\ StoreTypeOK'
      /\ \A i \in SessionId : i # r => sessions'[i] = sessions[i]
  BY <1>2, <1>3, UpdateEffect
<1>5. req' = req /\ body' = body /\ failing' = failing  BY DEF Commit
<1>6. /\ SessionOf(r)' /\ sessions'[r].state = "committing"
      /\ sessions'[r].proof = None /\ sessions'[r].response_body = body'[r]
  BY <1>1, <1>2, <1>3, <1>5, UpdateEffect, HandlerHolds DEF SessionOf, Host, Template
<1>7. \A q \in SessionId : q # r => Untouched(q)
  BY OthersUntouched DEF StepOf, HandlerStep
<1>8. ASSUME NEW e \in {"voter_not_found", "extraction_failed"},
             Answer(r, ErrorReply(e))
      PROVE  IInv'
  <2>1. e \in Error /\ e \notin NoSession /\ e \notin MarkedFailed
    BY DEF Error, NoSession, MarkedFailed, Unmarked
  <2>2. Shapes'
    BY <1>4, <1>5, <1>8, <2>1, ErrorReplyTyped DEF Answer, IInv, Shapes, Ended
  <2>3. pc'[r] = "done" /\ reply'[r] = ErrorReply(e)
    BY <1>8 DEF Answer, IInv, Shapes
  <2>4. RequestInv(r)'
    BY <1>1, <1>5, <1>6, <2>1, <2>3, HandlerHolds, ErrorAnswered
  <2> QED  BY <1>7, <2>2, <2>4, StepPreserves
<1>9. CASE Extracted(r) # None /\ Goto(r, "store_proof")
  <2>1. Shapes'
    BY <1>4, <1>5, <1>9 DEF Goto, IInv, Shapes, InFlight, AfterCreate
  <2>2. reply' = reply /\ pc'[r] = "store_proof"
    BY <1>9 DEF Goto, IInv, Shapes
  <2>3. Extracted(r)' # None
    BY <1>5, <1>9 DEF Extracted, Template, Mask
  <2>4. RequestInv(r)'
    BY <1>1, <1>2, <1>5, <1>6, <2>2, <2>3, HandlerHolds, HandlerGoesOn
    DEF AfterCreate, StateAt
  <2> QED  BY <1>7, <2>1, <2>4, StepPreserves
<1> QED  BY <1>8, <1>9 DEF Commit

LEMMA FinishStep ==
    ASSUME IInv, NEW r \in SessionId, Finish(r)
    PROVE  IInv'
<1> DEFINE ok == [outcome |-> "notarized", proof |-> ProofOf(r),
                  attestation |-> AttestationOf(r)]
<1>1. pc[r] = "store_proof" /\ pc[r] \in AfterCreate
  BY DEF Finish, AfterCreate
<1>2. /\ StoreTypeOK /\ sessions[r] # None
      /\ ProofOf(r) \in SessionProof /\ AttestationOf(r) \in Attestation
      /\ StoreProof(r, ProofOf(r), AttestationOf(r))
  BY <1>1, HandlerHolds, AnswerTyped DEF Finish, IInv, Shapes
<1>3. /\ StoreTypeOK' /\ sessions'[r] # None
      /\ \A i \in SessionId : i # r => sessions'[i] = sessions[i]
      /\ sessions'[r].state = "completed"
      /\ sessions'[r].template_id = sessions[r].template_id
      /\ sessions'[r].target_hostname = sessions[r].target_hostname
      /\ sessions'[r].response_body = None
      /\ sessions'[r].proof = ProofOf(r)
      /\ sessions'[r].attestation = AttestationOf(r)
  BY <1>2, ProofEffect
<1>4. ok \in Reply  BY <1>2 DEF Reply
<1>5. /\ req' = req /\ body' = body /\ failing' = failing
      /\ pc'[r] = "done" /\ reply'[r] = ok
  BY DEF Finish, Answer, IInv, Shapes
<1>6. Shapes'
  BY <1>3, <1>4 DEF Finish, Answer, IInv, Shapes, Ended
<1>7. \A q \in SessionId : q # r => Untouched(q)
  BY OthersUntouched DEF StepOf, HandlerStep
<1>8. RequestInv(r)'
  <2>1. reply'[r] # None  BY <1>4, <1>5, ReplyIsSome
  <2>2. Outcome(r)' = "notarized"  BY <1>5, <2>1 DEF Outcome
  <2>3. SessionOf(r)'
    BY <1>1, <1>3, <1>5, HandlerHolds DEF SessionOf, Host, Template
  <2>4. LocalsBound(r)'
    BY <1>1, <1>5, <2>1, HandlerHolds DEF LocalsBound, IInv, RequestInv
  <2>5. HandlerSession(r)'  BY <1>5 DEF HandlerSession, AfterCreate
  <2>6. NotarizedFate(r)'  BY <1>3, <1>5, <2>3 DEF NotarizedFate
  <2>7. Fates(r)'
    BY <1>5, <2>2, <2>6
    DEF Fates, NoSessionFate, MarkedFate, UnmarkedFate, CancelledFate, NoSession,
        MarkedFailed, Unmarked
  <2> QED  BY <2>4, <2>5, <2>7 DEF RequestInv
<1> QED  BY <1>6, <1>7, <1>8, StepPreserves

LEMMA MarkFailedStep ==
    ASSUME IInv, NEW r \in SessionId, MarkFailed(r)
    PROVE  IInv'
<1>1. /\ r \in failing /\ Outcome(r) \in MarkedFailed /\ reply[r] # None
      /\ pc[r] = "done" /\ SessionOf(r) /\ StoreTypeOK
      /\ sessions[r] # None /\ UpdateState(r, "failed")
  BY DEF MarkFailed, IInv, Shapes, RequestInv, LocalsBound, Fates, MarkedFate,
         SessionOf, Outcome, MarkedFailed
<1>2. "failed" \in SessionState  BY DEF SessionState
<1>3. /\ StoreTypeOK' /\ sessions'[r] # None /\ sessions'[r].state = "failed"
      /\ \A i \in SessionId : i # r => sessions'[i] = sessions[i]
  BY <1>1, <1>2, UpdateEffect
<1>4. /\ pc' = pc /\ req' = req /\ body' = body /\ reply' = reply
      /\ failing' = failing \ {r}
  BY DEF MarkFailed
<1>5. Shapes'  BY <1>3, <1>4 DEF IInv, Shapes
<1>6. \A q \in SessionId : q # r => Untouched(q)
  BY OthersUntouched DEF StepOf
<1>7. RequestInv(r)'
  <2>1. Outcome(r)' = Outcome(r)  BY <1>4 DEF Outcome
  <2>2. LocalsBound(r)'
    BY <1>1, <1>4 DEF IInv, RequestInv, LocalsBound
  <2>3. HandlerSession(r)'  BY <1>1, <1>4 DEF HandlerSession, AfterCreate
  <2>4. Fates(r)'
    BY <1>1, <1>3, <1>4, <2>1
    DEF Fates, NoSessionFate, NotarizedFate, MarkedFate, UnmarkedFate, CancelledFate,
        NoSession, MarkedFailed, Unmarked
  <2> QED  BY <2>2, <2>3, <2>4 DEF RequestInv
<1> QED  BY <1>5, <1>6, <1>7, StepPreserves

LEMMA CancelStep ==
    ASSUME IInv, NEW r \in SessionId, Cancel(r)
    PROVE  IInv'
<1>1. /\ sessions' = sessions /\ req' = req /\ body' = body /\ reply' = reply
      /\ failing' = failing /\ pc'[r] = "cancelled"
      /\ pc[r] \in InFlight
  BY DEF Cancel, Goto, IInv, Shapes
<1>2. Shapes'
  BY <1>1 DEF Cancel, Goto, IInv, Shapes, StoreTypeOK, Ended
<1>3. \A q \in SessionId : q # r => Untouched(q)
  BY OthersUntouched DEF StepOf
<1>4. reply[r] = None /\ r \notin failing /\ req[r] # None
  BY <1>1
  DEF IInv, RequestInv, LocalsBound, Outcome, MarkedFailed, InFlight, BeforeCreate,
      AfterCreate
<1>5. sessions[r] = None \/ (SessionOf(r) /\ sessions[r].state \notin Terminal)
  <2>1. CASE pc[r] = "create"
    BY <2>1 DEF IInv, RequestInv, Fates, NoSessionFate
  <2>2. CASE pc[r] \in AfterCreate
    BY <2>2, HandlerHolds DEF AfterCreate, StateAt, Terminal
  <2> QED  BY <1>1, <2>1, <2>2 DEF InFlight, BeforeCreate
<1>6. LocalsBound(r)'  BY <1>1, <1>4 DEF LocalsBound
<1>7. HandlerSession(r)'  BY <1>1 DEF HandlerSession, AfterCreate
<1>8. Fates(r)'
  BY <1>1, <1>4, <1>5
  DEF Fates, NoSessionFate, NotarizedFate, MarkedFate, UnmarkedFate, CancelledFate,
      Outcome, SessionOf, Host, Template, NoSession, MarkedFailed, Unmarked
<1>9. RequestInv(r)'  BY <1>6, <1>7, <1>8 DEF RequestInv
<1> QED  BY <1>2, <1>3, <1>9, StepPreserves

------------------------------------------------------------------------------
(* The invariant *)

LEMMA InitEstablishes == Init => IInv
<1> SUFFICES ASSUME Init PROVE IInv  OBVIOUS
<1>1. Shapes  BY DEF Init, StoreInit, Shapes, StoreTypeOK
<1>2. ASSUME NEW r \in SessionId PROVE RequestInv(r)
  BY DEF Init, StoreInit, RequestInv, LocalsBound, HandlerSession, AfterCreate, Fates,
         NoSessionFate, NotarizedFate, MarkedFate, UnmarkedFate, CancelledFate,
         Outcome, MarkedFailed, Unmarked
<1> QED  BY <1>1, <1>2 DEF IInv

LEMMA StutterPreserves ==
    ASSUME IInv, UNCHANGED vars
    PROVE  IInv'
<1>1. Shapes'  BY DEF vars, hvars, IInv, Shapes, StoreTypeOK
<1>2. \A q \in SessionId : Untouched(q)  BY DEF vars, hvars, Untouched
<1>3. \A q \in SessionId : RequestInv(q)'  BY <1>2, Frame DEF IInv
<1> QED  BY <1>1, <1>3 DEF IInv

LEMMA NextPreserves ==
    ASSUME IInv, [Next]_vars
    PROVE  IInv'
<1>1. ASSUME NEW r \in SessionId, HandlerStep(r) PROVE IInv'
  <2>1. CASE FetchEnds(r)
    BY <2>1, FetchFailsStep, BodyUnreadableStep, TargetRespondsStep DEF FetchEnds
  <2> QED
    BY <1>1, <2>1, CreateStep, MarkFetchingStep, BuildClientStep, KeepResponseStep,
       CommitStep, FinishStep
    DEF HandlerStep
<1> QED  BY <1>1, ArriveStep, MarkFailedStep, CancelStep, StutterPreserves DEF Next

THEOREM InvariantHolds == Spec => []IInv
<1>1. IInv /\ [Next]_vars => IInv'  BY NextPreserves
<1> QED  BY InitEstablishes, <1>1, PTL DEF Spec

(* Every variable keeps its type, and a handler never reads a local it has not *)
(* bound.                                                                       *)
THEOREM TypeCorrect == Spec => []TypeOK
BY InvariantHolds, InvariantParts, PTL

(* No eviction, handler or set-failed task ever takes a running handler's      *)
(* session away or changes it, for any number of requests and any capacity.     *)
THEOREM RunningHandlersKeepTheirSessions == Spec => []InFlightStored
BY InvariantHolds, InvariantParts, PTL

(* What clients were told and what the table holds never disagree. *)
THEOREM RepliesMatchTheTable == Spec => []ReplyFate
BY InvariantHolds, InvariantParts, PTL

------------------------------------------------------------------------------
(* The handlers use the table as StoreSpec lets any caller *)

LEMMA NextIsStoreNext ==
    ASSUME IInv, [Next]_vars
    PROVE  [StoreNext]_sessions
<1>1. ASSUME NEW r \in SessionId, Create(r) PROVE StoreNext
  <2>1. Host(r) \in Hostname /\ Template(r) \in TemplateId
    BY <1>1, RequestTyped DEF Create
  <2> QED  BY <1>1, <2>1 DEF Create, StoreNext
<1>2. ASSUME NEW r \in SessionId, MarkFetching(r) \/ Commit(r) \/ MarkFailed(r)
      PROVE  StoreNext
  BY <1>2 DEF MarkFetching, Commit, MarkFailed, StoreNext, SessionState
<1>3. ASSUME NEW r \in SessionId, KeepResponse(r) PROVE StoreNext
  <2>1. Host(r) \in Hostname /\ body[r] \in Body
    BY <1>3, RequestTyped DEF KeepResponse, IInv, Shapes, RequestInv, LocalsBound
  <2> QED  BY <1>3, <2>1 DEF KeepResponse, StoreNext
<1>4. ASSUME NEW r \in SessionId, Finish(r) PROVE StoreNext
  BY <1>4, AnswerTyped DEF Finish, StoreNext
<1>5. ASSUME NEW r \in SessionId, BuildClient(r) \/ FetchEnds(r) \/ Cancel(r)
      PROVE  UNCHANGED sessions
  BY <1>5 DEF BuildClient, FetchEnds, FetchFails, BodyUnreadable, TargetResponds,
              Cancel
<1>6. ASSUME NEW r \in SessionId, NEW t \in TemplateId,
             NEW d \in Disclosure \cup {None}, Arrive(r, t, d)
      PROVE  UNCHANGED sessions
  BY <1>6 DEF Arrive
<1>7. CASE UNCHANGED vars  BY <1>7 DEF vars
<1> QED
  BY <1>1, <1>2, <1>3, <1>4, <1>5, <1>6, <1>7 DEF Next, HandlerStep

(* The notary is a caller of the session table, so all that StoreSpec          *)
(* guarantees holds of it: above all the capacity and the discipline of          *)
(* evictions.                                                                   *)
THEOREM NotaryUsesTheStore == Spec => StoreSpec
<1>1. Init => StoreInit  BY DEF Init
<1>2. IInv /\ [Next]_vars => [StoreNext]_sessions  BY NextIsStoreNext
<1> QED  BY <1>1, <1>2, InvariantHolds, PTL DEF Spec, StoreSpec

(* However many requests arrive, the table stays within max_sessions. *)
THEOREM NotaryRespectsCapacity == Spec => []CapacityRespected
BY NotaryUsesTheStore, CapacityIsRespected

------------------------------------------------------------------------------
(* Sessions only move forward *)

Forward(id) ==
    sessions[id] # None /\ sessions'[id] # None
    => /\ Rank[sessions[id].state] <= Rank[sessions'[id].state]
       /\ sessions[id].state \in Terminal => sessions'[id] = sessions[id]

LEMMA UnchangedIsForward ==
    ASSUME StoreTypeOK, NEW id \in SessionId,
           sessions'[id] \in {sessions[id], None}
    PROVE  Forward(id)
<1>1. sessions[id] # None => sessions[id].state \in SessionState
  BY DEF StoreTypeOK, NotarySession
<1> QED  BY <1>1 DEF Forward, Rank, SessionState

LEMMA NextIsForward ==
    ASSUME IInv, Next, NEW id \in SessionId
    PROVE  Forward(id)
<1>0. StoreTypeOK  BY DEF IInv, Shapes
<1>1. ASSUME NEW r \in SessionId, Create(r) PROVE Forward(id)
  <2>1. sessions[r] = None
    BY <1>1 DEF Create, IInv, RequestInv, Fates, NoSessionFate
  <2>2. id # r => sessions'[id] \in {sessions[id], None}
    <3>1. Host(r) \in Hostname /\ Template(r) \in TemplateId
      BY <1>1, RequestTyped DEF Create
    <3> QED
      BY <1>0, <1>1, <3>1, CreateEffect, SweptEntry DEF Create, CreateRefused
  <2> QED  BY <1>0, <2>1, <2>2, UnchangedIsForward DEF Forward
<1>2. ASSUME NEW r \in SessionId, MarkFetching(r) PROVE Forward(id)
  <2>1. /\ sessions[r] # None /\ sessions[r].state = "initialized"
        /\ UpdateState(r, "fetching")
    BY <1>2, HandlerHolds DEF MarkFetching, AfterCreate, StateAt
  <2>2. "fetching" \in SessionState  BY DEF SessionState
  <2>3. /\ sessions'[r].state = "fetching"
        /\ \A i \in SessionId : i # r => sessions'[i] = sessions[i]
    BY <1>0, <2>1, <2>2, UpdateEffect
  <2> QED  BY <1>0, <2>1, <2>3, UnchangedIsForward DEF Forward, Rank, Terminal
<1>3. ASSUME NEW r \in SessionId, Commit(r) PROVE Forward(id)
  <2>1. /\ sessions[r] # None /\ sessions[r].state = "fetching"
        /\ UpdateState(r, "committing")
    BY <1>3, HandlerHolds DEF Commit, AfterCreate, StateAt
  <2>2. "committing" \in SessionState  BY DEF SessionState
  <2>3. /\ sessions'[r].state = "committing"
        /\ \A i \in SessionId : i # r => sessions'[i] = sessions[i]
    BY <1>0, <2>1, <2>2, UpdateEffect
  <2> QED  BY <1>0, <2>1, <2>3, UnchangedIsForward DEF Forward, Rank, Terminal
<1>4. ASSUME NEW r \in SessionId, MarkFailed(r) PROVE Forward(id)
  <2>1. /\ sessions[r] # None /\ sessions[r].state = "fetching"
        /\ UpdateState(r, "failed")
    BY <1>4
    DEF MarkFailed, IInv, RequestInv, LocalsBound, Fates, MarkedFate, SessionOf
  <2>2. "failed" \in SessionState  BY DEF SessionState
  <2>3. /\ sessions'[r].state = "failed"
        /\ \A i \in SessionId : i # r => sessions'[i] = sessions[i]
    BY <1>0, <2>1, <2>2, UpdateEffect
  <2> QED  BY <1>0, <2>1, <2>3, UnchangedIsForward DEF Forward, Rank, Terminal
<1>5. ASSUME NEW r \in SessionId, KeepResponse(r) PROVE Forward(id)
  <2>1. /\ sessions[r] # None /\ sessions[r].state = "fetching"
        /\ body[r] \in Body /\ Host(r) \in Hostname
        /\ StoreResponse(r, body[r], CertHash(Host(r)))
    BY <1>5, HandlerHolds, RequestTyped
    DEF KeepResponse, AfterCreate, StateAt, IInv, Shapes, RequestInv, LocalsBound
  <2> QED
    BY <1>0, <2>1, ResponseEffect, UnchangedIsForward DEF Forward, Rank, Terminal
<1>6. ASSUME NEW r \in SessionId, Finish(r) PROVE Forward(id)
  <2>1. /\ sessions[r] # None /\ sessions[r].state = "committing"
        /\ ProofOf(r) \in SessionProof /\ AttestationOf(r) \in Attestation
        /\ StoreProof(r, ProofOf(r), AttestationOf(r))
    BY <1>6, HandlerHolds, AnswerTyped DEF Finish, AfterCreate, StateAt
  <2> QED
    BY <1>0, <2>1, ProofEffect, UnchangedIsForward DEF Forward, Rank, Terminal
<1>7. CASE UNCHANGED sessions  BY <1>0, <1>7, UnchangedIsForward
<1>8. ASSUME NEW r \in SessionId, BuildClient(r) \/ FetchEnds(r) \/ Cancel(r)
      PROVE  UNCHANGED sessions
  BY <1>8 DEF BuildClient, FetchEnds, FetchFails, BodyUnreadable, TargetResponds,
              Cancel
<1>9. ASSUME NEW r \in SessionId, NEW t \in TemplateId,
             NEW d \in Disclosure \cup {None}, Arrive(r, t, d)
      PROVE  UNCHANGED sessions
  BY <1>9 DEF Arrive
<1> QED
  BY <1>1, <1>2, <1>3, <1>4, <1>5, <1>6, <1>7, <1>8, <1>9 DEF Next, HandlerStep

(* No step of any request moves a session back or rewrites a finished one. *)
THEOREM SessionsMoveForward == Spec => ForwardOnly
<1> DEFINE Step == \A id \in SessionId : Forward(id)
<1>1. IInv /\ Next => Step  BY NextIsForward
<1> HIDE DEF Step
<1>2. Spec => [][Step]_vars  BY <1>1, InvariantHolds, PTL DEF Spec
<1> QED  BY <1>2 DEF ForwardOnly, Step, Forward

------------------------------------------------------------------------------
(* Evictions, and what a 200 is about *)

(* Under the notary, too, sessions leave the table only when it is full, only   *)
(* finished ones, all of them, and to let a request in.                          *)
THEOREM NotaryEvictsWithDiscipline == Spec => EvictionDiscipline
BY NotaryUsesTheStore, EvictionIsDisciplined

(* NotarizedAsAsked for one request, with the body that store_proof goes on.     *)
Permitted(r) == Template(r) \in Registered /\ Allowed(Template(r))

AboutThis(r) ==
    /\ body[r] \notin NotFoundBody
    /\ reply[r].proof.transcript_commitment = Sha512(body[r])
    /\ reply[r].proof.server_hostname = Host(r)
    /\ reply[r].attestation.extraction = Extracted(r)
    /\ Extracted(r) # None

AskedInv(r) ==
    /\ pc[r] \in InFlight \/ sessions[r] # None => Permitted(r)
    /\ pc[r] = "store_proof" => body[r] \notin NotFoundBody
    /\ Outcome(r) = "notarized" => Permitted(r) /\ AboutThis(r)

Asked == \A r \in SessionId : AskedInv(r)

(* A step that leaves a request's locals and reply alone, and creates no session  *)
(* for it, keeps its part of the invariant.                                       *)
LEMMA AskedFrame ==
    ASSUME NEW q \in SessionId, AskedInv(q),
           req'[q] = req[q], body'[q] = body[q], reply'[q] = reply[q],
           pc'[q] \in InFlight => pc[q] \in InFlight,
           pc'[q] = "store_proof" => body[q] \notin NotFoundBody,
           sessions'[q] # None => sessions[q] # None \/ pc[q] \in InFlight
    PROVE  AskedInv(q)'
<1>1. Permitted(q)' <=> Permitted(q)
  BY DEF Permitted, Template, Allowed
<1>2. AboutThis(q)' <=> AboutThis(q)
  BY DEF AboutThis, Host, Extracted, Template, Mask
<1> QED  BY <1>1, <1>2 DEF AskedInv, Outcome

LEMMA AskedInit == Init => Asked
BY DEF Init, StoreInit, Asked, AskedInv, InFlight, BeforeCreate, AfterCreate, Outcome

(* The request that takes a step: one that answers with an error has lost or     *)
(* keeps its session ...                                                         *)
LEMMA AskedError ==
    ASSUME NEW r \in SessionId, AskedInv(r), NEW e \in Error,
           req'[r] = req[r], pc'[r] = "done", reply'[r] = ErrorReply(e),
           pc[r] \in InFlight
    PROVE  AskedInv(r)'
<1>1. Permitted(r)'  BY DEF AskedInv, Permitted, Template, Allowed
<1>2. Outcome(r)' # "notarized"
  BY ErrorReplyTyped, ReplyIsSome DEF Outcome, Error, NoSession, MarkedFailed, Unmarked
<1> QED  BY <1>1, <1>2 DEF AskedInv, InFlight, BeforeCreate, AfterCreate

(* ... and one that goes on has not answered.                                    *)
LEMMA AskedGoesOn ==
    ASSUME NEW r \in SessionId, AskedInv(r), pc[r] \in InFlight,
           req'[r] = req[r], reply'[r] = None,
           pc'[r] = "store_proof" => body'[r] \notin NotFoundBody
    PROVE  AskedInv(r)'
<1>1. Permitted(r)'  BY DEF AskedInv, Permitted, Template, Allowed
<1> QED  BY <1>1 DEF AskedInv, Outcome

LEMMA AskedHandler ==
    ASSUME IInv, NEW r \in SessionId, AskedInv(r), HandlerStep(r)
    PROVE  AskedInv(r)'
<1>1. pc[r] \in InFlight
  BY DEF HandlerStep, Create, MarkFetching, BuildClient, FetchEnds, FetchFails,
         BodyUnreadable, TargetResponds, KeepResponse, Commit, Finish, InFlight,
         BeforeCreate, AfterCreate
<1>2. reply[r] = None /\ req'[r] = req[r]
  BY <1>1
  DEF IInv, RequestInv, LocalsBound, InFlight, BeforeCreate, AfterCreate, HandlerStep,
      Create, MarkFetching, BuildClient, FetchEnds, FetchFails, BodyUnreadable,
      TargetResponds, KeepResponse, Commit, Finish
<1>3. ASSUME NEW e \in Error, Answer(r, ErrorReply(e)) PROVE AskedInv(r)'
  <2>1. pc'[r] = "done" /\ reply'[r] = ErrorReply(e)
    BY <1>3 DEF Answer, IInv, Shapes
  <2> QED  BY <1>1, <1>2, <2>1, AskedError
<1>4. ASSUME NEW await, Goto(r, await),
             await = "store_proof" => body'[r] \notin NotFoundBody
      PROVE  AskedInv(r)'
  <2>1. pc'[r] = await /\ reply'[r] = None
    BY <1>2, <1>4 DEF Goto, IInv, Shapes
  <2> QED  BY <1>1, <1>2, <1>4, <2>1, AskedGoesOn
<1>5. CASE Create(r)
  BY <1>3, <1>4, <1>5 DEF Create, Error, NoSession
<1>6. CASE MarkFetching(r) \/ KeepResponse(r)
  BY <1>4, <1>6 DEF MarkFetching, KeepResponse
<1>7. CASE BuildClient(r)
  BY <1>3, <1>4, <1>7 DEF BuildClient, Error, Unmarked
<1>8. CASE FetchEnds(r)
  BY <1>3, <1>4, <1>8
  DEF FetchEnds, FetchFails, BodyUnreadable, TargetResponds, Error, Unmarked
<1>9. CASE Commit(r)
  <2>1. body' = body  BY <1>9 DEF Commit
  <2> QED  BY <1>3, <1>4, <1>9, <2>1 DEF Commit, Error, Unmarked
<1>10. CASE Finish(r)
  <2>1. /\ body' = body /\ req' = req /\ pc'[r] = "done"
        /\ reply'[r] = [outcome |-> "notarized", proof |-> ProofOf(r),
                        attestation |-> AttestationOf(r)]
    BY <1>10 DEF Finish, Answer, IInv, Shapes
  <2>2. Extracted(r) # None /\ body[r] \notin NotFoundBody
    BY <1>10 DEF Finish, IInv, RequestInv, LocalsBound, AskedInv
  <2>3. Permitted(r)'
    BY <1>1, <2>1 DEF AskedInv, Permitted, Template, Allowed
  <2>4. AboutThis(r)'
    BY <2>1, <2>2
    DEF AboutThis, ProofOf, AttestationOf, Host, Extracted, Template, Mask
  <2> QED  BY <2>1, <2>3, <2>4 DEF AskedInv
<1> QED  BY <1>5, <1>6, <1>7, <1>8, <1>9, <1>10 DEF HandlerStep

LEMMA AskedNext ==
    ASSUME IInv, Asked, [Next]_vars
    PROVE  Asked'
<1>1. CASE UNCHANGED vars
  BY <1>1, AskedFrame DEF vars, hvars, Asked, AskedInv
<1>2. ASSUME NEW r \in SessionId, StepOf(r) PROVE Asked'
  <2>1. ASSUME NEW q \in SessionId, q # r PROVE AskedInv(q)'
    BY <1>2, <2>1, OthersUntouched, AskedFrame DEF Untouched, Asked, AskedInv
  <2>2. AskedInv(r)'
    <3>1. CASE HandlerStep(r)  BY <3>1, AskedHandler DEF Asked
    <3>2. ASSUME NEW t \in TemplateId, NEW d \in Disclosure \cup {None},
                 Arrive(r, t, d)
          PROVE  AskedInv(r)'
      <4>1. /\ sessions'[r] = None /\ reply[r] = None
            /\ req'[r] = [template_id |-> t, disclosure |-> d]
        BY <3>2
        DEF Arrive, IInv, Shapes, RequestInv, LocalsBound, Fates, NoSessionFate, Outcome
      <4>2. CASE /\ t \in Registered /\ Allowed(t) /\ Goto(r, "create")
        <5>1. pc'[r] = "create" /\ reply'[r] = None
          BY <4>1, <4>2 DEF Goto, IInv, Shapes
        <5>2. Permitted(r)'  BY <4>1, <4>2 DEF Permitted, Template, Allowed
        <5> QED  BY <5>1, <5>2 DEF AskedInv, Outcome
      <4>3. ASSUME NEW e \in NoSession, Answer(r, ErrorReply(e))
            PROVE  AskedInv(r)'
        <5>1. pc'[r] = "done" /\ reply'[r] = ErrorReply(e)
          BY <4>3 DEF Answer, IInv, Shapes
        <5>2. Outcome(r)' # "notarized"
          BY <5>1, ErrorReplyTyped, ReplyIsSome
          DEF Outcome, Error, NoSession, MarkedFailed, Unmarked
        <5> QED
          BY <4>1, <5>1, <5>2 DEF AskedInv, InFlight, BeforeCreate, AfterCreate
      <4> QED  BY <3>2, <4>2, <4>3 DEF Arrive, NoSession
    <3>3. CASE MarkFailed(r)
      <4>1. sessions'[r] # None => sessions[r] # None
        BY <3>3 DEF MarkFailed, UpdateState, IInv, Shapes, StoreTypeOK
      <4> QED  BY <3>3, <4>1, AskedFrame DEF MarkFailed, Asked, AskedInv
    <3>4. CASE Cancel(r)
      <4>1. pc'[r] = "cancelled"  BY <3>4 DEF Cancel, Goto, IInv, Shapes
      <4> QED
        BY <3>4, <4>1, AskedFrame
        DEF Cancel, Goto, Asked, InFlight, BeforeCreate, AfterCreate
    <3> QED  BY <1>2, <3>1, <3>2, <3>3, <3>4 DEF StepOf
  <2> QED  BY <2>1, <2>2 DEF Asked
<1> QED  BY <1>1, <1>2, NextIsStepOf

(* However requests interleave, none reaches past the registry and the           *)
(* allowlist, and a 200 is about the request it answers.                           *)
THEOREM AnswersAreAboutTheirRequests == Spec => []NotarizedAsAsked
<1>1. IInv /\ Asked /\ [Next]_vars => Asked'  BY AskedNext
<1>2. Asked => NotarizedAsAsked
  BY DEF Asked, AskedInv, Permitted, AboutThis, NotarizedAsAsked
<1> QED  BY <1>1, <1>2, AskedInit, InvariantHolds, PTL DEF Spec

==============================================================================
