------------------------------- MODULE Notary --------------------------------
(***************************************************************************)
(* POST /notarize, zktls-notary/src/server.rs: any number of request         *)
(* handlers run concurrently over one SessionStore.                          *)
(*                                                                          *)
(* A handler is a future.  Between two awaits it runs undisturbed, so one    *)
(* action covers the code from one await to the next; at an await every      *)
(* other handler, and the detached tasks that futures_set_failed spawns,     *)
(* may take steps, and the handler itself may be dropped: axum drops it when  *)
(* the client disconnects.  Every store call awaits the lock first, so each   *)
(* ends the code before it and starts the action after it.                   *)
(*                                                                          *)
(* A request is named by the session id it draws if it gets that far; a       *)
(* UUID is never drawn twice, so the name stands for one request.            *)
(***************************************************************************)
EXTENDS SessionStore

CONSTANTS
    Registered,         \* ids in the template registry
    TargetHost,         \* template id -> target.hostname
    AllowedHosts,       \* NotaryState.allowed_hostnames; empty allows all
    Disclosure,         \* disclosure masks a request may carry
    DefaultDisclosure,  \* template id -> default_disclosure
    NotFoundBody,       \* bodies {} or with "voter": null
    ExtractFields       \* <<template id, mask, body>> -> Extraction or None

ASSUME RegistryAssumption ==
    /\ Registered \subseteq TemplateId
    /\ TargetHost \in [TemplateId -> Hostname]
    /\ AllowedHosts \subseteq Hostname
    /\ DefaultDisclosure \in [TemplateId -> Disclosure]

ASSUME ExtractionAssumption ==
    /\ NotFoundBody \subseteq Body
    /\ ExtractFields \in
          [TemplateId \X Disclosure \X Body -> Extraction \cup {None}]

VARIABLES
    pc,         \* where each request's handler is
    req,        \* the request: template id and optional disclosure mask
    body,       \* the handler's local response_body
    reply,      \* the HTTP answer, or None
    failing     \* requests whose spawned set-failed task has not run yet

hvars == <<pc, req, body, reply, failing>>
vars == <<sessions, hvars>>

------------------------------------------------------------------------------
(* State *)

(* The await each handler is suspended at. *)
BeforeCreate == {"create"}
AfterCreate ==
    {"mark_fetching", "jitter", "fetch", "store_response", "mark_committing",
     "store_proof"}
InFlight == BeforeCreate \cup AfterCreate
Ended == {"done", "cancelled"}

(* Answers given before a session exists; answers after which a task marks    *)
(* the session failed; answers that leave the session as it is.               *)
NoSession == {"template_not_found", "hostname_not_allowed", "too_many_sessions"}
MarkedFailed == {"fetch_failed", "target_refused"}
Unmarked ==
    {"client_build_failed", "body_unreadable", "voter_not_found",
     "extraction_failed"}
Error == NoSession \cup MarkedFailed \cup Unmarked

ErrorReply(e) == [outcome |-> e, proof |-> None, attestation |-> None]

Reply ==
    [outcome     : Error \cup {"notarized"},
     proof       : SessionProof \cup {None},
     attestation : Attestation \cup {None}]

Request ==
    [template_id : TemplateId, disclosure : Disclosure \cup {None}]

ASSUME AbsenceAssumption ==
    None \notin Body \cup Extraction \cup SessionProof \cup Reply \cup Request

(* The template's host, the disclosure the request asked for or the           *)
(* template's default, and what extract_fields makes of the body with it.     *)
Template(r) == req[r].template_id
Host(r) == TargetHost[Template(r)]
Mask(r) ==
    IF req[r].disclosure = None THEN DefaultDisclosure[Template(r)]
    ELSE req[r].disclosure
Extracted(r) == ExtractFields[<<Template(r), Mask(r), body[r]>>]

Allowed(t) == AllowedHosts = {} \/ TargetHost[t] \in AllowedHosts

(* generate_proof, and the attestation built next to it. *)
ProofOf(r) ==
    [server_hostname       |-> Host(r),
     certificate_hash      |-> CertHash(Host(r)),
     transcript_commitment |-> Sha512(body[r])]

(* A fault TypeOK tells from the real one: the two ids swapped. *)
AttestationIdsSwapped(r) ==
    [session_proof_id |-> Template(r), template_id |-> r,
     extraction |-> Extracted(r)]

AttestationOf(r) ==
    [session_proof_id |-> r, template_id |-> Template(r),
     extraction |-> Extracted(r)]

Outcome(r) == IF reply[r] = None THEN "none" ELSE reply[r].outcome

(* Which of its locals a handler at a given await has bound, and that it has    *)
(* answered exactly when it is done.                                             *)
LocalsBound(r) ==
    /\ req[r] = None <=> pc[r] = "idle"
    /\ pc[r] \in {"store_response", "mark_committing", "store_proof"}
          => body[r] # None
    /\ pc[r] = "store_proof" => Extracted(r) # None
    /\ reply[r] # None <=> pc[r] = "done"
    /\ r \in failing => Outcome(r) \in MarkedFailed

(* Every variable has its type and every handler the locals its next step reads. *)
TypeOK ==
    /\ StoreTypeOK
    /\ pc \in [SessionId -> {"idle"} \cup InFlight \cup Ended]
    /\ req \in [SessionId -> Request \cup {None}]
    /\ body \in [SessionId -> Body \cup {None}]
    /\ reply \in [SessionId -> Reply \cup {None}]
    /\ failing \subseteq SessionId
    /\ \A r \in SessionId : LocalsBound(r)

------------------------------------------------------------------------------
(* The handler, await by await *)

Init ==
    /\ StoreInit
    /\ pc = [r \in SessionId |-> "idle"]
    /\ req = [r \in SessionId |-> None]
    /\ body = [r \in SessionId |-> None]
    /\ reply = [r \in SessionId |-> None]
    /\ failing = {}

Goto(r, await) == pc' = [pc EXCEPT ![r] = await] /\ UNCHANGED reply

Answer(r, answer) ==
    /\ pc' = [pc EXCEPT ![r] = "done"]
    /\ reply' = [reply EXCEPT ![r] = answer]

(* Steps 1: template lookup, then the hostname allowlist. *)
Arrive(r, t, d) ==
    /\ pc[r] = "idle"
    /\ req' = [req EXCEPT ![r] = [template_id |-> t, disclosure |-> d]]
    /\ \/ t \notin Registered /\ Answer(r, ErrorReply("template_not_found"))
       \/ /\ t \in Registered
          /\ ~Allowed(t)
          /\ Answer(r, ErrorReply("hostname_not_allowed"))
       \/ t \in Registered /\ Allowed(t) /\ Goto(r, "create")
    /\ UNCHANGED <<sessions, body, failing>>

(* A fault EveryRequestEnds tells from Create: no refusal, the request waits    *)
(* for room.                                                                     *)
CreateWaits(r) ==
    /\ pc[r] = "create"
    /\ CreateOk(r, Host(r), Template(r))
    /\ Goto(r, "mark_fetching")
    /\ UNCHANGED <<req, body, failing>>

(* Step 2: a session, or 503. *)
Create(r) ==
    /\ pc[r] = "create"
    /\ \/ CreateOk(r, Host(r), Template(r)) /\ Goto(r, "mark_fetching")
       \/ CreateRefused /\ Answer(r, ErrorReply("too_many_sessions"))
    /\ UNCHANGED <<req, body, failing>>

MarkFetching(r) ==
    /\ pc[r] = "mark_fetching"
    /\ UpdateState(r, "fetching")
    /\ Goto(r, "jitter")
    /\ UNCHANGED <<req, body, failing>>

(* After the jitter sleep a fresh HTTP client is built, or 500. *)
BuildClient(r) ==
    /\ pc[r] = "jitter"
    /\ \/ Goto(r, "fetch")
       \/ Answer(r, ErrorReply("client_build_failed"))
    /\ UNCHANGED <<sessions, req, body, failing>>

(* Faults in FetchFails below.  The set-failed task is spawned, then the fetch  *)
(* is tried again: ForwardOnly.                                                  *)
FetchRetried(r, error) ==
    /\ pc[r] = "fetch"
    /\ error \in MarkedFailed
    /\ failing' = failing \cup {r}
    /\ UNCHANGED <<sessions, pc, req, body, reply>>

(* No task is spawned: OnlyUnmarkedLinger. *)
FetchFailureForgotten(r, error) ==
    /\ pc[r] = "fetch"
    /\ error \in MarkedFailed
    /\ Answer(r, ErrorReply(error))
    /\ UNCHANGED <<sessions, req, body, failing>>

(* Step 3, up to the response body: the request fails to be sent or runs into  *)
(* the client's timeout; or is answered with a non-success status; or the body *)
(* breaks off; or it arrives.  The first two spawn the task that marks the      *)
(* session failed.                                                              *)
FetchFails(r, error) ==
    /\ pc[r] = "fetch"
    /\ error \in MarkedFailed
    /\ Answer(r, ErrorReply(error))
    /\ failing' = failing \cup {r}
    /\ UNCHANGED <<sessions, req, body>>

BodyUnreadable(r) ==
    /\ pc[r] = "fetch"
    /\ Answer(r, ErrorReply("body_unreadable"))
    /\ UNCHANGED <<sessions, req, body, failing>>

TargetResponds(r, b) ==
    /\ pc[r] = "fetch"
    /\ body' = [body EXCEPT ![r] = b]
    /\ Goto(r, "store_response")
    /\ UNCHANGED <<sessions, req, failing>>

KeepResponse(r) ==
    /\ pc[r] = "store_response"
    /\ StoreResponse(r, body[r], CertHash(Host(r)))
    /\ Goto(r, "mark_committing")
    /\ UNCHANGED <<req, body, failing>>

(* A fault NotarizedAsAsked tells from Commit: any body that can be extracted is *)
(* notarized, a "not found" too.                                                 *)
CommitUnjudged(r) ==
    /\ pc[r] = "mark_committing"
    /\ UpdateState(r, "committing")
    /\ IF Extracted(r) = None THEN Answer(r, ErrorReply("extraction_failed"))
       ELSE Goto(r, "store_proof")
    /\ UNCHANGED <<req, body, failing>>

(* Step 4: the session is marked, then the body is judged; up to store_proof   *)
(* there is no further await.                                                  *)
Commit(r) ==
    /\ pc[r] = "mark_committing"
    /\ UpdateState(r, "committing")
    /\ \/ /\ body[r] \in NotFoundBody
          /\ Answer(r, ErrorReply("voter_not_found"))
       \/ /\ body[r] \notin NotFoundBody
          /\ Extracted(r) = None
          /\ Answer(r, ErrorReply("extraction_failed"))
       \/ /\ body[r] \notin NotFoundBody
          /\ Extracted(r) # None
          /\ Goto(r, "store_proof")
    /\ UNCHANGED <<req, body, failing>>

(* Steps 5 and 6: proof and attestation are stored and sent. *)
Finish(r) ==
    /\ pc[r] = "store_proof"
    /\ StoreProof(r, ProofOf(r), AttestationOf(r))
    /\ Answer(r, [outcome |-> "notarized", proof |-> ProofOf(r),
                  attestation |-> AttestationOf(r)])
    /\ UNCHANGED <<req, body, failing>>

(* The detached task of futures_set_failed, whenever it gets to run. *)
MarkFailed(r) ==
    /\ r \in failing
    /\ UpdateState(r, "failed")
    /\ failing' = failing \ {r}
    /\ UNCHANGED <<pc, req, body, reply>>

(* The client goes away and the handler is dropped at its await.  Nothing in   *)
(* the code runs on the way out.                                               *)
Cancel(r) ==
    /\ pc[r] \in InFlight
    /\ Goto(r, "cancelled")
    /\ UNCHANGED <<sessions, req, body, failing>>

FetchEnds(r) ==
    \/ \E error \in MarkedFailed : FetchFails(r, error)
    \/ BodyUnreadable(r)
    \/ \E b \in Body : TargetResponds(r, b)

HandlerStep(r) ==
    \/ Create(r)
    \/ MarkFetching(r)
    \/ BuildClient(r)
    \/ FetchEnds(r)
    \/ KeepResponse(r)
    \/ Commit(r)
    \/ Finish(r)

Next ==
    \E r \in SessionId :
       \/ \E t \in TemplateId, d \in Disclosure \cup {None} : Arrive(r, t, d)
       \/ HandlerStep(r)
       \/ MarkFailed(r)
       \/ Cancel(r)

Spec == Init /\ [][Next]_vars

(* The runtime polls every handler and every spawned task that can proceed;    *)
(* the 30 s client timeout bounds a fetch.  Clients need not send requests nor *)
(* hang up, and targets need not answer.                                       *)
Fairness ==
    \A r \in SessionId : WF_vars(HandlerStep(r)) /\ WF_vars(MarkFailed(r))

FairSpec == Spec /\ Fairness

------------------------------------------------------------------------------
(* Safety: the handler's view and the table agree *)

(* The state the handler last gave its session. *)
StateAt ==
    [mark_fetching   |-> "initialized",
     jitter          |-> "fetching",
     fetch           |-> "fetching",
     store_response  |-> "fetching",
     mark_committing |-> "fetching",
     store_proof     |-> "committing"]

SessionOf(r) ==
    /\ sessions[r] # None
    /\ sessions[r].template_id = Template(r)
    /\ sessions[r].target_hostname = Host(r)

HandlerSession(r) ==
    pc[r] \in AfterCreate =>
       /\ SessionOf(r)
       /\ sessions[r].state = StateAt[pc[r]]
       /\ sessions[r].proof = None
       /\ sessions[r].response_body =
             IF pc[r] \in {"mark_committing", "store_proof"} THEN body[r]
             ELSE None

(* While a handler runs, its session is in the table, in the state and with    *)
(* the response the handler last wrote there, whatever evictions, other        *)
(* handlers and set-failed tasks did in between.  The handler drops the Result  *)
(* of every store call after create (.ok()); this is why no SessionNotFound     *)
(* hides behind one.                                                            *)
InFlightStored == \A r \in SessionId : HandlerSession(r)

(* What the table holds of a request that has no session or has lost it. *)
NoSessionFate(r) ==
    \/ pc[r] \in {"idle", "create"}
    \/ Outcome(r) \in NoSession
    => sessions[r] = None

NotarizedFate(r) ==
    Outcome(r) = "notarized" /\ sessions[r] # None
    => /\ SessionOf(r)
       /\ sessions[r].state = "completed"
       /\ sessions[r].response_body = None
       /\ sessions[r].proof = reply[r].proof
       /\ sessions[r].attestation = reply[r].attestation

MarkedFate(r) ==
    Outcome(r) \in MarkedFailed
    => IF r \in failing THEN SessionOf(r) /\ sessions[r].state = "fetching"
       ELSE sessions[r] # None => sessions[r].state = "failed"

UnmarkedFate(r) ==
    Outcome(r) \in Unmarked
    => /\ SessionOf(r)
       /\ sessions[r].state =
             IF Outcome(r) \in {"voter_not_found", "extraction_failed"}
             THEN "committing" ELSE "fetching"

CancelledFate(r) ==
    pc[r] = "cancelled" /\ sessions[r] # None
    => SessionOf(r) /\ sessions[r].state \notin Terminal

(* What a client was told and what the table says of its session never         *)
(* disagree: a refused request left nothing behind; a 200 is backed by a        *)
(* completed session with the very proof and attestation that were sent and no  *)
(* plaintext, until eviction; a failed or refused fetch is, once its detached    *)
(* task ran, a failed session; and after 422, after 500, after a broken body or  *)
(* a disconnect the session stays as it was.                                    *)
ReplyFate ==
    \A r \in SessionId :
       /\ NoSessionFate(r)
       /\ NotarizedFate(r)
       /\ MarkedFate(r)
       /\ UnmarkedFate(r)
       /\ CancelledFate(r)

(* Nothing is done for a template that is not registered or whose host is not    *)
(* allowed: from its first store call to its session's eviction a request stays   *)
(* within registry and allowlist.  And a 200 is about this request: its proof and  *)
(* attestation are of the body its own fetch got, which is no "not found", from    *)
(* the template's host, under the mask it asked for, although every await between   *)
(* lookup and answer lets other handlers run (server.rs, notarize).                  *)
NotarizedAsAsked ==
    \A r \in SessionId :
       /\ pc[r] \in InFlight \/ sessions[r] # None
             => Template(r) \in Registered /\ Allowed(Template(r))
       /\ Outcome(r) = "notarized"
             => /\ Template(r) \in Registered /\ Allowed(Template(r))
                /\ body[r] \notin NotFoundBody
                /\ reply[r].proof.transcript_commitment = Sha512(body[r])
                /\ reply[r].proof.server_hostname = Host(r)
                /\ reply[r].attestation.extraction = Extracted(r)
                /\ Extracted(r) # None

Rank ==
    [initialized |-> 0, fetching |-> 1, committing |-> 2,
     completed |-> 3, failed |-> 3]

(* A session only moves forward through its lifecycle, and a completed or      *)
(* failed one is never written again: no late set-failed task, and no store    *)
(* call of another handler, undoes or overwrites an outcome (update_state       *)
(* itself checks nothing).                                                      *)
ForwardOnly ==
    [][ \A id \in SessionId :
           sessions[id] # None /\ sessions'[id] # None
           => /\ Rank[sessions[id].state] <= Rank[sessions'[id].state]
              /\ sessions[id].state \in Terminal => sessions'[id] = sessions[id]
      ]_vars

------------------------------------------------------------------------------
(* The capacity as a semaphore *)

(* Every request that got past create is told by its reply or by its session,  *)
(* which only a terminal state, and so a reply, lets create evict.              *)
Verdict(r) ==
    IF Outcome(r) = "too_many_sessions" THEN "refused"
    ELSE IF sessions[r] # None
            \/ Outcome(r) \in MarkedFailed \cup Unmarked \cup {"notarized"}
         THEN "admitted"
    ELSE "none"

Admission ==
    INSTANCE AdmissionControl WITH
        Request <- SessionId,
        Capacity <- MaxSessions,
        verdict <- [r \in SessionId |-> Verdict(r)],
        holders <- ActiveIds

(* The session table, its evictions and the handlers' steps implement the      *)
(* semaphore of AdmissionControl, with the active sessions as its holders: 503  *)
(* is answered only when max_sessions sessions are active, never more are, and   *)
(* a slot is given back once (create, store_proof, futures_set_failed).          *)
ImplementsAdmissionControl == Admission!Spec

(* 503 "max concurrent sessions reached" is an answer about load: it is given   *)
(* only while max_sessions requests are being worked on, are about to be marked  *)
(* failed, or were given up by their client (server.rs, NotaryConfig: "Maximum   *)
(* concurrent sessions"); a request that has been answered holds no slot.        *)
RefusedOnlyUnderLoad ==
    [][ \A r \in SessionId :
           Outcome(r) = "none" /\ Outcome(r)' = "too_many_sessions"
           => Cardinality({q \in SessionId :
                             \/ pc[q] \in AfterCreate \cup {"cancelled"}
                             \/ q \in failing}) >= MaxSessions
      ]_vars

(* The slots that no step gives back: their requests ended 422, 500, with a     *)
(* broken body or by a disconnect, and nothing marks their sessions failed.      *)
LeakedIds ==
    {r \in ActiveIds : Outcome(r) \in Unmarked \/ pc[r] = "cancelled"}

(* The requests that are worked on, or whose failure is about to be recorded.   *)
InProgress == {r \in SessionId : pc[r] \in AfterCreate \/ r \in failing}

(* Every slot is accounted for (session.rs, active_count): the requests in        *)
(* progress hold one each, and all others were leaked; none is held by a request  *)
(* that was answered 200, 502 for its fetch, or never admitted.                   *)
SlotsAccountedFor == ActiveIds = InProgress \cup LeakedIds

(* What holds of a 503 in place of RefusedOnlyUnderLoad: the requests in progress *)
(* and the slots leaked so far add up to max_sessions.  No finished session still *)
(* waiting for eviction, and no other create, ever costs a request its admission. *)
RefusedForCause ==
    [][ \A r \in SessionId :
           Outcome(r) = "none" /\ Outcome(r)' = "too_many_sessions"
           => Cardinality(InProgress) + Cardinality(LeakedIds) >= MaxSessions
      ]_vars

(* A leaked slot stays leaked, whatever other requests, evictions and set-failed  *)
(* tasks do; and once max_sessions are, no request is ever admitted again: every  *)
(* create sweeps the table and finds no room (session.rs, create).                 *)
LeaksAreForever ==
    [][ /\ LeakedIds \subseteq LeakedIds'
        /\ Cardinality(LeakedIds) >= MaxSessions
              => \A r \in SessionId : sessions[r] = None => sessions'[r] = None
      ]_vars

(* The table holds plaintext only of a request that is past its fetch and not yet *)
(* notarized, of one whose client left there, or of one answered 422: no session   *)
(* answered 200, refused by its target or evicted keeps any.                      *)
PlaintextForCause ==
    \A r \in SessionId :
       sessions[r] # None /\ sessions[r].response_body # None
       => \/ pc[r] \in {"mark_committing", "store_proof", "cancelled"}
          \/ Outcome(r) \in {"voter_not_found", "extraction_failed"}

(* Once a request has been answered, the notary no longer keeps the plaintext   *)
(* it fetched for it (notary lib.rs: "with a commitment to not retain it";       *)
(* session.rs: "Don't retain plaintext").                                        *)
PlaintextCleared ==
    \A r \in SessionId :
       reply[r] # None /\ sessions[r] # None => sessions[r].response_body = None

------------------------------------------------------------------------------
(* Liveness *)

(* Every request that arrives is answered or its client goes away: no handler   *)
(* waits for ever, on the store or on another handler.                          *)
EveryRequestEnds ==
    \A r \in SessionId : pc[r] # "idle" ~> pc[r] \in Ended

(* The slots that are never given back are exactly those of requests that ended *)
(* 422, 500, with a broken body or by a disconnect: in the long run every other   *)
(* request's session is completed, failed or evicted, although a failure is      *)
(* recorded by a detached task after the answer has left.                        *)
OnlyUnmarkedLinger ==
    \A r \in SessionId :
       <>[](r \in ActiveIds => Outcome(r) \in Unmarked \/ pc[r] = "cancelled")

==============================================================================
