# A TLA+ verification of the zkTLS notary

This directory holds TLA+ models of the code in this repository, the TLC
configurations that check them on small instances, and theorems about them with
proofs checked by TLAPS. Definitions are named after the code they model;
`PROJECT.json` maps each one to its file and lines.

## 1. The system

A client posts a template id (and optionally a request body and a disclosure
mask) to a notary. The notary fetches the template's target over HTTPS, extracts
the template's fields from the JSON answer, signs a proof over host, certificate
stand-in, body hash and time, and returns proof and attestation. A relying party
verifies both against a list of trusted notary keys.

| component | code | state | operations |
|---|---|---|---|
| core types, hash | `zktls-core/src/lib.rs` | none | `sha512_hash` |
| session store | `zktls-notary/src/session.rs` 17-195 | map id -> session behind one `RwLock`; capacity | `create` (with its sweep), `get`, `update_state`, `store_response`, `store_proof`, `active_count` |
| notarize handler | `server.rs` 208-681 | one future per request: its await, template, body; the detached tasks of `futures_set_failed` | `POST /notarize` |
| CSRF step, target request | `server.rs` 281-438 | a cookie jar and a token per request | token GET, pause, GET or POST |
| field extraction | `session.rs` 252-311 | none | `extract_fields`, `navigate_json_path` |
| proof generation | `session.rs` 197-250, `keys.rs` | none | `generate_proof`, `build_signing_message`, `sign` |
| key file | `main.rs` 19-47 | the seed on disk, the key in memory | `load_or_generate_key` |
| startup | `main.rs` 128-213 | registry, allowlist, listener | read templates, derive the allowlist, bind |
| template registry | `zktls-templates/src/lib.rs` | a list of templates | `register`, `get`, `list_ids` |
| verifier | `zktls-verifier/src/lib.rs` | list of trusted notaries | `add_notary`, `verify_proof`, `verify_attestation` |
| other endpoints | `server.rs` | none of their own | `/health`, `/info`, `/session/{id}` (reads only) |

How they interact. Handlers share only the session store (through its lock) and
read-only state (registry, allowlist, key pair). A handler awaits the lock before
every store operation and the network during the fetch; at each await every other
handler and every spawned task may run. A client that disconnects makes the
server drop the handler's future at its await. Processes share the key file and the listen
address. Notary and verifier share no state: a proof travels through the client.

What is hard here:

- *Interleaving*: `create` of one request evicts sessions while other handlers
  are between two of their steps; nothing but the session's state protects it.
- *Dropped results*: the handler ignores the `Result` of every store call after
  `create` (`.ok()`), so a lost session would go unnoticed and a 200 be sent.
- *Late writes*: a fetch failure is recorded by a detached task that runs at any
  later time, and `update_state` accepts any transition.
- *Partial failure*: seven early returns follow `create`, two of which mark the session.
- *Cancellation*: a disconnect runs no code at all.
- *Capacity*: the limit, the sweep and the insertion must be one step, under one guard.
- *Crash and restart*: the key file is written in two system calls, and by
  whichever process found none.
- *Order*: `read_dir` has none, and the first template registered under an id wins;
  two fields of one name write one key; hashes carry no field names.
- *Time*: a notarization reads the clock three times, a verifier once more, any time
  later; the instant of expiry is still valid.
- *Cookies*: the jar keeps them by scope and expiry, the handler reads the headers and
  minds neither.
- *Two copies*: notary and verifier each have a signing message of their own.

What makes each component correct:

- *store*: never more than its capacity; evicts only finished sessions, only for room.
- *handler*: keeps its session while it runs; the answer and the table agree; a finished
  session is never rewritten; every request ends; 503 means that the table is full
  of sessions in progress; no plaintext is kept after the answer.
- *key file*: the serving key is the one on disk, and is always the same.
- *fetch*: a request carries cookies and token of its own CSRF answers or none, and the two
  agree for a target that keeps its token in one cookie.
- *extraction*: what is disclosed is what the mask allows, what is hashed is what
  it redacts, and a required field that is disclosed is never silently missing.
- *registry and startup*: the allowlist is the hosts of the templates that `get`
  finds, whatever the directory holds; no file replaces the built-in template.
- *proof, attestation, verifier*: proof and attestation issued together are of one body; what a
  trusted notary issued is accepted until it expires; a proof that verifies was issued. (That an
  accepted attestation belongs to the proof beside it, the code does not ensure: section 4.)

## 2. The modules

| module | models | built on |
|---|---|---|
| `Digest` | SHA-512, the certificate stand-in | |
| `CoreTypes` | proof, attestation as the session table sees them | `Digest` |
| `SessionStore` | the session table alone, under arbitrary callers | `CoreTypes` |
| `StoreLock` | one level below: the lock, its queue, and the steps of `create` under its guard; implements `SessionStore` | `SessionStore` |
| `AdmissionControl` | abstract: a counting semaphore | |
| `Notary` | concurrent `POST /notarize` handlers over the table; implements `AdmissionControl` | `SessionStore` |
| `Fetch` | one level below `Notary`'s `fetch`: clients, cookie jars, CSRF tokens | |
| `Templates` | templates, the built-in one, the registry | |
| `FieldExtraction` | one level below `Notary`'s `ExtractFields`: the loop of `extract_fields` | `Digest`, `Templates` |
| `ClaimPipeline` | body, extraction, proof, attestation, verifier, over time | `FieldExtraction` |
| `NotaryIdentity` | abstract: one key that comes and goes | |
| `KeyFile` | processes that share a key file and an address; implements `NotaryIdentity` | `NotaryIdentity` |
| `Startup` | whole starts: key, templates, allowlist, address; implements `KeyFile` | `KeyFile`, `Templates` |
| `SessionStoreProofs`, `StoreLockProofs`, `NotaryProofs`, `FetchProofs`, `PipelineProofs` | theorems | the module each is named after |
| `AdmissionProofs` | theorems of `Notary` on slots and plaintext | `NotaryProofs` |
| `StartupProofs` | theorems of `KeyFile` and `Startup` | `Startup` |
| `ExtractionProofs` | theorems of `FieldExtraction` | `FieldExtraction` |
| `MCStoreLock`, `MCNotary`, `MCFetch`, `MCKeyFile`, `MCStartup`, `MCClaimPipeline` | constants for TLC | |

**CoreTypes.** Bodies, hosts, templates and extraction results are opaque values.
A digest is a tagged copy of its input, so two digests are equal exactly when the
inputs are. Time, signature and key of a proof, which the table never looks at, are in
`ClaimPipeline`.

**SessionStore.** `sessions` is the `HashMap` as a function whose absent keys map to
`None`. Each operation holds the lock from beginning to end and is one action.
`Swept` is the table after the eviction block of `create`; `CreateOk` draws an id
never seen before (a UUID) and inserts, `CreateRefused` is the error after the
sweep. `UpdateState`, `StoreResponse` and `StoreProof` leave the table alone for an
unknown id, as `SessionNotFound` does. `StoreSpec` lets any operation happen at
any time.

**StoreLock** says why one action per operation is enough. Callers queue for the lock
(`Call`, `Acquire`, or `GiveUp`: the task is dropped while it waits); readers share it, a
writer is alone, and tokio's queue lets nobody overtake. `create` then goes through the
table step by step: `FindRoom`, or `Sweep` and after it `RoomMade` or `Refuse`, and `Insert`
(session.rs 90-126). The other operations are one pass (`Assign`, `Read`). `Return` drops
the guard. `known` is the table as the last operation to return left it, and
`ImplementsStore` maps the table of `SessionStore` to it. The fault `FindRoomUnguarded` counts under
a guard of its own, `FindRoomByCall` leaves the counting to an operation that takes
the lock again: the first lets two creates share a slot (`CapacityRespected`), the second waits
for itself (`EveryCallReturns`). `SweepUnguarded` evicts under a guard of its own, so that others see a
table swept by a `create` that has not returned (`ImplementsStore`). `SessionStore` has no run of its own: it
is checked here, as what the lock implements, and in `Notary`, which is built on it.

**Notary.** A request is named by the id its session gets if it gets one. `pc` is the
await at which its handler is suspended; one action runs from there to the next
await:

| `pc` | action | code (server.rs) |
|---|---|---|
| `idle` | `Arrive`: lookup, allowlist; 404, 403 | 208-236 |
| `create` | `Create`: a session or 503 | 238-250 |
| `mark_fetching` | `MarkFetching` | 259-264 |
| `jitter` | `BuildClient`: a client or 500 | 272-298 |
| `fetch` | `FetchFails` (502, task spawned), `BodyUnreadable` (502, none), `TargetResponds` | 300-473 |
| `store_response` | `KeepResponse` | 475-480 |
| `mark_committing` | `Commit`: 422 (`{}` or a null voter; extraction), or on | 482-606 |
| `store_proof` | `Finish`: 200 | 608-648 |
| any of these | `Cancel`: the future is dropped | external |

`failing` holds the requests whose detached task (`MarkFailed`, 666-681) has yet to
run. `ExtractFields` is a parameter: any function from template, mask and body to a
result or an error. What the loop returns is what `DisclosesAsMasked`, `HashesAsMasked` and
`FailsForCause` say; that this leaves one result for given arguments, so that a parameter that
is a function is right, is the theorem `ExtractionIsDetermined`. The target may answer anything at any time; what happens on the
way to the target request, while `pc` is `fetch`, is in `Fetch`.

**AdmissionControl** knows neither tables nor handlers: a request is admitted or
refused once, an admitted one holds one of `Capacity` slots until it gives it back.
`Notary` maps a request's verdict to its answer or its session and the holders to
the active sessions (`ActiveIds`). The mapping works without history because only a
finished session can be evicted, and one is finished only if its request was answered.

What the limit really counts is said by three properties beside the refinement. `InProgress` are the
requests some handler or set-failed task still works on, `LeakedIds` those that ended without their
session being marked. `SlotsAccountedFor`: these two are all the active sessions.
`RefusedForCause`: a 503 means that they add up to `max_sessions`. `LeaksAreForever`: a leak is
never undone, and `max_sessions` of them admit nobody. `PlaintextForCause` names, in the same
way, the requests whose body the table may hold.

What a 200 promises is `NotarizedAsAsked`: registered template, allowed host, and proof and
attestation of the one body this request's own fetch got, under its own mask. A "not found" arrives
as a 200 of the target (server.rs 495-571), and under a mask whose fields are all optional it extracts
without error; `Commit` judges it first, and the fault `CommitUnjudged` shows what that check is for.

**Fetch.** Each request builds a `client` whose jar is empty (`BuildClient`, 281-303) and,
if its template has a `CsrfConfig`, sends a GET. `CsrfRedirected` is a redirect that the
client follows by itself: its cookies reach the jar but not the handler. Then
`CsrfFails` (logged only) or `CsrfAnswered` and one `TakeCookie` per matching
`set-cookie` header (331-342). `SendRequest` (360-438) records the cookies and the header
that go out. The `jar` is the part of reqwest's cookie store that matters: for every `Scope`
(domain and path) the one cookie of the token's name. What the target sets there is
kept, or removes what is there (`Max-Age=0`), or is refused (`SetCookie`); a kept one may
expire before it is sent (`CookieExpires`); and only the cookies of scopes in `Reaching` match the
target request (`CookiesFor`). The handler takes the value of any matching header, whatever
its scope and expiry, so header and cookie differ for a target that redirects to another
host, sets another path or clears with a non-empty value. `DoubleSubmit` therefore is
about the targets that keep their token in one place: `places` remembers
which scopes the answers to a request have set, and `OnePlace` asks for one scope, in
`Reaching`, whose cookies were all kept. Several cookies, empty ones and redirects are
still in it; what can go wrong there is the order in which the loop lets one header win.
`shared` is the client in `NotaryState` that no handler uses any more. `issuedTo`
remembers in whose answer the target set a token.

**KeyFile.** `disk` is absent, short, or a seed; `fs::write` is `OpenFile` (truncate)
and `WriteSeed`, with `Crash` possible between any two steps; a read of anything
that is no seed panics. `set_permissions` (main.rs 42) follows the write; its result is ignored
and the model has no file modes, so a crash before it changes nothing here. `Bind` is exclusive. `published` remembers the key the
first process to serve showed. The constant `OverlappingStarts` says whether a
process may start while another one is starting, as two copies launched by hand
can and two launched by a service manager cannot.

**NotaryIdentity** is what a relying party sees of all this: a public key is shown or none is, and
whenever one is, it is the same. `KeyFile` maps `shown` to the key of whichever process serves,
and `identity` to `published`; `KeepsIdentity` is that it implements this as long as starts do not overlap.

**Startup** adds to each process its `registry`, the directory entries still
`unread` and its `allowed` hosts, and to the world the template `directory`, which
an operator edits at any time (`EditDirectory`). Between `KeyFile`'s key and its
`Bind` come `RegisterBuiltin` (main.rs 156-163), one `LoadFile` per entry in any order
(a file that vanished or does not parse is skipped, as the `warn!` arm does) and `DeriveAllowlist`
(184-189). `Serve` is `Bind`, and a start that fails to bind forgets what it had.
Every other step is `KeyFile`'s or a stutter of it, under the identity mapping.

**Templates.** The registry is a sequence; `Register` appends, `GetTemplate` is the first
with the id (`Iterator::find`), `ListIds` the set of all ids. `UtahVoterTemplate` is
main.rs 54-126, less request headers and texts.

**FieldExtraction.** `stage` is where the call is: `idle`, `parse`, `loop`, `extracted`,
`failed`. One round of the loop is one of `DiscloseValue`, `MissingRequired`,
`DiscloseNull`, `HashValue`, `SkipField`, the arms of session.rs 269-296; `Extract` calls,
`Parse` is `from_str`, `Return` the end, and `Discard` the caller's use of the result. A JSON value is a
record, an object with its members or anything else; `None` (no value) is not `Null` (the JSON
null), a difference the code makes too. `Navigate` walks a path as a recursive function. The
properties are said without the loop: `Discloses` and `Hashes` state what the first
n fields must have left.

**ClaimPipeline** runs `extract_fields` for a `job` (notary, template, asked-for mask):

| action | code |
|---|---|
| `Notarize`: a body is there, the mask in force is chosen, the call begins | server.rs 489-491, 573 |
| `Extracting`: a step of `extract_fields` | session.rs 263-299 |
| `ExtractionFails`: 422 | server.rs 574-606 |
| `GenerateProof`: reads the clock, signs | server.rs 608-614, session.rs 222-249 |
| `Answer`: the attestation, `created_at` at some time since, `expires_at` now | server.rs 616-648 |
| `AddNotary`: the relying party trusts a key | verifier lib.rs 128-138 |
| `Tick` | the clock, between any two steps |

Verification changes no state, so `VerifyProof` and `VerifyAttestation` are operators, check by
check in the code's order, and the properties ask for their verdict in every state on `Presented`,
proofs put together from fields of any issued proofs under any key, and on `PresentedAttestations`,
which nobody signs and which a client can therefore change: fields of any issued one, any expiry, none. Ed25519 is
ideal: a signature is the signer's key and the message, and the message the tuple of its
parts. `VerdictsOnlyAge` compares the verdicts on issued proofs under any key and attestations with any expiry, before and after each step: what a relying party
once decided changes only by expiry, or because it came to trust the notary. (Certificate hash and commitment have a fixed length, and a hostname has no zero
byte, so the separators do keep the parts apart.) The verifier's message is a definition of its
own, as its function is. Notaries and relying party read one clock, and it does not step back; `Utc::now` is the
wall clock, which may, and an expired claim is then valid once more.

## 3. The runs

| run | configuration | shows |
|---|---|---|
| `store` | `StoreLock`: 3 callers, 2 ids, capacity 1, fair | `CapacityRespected`, `ImplementsStore`, `EveryCallReturns` |
| `notary` | 3 requests, capacity 2 | `InFlightStored`, `ReplyFate`, `SlotsAccountedFor`, `PlaintextForCause`, `NotarizedAsAsked`, `EvictionDiscipline`, `ForwardOnly`, `RefusedForCause`, `LeaksAreForever`, `ImplementsAdmissionControl` |
| `notary_liveness` | 2 requests, capacity 1, fair | `EveryRequestEnds`, `OnlyUnmarkedLinger` |
| `slot_leak` | 3 requests, capacity 2 | `RefusedOnlyUnderLoad` is violated |
| `plaintext_kept` | 2 requests, capacity 2 | `PlaintextCleared` is violated |
| `fetch` | 2 requests, 2 tokens, 3 scopes of which 2 reach the target request | `NoCookieCrossing`, `DoubleSubmit` |
| `pipeline` | 2 notaries, 2 templates, 4 bodies, 2 masks, lifetime 1, clock to 2, 2 answers | `DisclosesAsMasked`, `HashesAsMasked`, `FailsForCause`, `IssuedMatchesBody`, `IssuedIsAccepted`, `VerifiedProofsWereIssued`, `VerdictsOnlyAge` |
| `redaction_lost` | the built-in template and its own mask | `RedactedLeaveHash` is violated |
| `disclosure_unchecked` | as `pipeline` | `DisclosureIntegrity` is violated |
| `startup` | 2 processes, 3 keys, 4 files, no overlap | `ServedKeyOnDisk`, `OneKeyServed`, `LookupsAllowed`, `BuiltinStays`, `FileWrittenOnce`, `KeepsIdentity` |
| `key_race` | 2 processes, overlap | `OneKeyServed` is violated |
| `key_crash` | 1 process | `FileIsSeed` is violated |

Each passing run but `notary_liveness` also checks a type invariant: its module's own, in `store` that
of the table.

*Why the bounds are enough.* Three requests on two slots is the least that has a
full table, a refusal, an eviction of one session while a second is in progress
and a third is being created, and late tasks of one request between the steps of
the others. In `store` one slot and two ids give both ways through `create`; two callers
are enough for a race, and the third waits behind or reads beside them. Two requests on one slot have all of this but the bystander, and keep the
liveness run small. There the templates cover found, not allowed and not registered;
the bodies not-found, lacking a field of one mask, and complete. Without overlap at
most one process is starting and one serving, so two processes have every case, and
three keys let two starts fail before one serves. The four files are a
newer version of the built-in template with another host, two of one id with different
hosts, and a broken one: each duplicate and each order of them happens. In
`pipeline` the second template has redacted fields, three fields of one name, and a
field below a value that is no object; the bodies have every field, lack some, have a null for a required one, or are no
JSON. A client may ask for the
other template's mask, which redacts a required field. Two answers let proofs and attestations
be mixed up; a lifetime of 1 on a clock to 2 has answers before, at and after the expiry, and
a tick inside a notarization. The third key, `short`, can be trusted and is no curve point. Two
tokens let one request have two, in one scope or in two, or each of two requests have one; with
three scopes there are two that reach the target request and one that does not. For the safety properties that hold, the theorems of
section 5 remove every bound.

*Symmetry.* Requests, tokens, the notaries of `pipeline` and (in the two violation runs of `KeyFile`) processes and
keys are interchangeable in the specifications and in the
properties; the symmetric runs check invariants and properties of single steps
only, never liveness.

*Deadlock* is not checked. A behaviour stops when every request has ended, or when every
key, token, notarization or tick allowed is used up, and the system is then idle, not stuck. That no handler is
stuck is `EveryRequestEnds`.

*Fairness.* In `store`, weak fairness of every caller that can go on (`Proceed`), and none of new
calls or of giving up; the queue is first come, first served, as tokio documents its lock. In
`notary_liveness`, weak fairness of every handler (`HandlerStep`) and of every spawned
task (`MarkFailed`): the tokio runtime polls what can run; the sleep ends; a fetch
ends at the latest with the client's 30 s timeout, in an error if nothing else;
critical sections are short and tokio's lock is fair. None is assumed of clients
(they need not send, nor hang up) nor of targets (which outcome a fetch has).

## 4. What disagrees with the repository's own words

1. **Slots leak** (`slot_leak`). A request answered 422, 500, or 502 for a broken body,
   or dropped by its client, leaves its session `Fetching` or `Committing`. The sweep
   keeps such sessions, and nothing reads `session_timeout_secs`; `max_sessions` of
   them and every request is refused with no work in progress. The shortest
   trace happens to use the 500 of a client that cannot be built; 422 for an unknown
   voter, the everyday case, does the same. `SlotsAccountedFor` and `OnlyUnmarkedLinger` show that
   these are all the ways to lose a slot; `SaturationIsFinal` that nothing but a restart gives one back.
2. **Plaintext stays** (`plaintext_kept`). `store_response` keeps the body and only
   `store_proof` drops it, so after a 422 it stays for the life of the process. `PlaintextForCause` says
   where else a body can be: nowhere after a 200, a 502 or an eviction.
3. **Two starts, two keys** (`key_race`). Existence check and write are separate:
   two starting processes each write a key, and the one served first is not the one on disk.
4. **Half-written key** (`key_crash`). A crash inside `fs::write` leaves a file that
   every later start panics on; it needs a human. (No *other* key is ever served
   because of it: `OneKeyServed` holds with crashes, and `BrokenFileIsFinal`.)
5. **Redacted fields leave no hash** (`redaction_lost`). The core crate says of `redacted_paths`
   "Their SHA-512 hashes will be included instead" (`zktls-core/src/lib.rs:121`). The
   loop visits the template's fields only. None of the ten redacted paths of the built-in
   template (main.rs 112-121) is one of its fields, so its attestations carry no hash at all.
   (`FittingMasksLeaveHashes`: with a mask whose redacted paths are fields the sentence is true.)
6. **Attestations are not tied to proofs** (`disclosure_unchecked`). The verifier's documentation
   promises "Disclosure integrity" and that it "confirms that the disclosed fields are
   consistent with the proof" (`zktls-verifier/src/lib.rs:14-18`; ARCHITECTURE.md:99). `verify_attestation` (188-217)
   verifies the proof and reads of the attestation its expiry alone; the attestation carries no
   signature. One with any fields and any expiry is accepted beside any valid proof: in the trace
   an attestation that says "Active" with the proof of a body whose status is null. What does
   hold: proofs are not forged (`VerifiedProofsAreIssued`), and a pair that was issued together agrees
   (`IssuedPairsAgree`); a relying party has the latter only if it knows the pair was.

One more sentence has no run, as it is about what a value is made of: the commitment is called "a Merkle
root over the transcript chunks" of "request + response" (`zktls-core/src/lib.rs:58-60`;
ARCHITECTURE.md:60, 120-124) and the certificate hash a hash "of the server's TLS certificate chain" (55).
The code hashes the response body, whole and unsalted (session.rs:229), and the
hostname (server.rs:470-473). Two bodies that differ anywhere have different commitments, also where
the mask discloses nothing; and nothing of a request is committed to. `Digest` models what the code does.

Nor is there a run for two of the verifier's checks that no code performs. Its documentation lists
"Required fields are present and match validation patterns" as check 4
(`zktls-verifier/src/lib.rs:112-116`), but `verify_attestation` looks at no field and has no template; the
notary asks only for the required fields that the mask in force discloses. So a client's mask that
leaves one out gets an attestation without it, and the verifier accepts it. (`ShownRequiredFieldsArePresent`:
with masks that disclose them the outcome of check 4 is sure.) The same header names template match among the
checks (lines 11-13); there is no code for it.

Not listed, because no text of the repository says otherwise: a GET template with a `CsrfConfig`
gets a token that only its cookie carries, as only the POST arm attaches the header; a token
set by a redirect goes out in the cookie and not in a header; header and cookie differ for a target
that sets its token for several scopes, or with an expiry; of two files with one id, a
restart may serve the other.

## 5. The theorems

All proofs are for arbitrary constants under the modules' named assumptions:
`SessionId` finite, `MaxSessions` a natural number, `None` not a value, the registry
and `ExtractFields` well typed; for the later modules, `None` is no call, job,
mask or time, and the notaries' keys are curve points.

*The table* (`SessionStoreProofs`). `StoreTypeCorrect`, `CapacityIsRespected` and
`EvictionIsDisciplined` hold for any callers. Capacity needs cardinalities: an
insertion adds at most one key to a swept table below capacity, and no other
operation adds a key.

*The lock* (`StoreLockProofs`). `OperationsAreAtomic` is the refinement, for any number of callers, and
`CapacityHoldsThroughout` the capacity between any two steps of `create`: whoever
may write is alone (`Guarded`), so only a `create` under way makes the table differ from what is
known of it, and then it is the sweep of that (`Halfway`). Each `Return` is a step of the
table, every other step a stutter.

*The handlers* (`NotaryProofs`). `InFlightStored` alone is not inductive: that an
eviction spares a running handler's session needs the session's state to match
the handler's `pc`; that a set-failed task writes only a session that is still
`Fetching` needs what is known of *ended* requests (`MarkedFate`); and that nobody
reads an unbound local needs `LocalsBound`. Together with the types they are `IInv`,
a conjunction over requests (`RequestInv`). A step of one request can touch another's
part only by evicting its finished session; `Frame` proves once that this
preserves `RequestInv`, `OthersUntouched` that no step does more, and one lemma per
action covers the request that moves. From `InvariantHolds` follow `TypeCorrect`,
`RunningHandlersKeepTheirSessions` and `RepliesMatchTheTable`. `NotaryUsesTheStore`
shows that the notary's steps are the table's (`Spec => StoreSpec`), which carries the
table's theorems over (`NotaryRespectsCapacity`, `NotaryEvictsWithDiscipline`). `SessionsMoveForward`
is the action property `ForwardOnly`. `AnswersAreAboutTheirRequests` adds `Asked` to `IInv`: what a
request was let in for, and that past `Commit` its body is no "not found".

*The refinement* (`AdmissionProofs`). `NotaryImplementsAdmission`: with `IInv`, each
action maps to `Admit`, `Refuse`, `Release` or a stutter. The one delicate step is a
`create` that evicts: the evicted requests keep their verdict because they
were answered, and `RoomMeansSlot` and `RefusedMeansNoSlot` relate the swept table to
the active sessions.

*Slots and plaintext* (`AdmissionProofs`). That every slot is accounted for follows from `IInv`: an active
session is of a running handler, of a failed fetch whose task is to come, or of an ended request
whose fate `Fates` names. `RefusalsHaveACause` adds that `create` sweeps before it
counts, so that a refusal finds only active sessions. For `LeaksAreForever` each action is shown to take no
leaked request back (its handler is gone, no task is pending, and the sweep spares its session); from there
`SaturationIsFinal` is the temporal form: from the moment leaks fill the table, for ever, no
admission. `PlaintextIsKeptForCause` is inductive with `IInv`.

*The fetch* (`FetchProofs`). The invariant ties each request to its own client and
jar (`OwnClient`) and its cookies and tokens to itself (`OwnTokens`), and says that as long as every cookie was
kept, and at one scope, the last token found is the one cookie there is unless that was
cleared (`LastToken`). `SetCookieEffect` is the one place where jars and owners change.
`CookiesDoNotCross` and `HeaderMatchesCookie` follow, for any scopes and any of them reaching the target.

*The key file* (`StartupProofs`). The types (`KeyTypesCorrect`) hold however starts overlap. The rest
assumes `~OverlappingStarts`, without which run `key_race` refutes it: the invariant adds
that at most one process is starting, that a process between check and write saw
no file and nobody has served yet, and that a served key is on disk. From it follow
`ServedKeyIsOnDisk`, `OneKeyIsServed`, the action property `FileIsWrittenOnce`, that a half-written
file is final (`BrokenFileIsFinal`), and the refinement `KeyFileKeepsIdentity`: `Bind` is `Up`, the end of
the serving process is `Down`, all else stutters.

*Extraction* (`ExtractionProofs`). The invariant `EInv` says that what the first `next - 1` fields
must have left is there (`LoopInv`), and why a call failed. `DisclosesOneMore` and
`HashesOneMore` are the step of the argument: what one more field adds. These theorems hold
whatever a path finds in a body. `ExtractionIsDetermined` adds that the descriptions leave no choice:
every disclosed name has a last field (`LastDisclosed`), and two increasing enumerations of one set of
fields are equal, so no other map and no other list fits. Both are inductions, done without an
induction theorem: `LeastNumber` (every set of numbers has a least one, from the library's
well-foundedness of finite sets) and a counterexample of least size that has none before it.

*The pipeline* (`PipelineProofs`). `PipelineExtracts` shows that its steps are those of `extract_fields`,
which carries the three extraction theorems over. The invariant `PInv` ties the job to the call
(`JobInv`) and remembers of every answer what held when it was given (`Answered`).
`OwnSignatureVerifies` is the agreement of the two signing messages, `SignatureBinds` that an ideal
signature fixes all that was signed; `IssuedClaimsAreAccepted` and
`VerifiedProofsAreIssued` rest on them, for any lifetime, clock and growth of the trust store.
`IssuedPairsAgree` takes from `IssuedMatchesBody` the part of `DisclosureIntegrity` that is true.
`VerdictsOnlyGetOlder` needs little of the invariant: trust and clock only grow
(`StepsOnlyAge`), and nothing else that a verdict reads ever changes (`VerdictAges`).

*Startup* (`StartupProofs`). `StartupImplementsKeyFile` carries the key theorems over to a whole start.
`MemoryInv` says what a process has loaded at which point; that the built-in template comes first makes
`get` find it whatever follows. These hold however starts overlap, since processes share nothing
but key file and address; `~OverlappingStarts` is assumed only by the theorems about the key, `StartupServesOneKey` and
`StartupKeepsIdentity`.

*Only model-checked*: liveness (`EveryRequestEnds`, `OnlyUnmarkedLinger`, `EveryCallReturns`), because
fairness and `ENABLED` are outside TLAPS's reach, and the violations. The library's induction
theorems, which take a predicate, are out of the installed provers' reach too; hence `LeastNumber`.

## 6. Not modelled, and why

- *`Fetch` as a refinement of `Notary`*: the steps of a fetch change no variable of `Notary`, they
  are stutters while `pc` is `fetch`, and how the fetch ends is left open there. A mapping would
  show no more than that `Fetch` sets no `Notary` variable.
- *The clocks of notary and relying party* are one clock that never steps back: the code has no
  tolerance to check.
- *`/health`, `/info`, `/session/{id}`* change no state; `/info` reports the size of
  `ActiveIds`, and `/session/{id}` a session without its `response_body`.
- *`field_type`, `validation_pattern`, `session_proof_id` and the attestation's id* are written and never read.
- *Header text and the User-Agent rotation*: nothing computed depends on them.
- *Logging, texts of errors, build files, packaging.*
- *Ed25519, SHA-512, `serde_json`, reqwest, tokio's lock* are external: ideal, or modelled from their use.
