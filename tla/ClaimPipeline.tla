---------------------------- MODULE ClaimPipeline ----------------------------
(***************************************************************************)
(* From a fetched body to a verified claim: a notary extracts the fields       *)
(* (FieldExtraction), signs a proof (zktls-notary/src/session.rs,              *)
(* generate_proof), builds the attestation (server.rs, notarize) and hands      *)
(* both out; a relying party checks them, now or later, against its trust        *)
(* store (zktls-verifier/src/lib.rs).                                           *)
(*                                                                          *)
(* One notarization at a time: between extraction and answer the handler        *)
(* touches nothing that others share, so how several interleave is left to       *)
(* Notary.  The clock may tick between any two of its steps.  Notaries and       *)
(* relying party read the same clock, and it never steps back: an assumption,     *)
(* for Utc::now is wall time, which may be set back.                              *)
(*                                                                          *)
(* Ed25519 is ideal: a signature is what was signed and the public key it was    *)
(* signed for, and verifies for these only.  A key pair is named by its public   *)
(* key.                                                                          *)
(***************************************************************************)
EXTENDS FieldExtraction, FiniteSets

CONSTANTS
    TemplateId,
    Template,       \* template id -> template
    PublicKey,      \* byte strings in a notary_public_key or a trust store
    ValidKey,       \* those that are 32 bytes and a curve point
    Notary,         \* the public keys of the notaries
    Lifetime,       \* of an attestation: 30 days
    MaxTime,        \* bound on the clock
    MaxIssued       \* bound on the notarizations

ASSUME PipelineAssumption ==
    /\ \A t \in TemplateId : Template[t].fields \in FieldList
    /\ Notary \subseteq ValidKey /\ ValidKey \subseteq PublicKey
    /\ Lifetime \in Nat /\ MaxTime \in Nat /\ MaxIssued \in Nat
    /\ None \notin Nat

VARIABLES
    now,        \* the clock
    job,        \* the notarization under way: notary, template, asked-for mask
    proof,      \* its proof, once there is one
    issued,     \* what the notaries have answered, and the body behind it
    trusted     \* Ed25519Verifier.trusted_notaries, by key

pvars == <<now, job, proof, issued, trusted>>
allvars == <<evars, pvars>>

------------------------------------------------------------------------------
(* Signing *)

Sep == "0x00"
Rfc3339(time) == [rfc3339 |-> time]

(* build_signing_message of session.rs.  The parts have a fixed length, or no    *)
(* zero byte, so the separators keep them apart.                                 *)
SigningMessage(host, certHash, commitment, timestamp) ==
    <<host, Sep, certHash, Sep, commitment, Sep, Rfc3339(timestamp)>>

(* NotaryKeyPair::sign *)
Sign(key, message) == [signer |-> key, message |-> message]

(* generate_proof *)
Proof(key, host, body, certHash, time) ==
    [server_hostname       |-> host,
     certificate_hash      |-> certHash,
     transcript_commitment |-> Sha512(body),
     notary_signature      |->
        Sign(key, SigningMessage(host, certHash, Sha512(body), time)),
     notary_public_key     |-> key,
     session_timestamp     |-> time,
     proof_timestamp       |-> time]

(* The attestation of a notarization that has been extracted: created_at and     *)
(* expires_at are two readings of the clock, the second at the answer.           *)
NewAttestation(created) ==
    [claim_type            |-> Template[job.template_id].claim_type,
     disclosed_fields      |-> disclosed,
     redacted_field_hashes |-> redacted_hashes,
     template_id           |-> job.template_id,
     created_at            |-> created,
     expires_at            |-> now + Lifetime]

------------------------------------------------------------------------------
(* Verifying *)

(* build_signing_message of the verifier, a function of its own. *)
VerifierSigningMessage(host, certHash, commitment, timestamp) ==
    <<host, Sep, certHash, Sep, commitment, Sep, Rfc3339(timestamp)>>

(* A fault: the verifier swaps the two hashes.  IssuedIsAccepted. *)
SignatureOverSwapped(p) ==
    p.notary_signature =
       Sign(p.notary_public_key,
            VerifierSigningMessage(p.server_hostname, p.transcript_commitment,
                                   p.certificate_hash, p.session_timestamp))

SignatureVerifies(p) ==
    p.notary_signature =
       Sign(p.notary_public_key,
            VerifierSigningMessage(p.server_hostname, p.certificate_hash,
                                   p.transcript_commitment,
                                   p.session_timestamp))

(* A fault: any key that parses is taken for a trusted one.                    *)
(* VerifiedProofsWereIssued.                                                      *)
VerifyProofUntrusting(p) ==
    CASE p.notary_public_key \notin ValidKey -> "invalid_public_key"
      [] p.notary_public_key \in ValidKey /\ ~SignatureVerifies(p)
            -> "invalid_signature"
      [] OTHER -> "verified"

(* verify_proof: the error of the first check that fails. *)
VerifyProof(p) ==
    CASE p.notary_public_key \notin trusted -> "untrusted_notary"
      [] p.notary_public_key \in trusted \ ValidKey -> "invalid_public_key"
      [] p.notary_public_key \in trusted \cap ValidKey /\ ~SignatureVerifies(p)
            -> "invalid_signature"
      [] OTHER -> "verified"

Expired(a) == a.expires_at # None /\ a.expires_at < now

(* verify_attestation: nothing but the expiry is asked of the attestation. *)
VerifyAttestation(a, p) ==
    IF VerifyProof(p) = "verified"
    THEN IF Expired(a) THEN "expired" ELSE "valid"
    ELSE VerifyProof(p)

(* What a relying party may be handed: proofs and attestations that were issued, *)
(* put together anew on their way through the client.  Every field of a proof is  *)
(* of some issued one, the key is any.  An attestation carries no signature, so    *)
(* that each of its fields, too, may be of any other, and its expiry any date or    *)
(* none.                                                                          *)
HeldProofs == {i.proof : i \in issued}
HeldAttestations == {i.attestation : i \in issued}

Presented ==
    [server_hostname       : {p.server_hostname : p \in HeldProofs},
     certificate_hash      : {p.certificate_hash : p \in HeldProofs},
     transcript_commitment : {p.transcript_commitment : p \in HeldProofs},
     notary_signature      : {p.notary_signature : p \in HeldProofs},
     notary_public_key     : PublicKey,
     session_timestamp     : {p.session_timestamp : p \in HeldProofs},
     proof_timestamp       : {p.proof_timestamp : p \in HeldProofs}]

ExpiryDate == 0..MaxTime + Lifetime

PresentedAttestations ==
    [claim_type            : {a.claim_type : a \in HeldAttestations},
     disclosed_fields      : {a.disclosed_fields : a \in HeldAttestations},
     redacted_field_hashes : {a.redacted_field_hashes : a \in HeldAttestations},
     template_id           : {a.template_id : a \in HeldAttestations},
     created_at            : {a.created_at : a \in HeldAttestations},
     expires_at            : ExpiryDate \cup {None}]

------------------------------------------------------------------------------
(* The steps *)

Job == [notary      : Notary,
        template_id : TemplateId,
        disclosure  : Disclosure \cup {None}]

(* The mask in force: the one the request asked for, or the template's default. *)
MaskOf(t, asked) == IF asked = None THEN Template[t].default_disclosure ELSE asked

ASSUME MaskAssumption ==
    /\ \A t \in TemplateId : Template[t].default_disclosure \in Disclosure
    /\ None \notin Job \cup Disclosure

ProofFor(j, body, time) ==
    Proof(j.notary, Template[j.template_id].hostname, body,
          CertHash(Template[j.template_id].hostname), time)

(* Every variable has its type; a call is under way for a job, and a proof is   *)
(* made of a call that returned.                                                 *)
PipelineTypeOK ==
    /\ ExtractTypeOK
    /\ now \in Nat
    /\ job \in Job \cup {None}
    /\ job = None <=> stage = "idle"
    /\ proof # None => stage = "extracted"
    /\ trusted \subseteq PublicKey

PipelineInit ==
    /\ ExtractInit
    /\ now = 0
    /\ job = None
    /\ proof = None
    /\ issued = {}
    /\ trusted = {}

(* A fault in Notarize: the mask of the request is ignored.  IssuedMatchesBody. *)
NotarizeByDefault(n, t, asked, b) ==
    /\ Cardinality(issued) < MaxIssued
    /\ Extract(b, Template[t].fields, Template[t].default_disclosure)
    /\ job' = [notary |-> n, template_id |-> t, disclosure |-> asked]
    /\ UNCHANGED <<now, proof, issued, trusted>>

(* A body has been fetched for a request and is extracted. *)
Notarize(n, t, asked, b) ==
    /\ Cardinality(issued) < MaxIssued
    /\ Extract(b, Template[t].fields, MaskOf(t, asked))
    /\ job' = [notary |-> n, template_id |-> t, disclosure |-> asked]
    /\ UNCHANGED <<now, proof, issued, trusted>>

Extracting == ExtractStep /\ UNCHANGED pvars

(* 422, nothing is issued. *)
ExtractionFails ==
    /\ stage = "failed"
    /\ Discard
    /\ job' = None
    /\ UNCHANGED <<now, proof, issued, trusted>>

GenerateProof ==
    /\ stage = "extracted"
    /\ proof = None
    /\ proof' = ProofFor(job, call.response_body, now)
    /\ UNCHANGED <<evars, now, job, issued, trusted>>

(* created_at was read at some time after the proof's. *)
Answer ==
    /\ proof # None
    /\ \E created \in proof.session_timestamp..now :
          issued' = issued \cup
             {[response_body |-> call.response_body,
               job           |-> job,
               proof         |-> proof,
               attestation   |-> NewAttestation(created),
               answered      |-> now]}
    /\ Discard
    /\ job' = None
    /\ proof' = None
    /\ UNCHANGED <<now, trusted>>

(* A fault in AddNotary: the new key takes the place of the others.               *)
(* VerdictsOnlyAge.                                                               *)
AddNotaryOnly(key) ==
    /\ key \notin trusted
    /\ trusted' = {key}
    /\ UNCHANGED <<evars, now, job, proof, issued>>

AddNotary(key) ==
    /\ key \notin trusted
    /\ trusted' = trusted \cup {key}
    /\ UNCHANGED <<evars, now, job, proof, issued>>

Tick ==
    /\ now < MaxTime
    /\ now' = now + 1
    /\ UNCHANGED <<evars, job, proof, issued, trusted>>

PipelineNext ==
    \/ \E n \in Notary, t \in TemplateId, asked \in Disclosure \cup {None},
          b \in Body : Notarize(n, t, asked, b)
    \/ Extracting
    \/ ExtractionFails
    \/ GenerateProof
    \/ Answer
    \/ \E key \in PublicKey : AddNotary(key)
    \/ Tick

PipelineSpec == PipelineInit /\ [][PipelineNext]_allvars

------------------------------------------------------------------------------
(* Properties *)

TemplateOf(i) == Template[i.attestation.template_id]

(* The call whose result an attestation carries. *)
CallOf(i) ==
    [response_body |-> i.response_body,
     fields        |-> TemplateOf(i).fields,
     disclosure    |-> MaskOf(i.job.template_id, i.job.disclosure)]

(* A proof and the attestation issued with it are of one body, from the          *)
(* template's host: the proof commits to that very body, and the attestation      *)
(* holds exactly what the mask the client asked for leaves of it, whatever was    *)
(* notarized before (the claim a relying party draws from both).                  *)
IssuedMatchesBody ==
    \A i \in issued :
       LET fields == i.attestation.disclosed_fields
           hashes == i.attestation.redacted_field_hashes
           n == Len(TemplateOf(i).fields)
       IN  /\ i.proof.transcript_commitment = Sha512(i.response_body)
           /\ i.proof.server_hostname = TemplateOf(i).hostname
           /\ Discloses(CallOf(i), n, fields)
           /\ Hashes(CallOf(i), n, hashes)
           /\ \A k \in 1..n : ~Missing(CallOf(i), k)

(* What a notary issues, a relying party that trusts its key accepts until the   *)
(* attestation expires, that instant included, and not a moment longer, however    *)
(* late it came to trust the key: the two signing messages "must match exactly"    *)
(* (zktls-verifier/src/lib.rs).                                                    *)
IssuedIsAccepted ==
    \A i \in issued : i.proof.notary_public_key \in trusted =>
       LET verdict == VerifyAttestation(i.attestation, i.proof)
       IN  /\ now <= i.attestation.created_at + Lifetime => verdict = "valid"
           /\ now > i.answered + Lifetime => verdict = "expired"

(* A proof that verifies was issued by the trusted notary it names, for the host,  *)
(* certificate, body and time it shows (proof_timestamp is not signed), however     *)
(* proofs are put together anew.  Of the attestation beside it this says nothing:   *)
(* see DisclosureIntegrity.                                                         *)
VerifiedProofsWereIssued ==
    \A p \in Presented : VerifyProof(p) = "verified" =>
       /\ p.notary_public_key \in Notary \cap trusted
       /\ \E q \in HeldProofs :
             /\ q.notary_public_key = p.notary_public_key
             /\ q.server_hostname = p.server_hostname
             /\ q.certificate_hash = p.certificate_hash
             /\ q.transcript_commitment = p.transcript_commitment
             /\ q.session_timestamp = p.session_timestamp

(* What a relying party made of a proof and an attestation stays so while time     *)
(* passes and its trust store grows: a valid claim can only expire, and a refusal   *)
(* is final unless the notary was not trusted yet.  Issued proofs under any key and  *)
(* issued attestations with any expiry are enough for every verdict there is.        *)
UnderAnyKey == {[p EXCEPT !.notary_public_key = key] :
                  p \in HeldProofs, key \in PublicKey}

WithAnyExpiry == {[a EXCEPT !.expires_at = date] :
                    a \in HeldAttestations, date \in ExpiryDate \cup {None}}

VerdictsOnlyAge ==
    [][ /\ issued \subseteq issued'
        /\ \A p \in UnderAnyKey, a \in WithAnyExpiry :
              \/ VerifyAttestation(a, p)' = VerifyAttestation(a, p)
              \/ VerifyAttestation(a, p) = "untrusted_notary"
              \/ /\ VerifyAttestation(a, p) = "valid"
                 /\ VerifyAttestation(a, p)' = "expired"
      ]_allvars

(* An accepted attestation shows only what is in a body that its proof commits to,  *)
(* or null for what is not: the verifier "confirms that the disclosed fields are      *)
(* consistent with the proof" (zktls-verifier/src/lib.rs, check 3).                   *)
ConsistentWith(a, p) ==
    \E b \in Body :
       LET c == [response_body |-> b, fields |-> Template[a.template_id].fields]
       IN  /\ p.transcript_commitment = Sha512(b)
           /\ \A name \in DOMAIN a.disclosed_fields :
                 \E k \in DOMAIN c.fields :
                    /\ c.fields[k].name = name
                    /\ a.disclosed_fields[name] = Shown(c, k)

DisclosureIntegrity ==
    \A p \in HeldProofs, a \in PresentedAttestations :
       VerifyAttestation(a, p) = "valid" => ConsistentWith(a, p)

(* An attestation that is accepted with its own proof has the template's required *)
(* fields: "Required fields are present and match validation patterns."           *)
(* (zktls-verifier/src/lib.rs, Ed25519Verifier, check 4).                          *)
AcceptedHasRequiredFields ==
    \A i \in issued :
       VerifyAttestation(i.attestation, i.proof) = "valid" =>
          \A k \in DOMAIN TemplateOf(i).fields :
             TemplateOf(i).fields[k].required =>
                TemplateOf(i).fields[k].name
                   \in DOMAIN i.attestation.disclosed_fields

==============================================================================
