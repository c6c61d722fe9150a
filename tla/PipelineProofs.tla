---------------------------- MODULE PipelineProofs ----------------------------
(***************************************************************************)
(* From a fetched body to a verified claim, for any number of notaries,        *)
(* templates, masks, bodies and notarizations, with ideal signatures and one     *)
(* clock.  What extraction contributes is taken over from ExtractionProofs:      *)
(* every step of the pipeline is a step of extract_fields or leaves it alone.    *)
(***************************************************************************)
EXTENDS ClaimPipeline, ExtractionProofs

(* The call under way is the job's, and its proof that of the job. *)
JobInv ==
    /\ job # None =>
          /\ call.fields = Template[job.template_id].fields
          /\ call.disclosure = MaskOf(job.template_id, job.disclosure)
    /\ proof # None =>
          \E time \in Nat : proof = ProofFor(job, call.response_body, time)

(* What is known of an answer for ever after. *)
Answered(i) ==
    /\ i.job \in Job /\ i.response_body \in Body
    /\ i.attestation.template_id = i.job.template_id
    /\ i.attestation.created_at \in Nat
    /\ i.answered \in Nat /\ i.attestation.created_at <= i.answered
    /\ "expires_at" \in DOMAIN i.attestation
    /\ i.attestation.expires_at = i.answered + Lifetime
    /\ \E time \in Nat : i.proof = ProofFor(i.job, i.response_body, time)
    /\ LET n == Len(TemplateOf(i).fields)
       IN  /\ Discloses(CallOf(i), n, i.attestation.disclosed_fields)
           /\ Hashes(CallOf(i), n, i.attestation.redacted_field_hashes)
           /\ \A k \in 1..n : ~Missing(CallOf(i), k)

PInv ==
    /\ PipelineTypeOK
    /\ EInv
    /\ JobInv
    /\ \A i \in issued : Answered(i)

LEMMA PipelineInitEstablishes == PipelineInit => PInv
<1>1. PipelineInit => ExtractInit  BY DEF PipelineInit
<1>2. PipelineInit => EInv  BY <1>1, ExtractInitEstablishes
<1>3. PipelineInit => PipelineTypeOK
  BY <1>2 DEF PipelineInit, ExtractInit, PipelineTypeOK, EInv
<1>4. PipelineInit => JobInv /\ \A i \in issued : Answered(i)
  BY DEF PipelineInit, JobInv
<1> QED  BY <1>2, <1>3, <1>4 DEF PInv

LEMMA MaskInForce ==
    ASSUME NEW t \in TemplateId, NEW asked \in Disclosure \cup {None}
    PROVE  Template[t].fields \in FieldList /\ MaskOf(t, asked) \in Disclosure
BY PipelineAssumption, MaskAssumption DEF MaskOf

(* The pipeline does with extract_fields only what extract_fields does. *)
LEMMA PipelineStepExtracts ==
    ASSUME [PipelineNext]_allvars
    PROVE  [ExtractNext]_evars
<1>1. ASSUME NEW n \in Notary, NEW t \in TemplateId,
             NEW asked \in Disclosure \cup {None}, NEW b \in Body,
             Notarize(n, t, asked, b)
      PROVE  ExtractNext
  BY <1>1, MaskInForce DEF Notarize, ExtractNext
<1>2. Extracting \/ ExtractionFails \/ Answer => ExtractNext
  BY DEF Extracting, ExtractionFails, Answer, ExtractNext
<1>3. GenerateProof \/ Tick \/ (\E key \in PublicKey : AddNotary(key))
      => UNCHANGED evars
  BY DEF GenerateProof, Tick, AddNotary
<1>4. UNCHANGED allvars => UNCHANGED evars  BY DEF allvars
<1> QED  BY <1>1, <1>2, <1>3, <1>4 DEF PipelineNext

THEOREM PipelineExtracts == PipelineSpec => ExtractSpec
<1>1. PipelineInit => ExtractInit  BY DEF PipelineInit
<1>2. [PipelineNext]_allvars => [ExtractNext]_evars  BY PipelineStepExtracts
<1> QED  BY <1>1, <1>2, PTL DEF PipelineSpec, ExtractSpec

(* Discarding a call leaves the state that has none. *)
LEMMA DiscardIsIdle ==
    Discard => stage' = "idle" /\ call' = None
BY DEF Discard

LEMMA PipelinePreserves ==
    ASSUME PInv, [PipelineNext]_allvars
    PROVE  PInv'
<1>e. EInv'
  BY PipelineStepExtracts, ExtractNextPreserves DEF PInv
<1>t. ExtractTypeOK'  BY <1>e DEF EInv
<1>1. ASSUME NEW n \in Notary, NEW t \in TemplateId,
             NEW asked \in Disclosure \cup {None}, NEW b \in Body,
             Notarize(n, t, asked, b)
      PROVE  PInv'
  <2> DEFINE j == [notary |-> n, template_id |-> t, disclosure |-> asked]
  <2>1. j \in Job /\ j # None  BY MaskAssumption DEF Job
  <2>2. /\ job' = j /\ stage' = "parse"
        /\ call'.fields = Template[t].fields
        /\ call'.disclosure = MaskOf(t, asked)
        /\ UNCHANGED <<now, proof, issued, trusted>>
    BY <1>1 DEF Notarize, Extract
  <2>3. proof = None
    BY <1>1 DEF Notarize, Extract, PInv, PipelineTypeOK
  <2>4. PipelineTypeOK'
    BY <1>t, <2>1, <2>2, <2>3 DEF PInv, PipelineTypeOK
  <2>5. JobInv'  BY <2>1, <2>2, <2>3 DEF JobInv
  <2>6. \A i \in issued' : Answered(i)  BY <2>2 DEF PInv
  <2> QED  BY <1>e, <2>4, <2>5, <2>6 DEF PInv, Answered, CallOf, TemplateOf
<1>2. CASE Extracting
  <2>1. UNCHANGED <<now, job, proof, issued, trusted, call>> /\ stage' # "idle"
    BY <1>2 DEF Extracting, pvars, ExtractStep, Parse, DiscloseValue, Disclose,
          NextField, AtField, MissingRequired, DiscloseNull, HashValue,
          SkipField, Return
  <2>2. stage # "idle" /\ stage # "extracted"
    BY <1>2 DEF Extracting, ExtractStep, Parse, DiscloseValue, AtField,
          MissingRequired, DiscloseNull, HashValue, SkipField, Return
  <2>3. PipelineTypeOK'  BY <1>t, <2>1, <2>2 DEF PInv, PipelineTypeOK
  <2>4. JobInv'  BY <2>1 DEF PInv, JobInv
  <2> QED  BY <1>e, <2>1, <2>3, <2>4 DEF PInv, Answered, CallOf, TemplateOf
<1>3. CASE ExtractionFails
  <2>1. /\ job' = None /\ stage' = "idle" /\ proof' = proof /\ proof = None
        /\ UNCHANGED <<now, issued, trusted>>
    BY <1>3, DiscardIsIdle DEF ExtractionFails, PInv, PipelineTypeOK
  <2>2. PipelineTypeOK'  BY <1>t, <2>1 DEF PInv, PipelineTypeOK
  <2>3. JobInv'  BY <2>1 DEF JobInv
  <2> QED  BY <1>e, <2>1, <2>2, <2>3 DEF PInv, Answered, CallOf, TemplateOf
<1>4. CASE GenerateProof
  <2>1. /\ stage = "extracted"
        /\ proof' = ProofFor(job, call.response_body, now)
        /\ UNCHANGED <<evars, now, job, issued, trusted>>
    BY <1>4 DEF GenerateProof
  <2>2. PipelineTypeOK'
    BY <1>t, <2>1 DEF PInv, PipelineTypeOK, evars
  <2>3. JobInv'
    BY <2>1 DEF PInv, PipelineTypeOK, JobInv, evars
  <2> QED  BY <1>e, <2>1, <2>2, <2>3 DEF PInv, Answered, CallOf, TemplateOf
<1>5. CASE Answer
  <2>0. PICK created \in proof.session_timestamp..now :
           issued' = issued \cup {[response_body |-> call.response_body,
                                  job           |-> job,
                                  proof         |-> proof,
                                  attestation   |-> NewAttestation(created),
                                  answered      |-> now]}
    BY <1>5 DEF Answer
  <2> DEFINE i0 == [response_body |-> call.response_body,
                    job           |-> job,
                    proof         |-> proof,
                    attestation   |-> NewAttestation(created),
                    answered      |-> now]
             n == Len(TemplateOf(i0).fields)
  <2>1. /\ proof # None /\ issued' = issued \cup {i0} /\ Discard
        /\ job' = None /\ proof' = None /\ UNCHANGED <<now, trusted>>
    BY <1>5, <2>0 DEF Answer
  <2>2. stage = "extracted" /\ job \in Job /\ job # None /\ call # None
    BY <2>1 DEF PInv, PipelineTypeOK, ExtractTypeOK
  <2>3. call \in Call  BY <2>2 DEF PInv, EInv, ExtractTypeOK
  <2>4. CallOf(i0) = call
    <3>1. call = [response_body |-> call.response_body, fields |-> call.fields,
                  disclosure |-> call.disclosure]
      BY <2>3 DEF Call
    <3> QED
      BY <3>1, <2>2 DEF PInv, JobInv, CallOf, TemplateOf, NewAttestation
  <2>5. n = next - 1 /\ n = Len(call.fields)
    <3>1. n = Len(call.fields)
      BY <2>2 DEF PInv, JobInv, TemplateOf, NewAttestation
    <3>2. next = Len(call.fields) + 1
      BY <2>2 DEF PInv, EInv, ExtractTypeOK
    <3> QED  BY <3>1, <3>2, <2>3, CallShape
  <2>6. /\ Discloses(call, n, disclosed) /\ Hashes(call, n, redacted_hashes)
        /\ \A k \in 1..n : ~Missing(call, k)
    BY <2>2, <2>5 DEF PInv, EInv, LoopInv
  <2>h. call.response_body \in Body  BY <2>3, CallShape
  <2>7. /\ i0.job = job /\ i0.proof = proof
        /\ i0.response_body = call.response_body
        /\ i0.attestation.template_id = job.template_id
        /\ i0.attestation.disclosed_fields = disclosed
        /\ i0.attestation.redacted_field_hashes = redacted_hashes
        /\ i0.attestation.created_at = created
        /\ "expires_at" \in DOMAIN i0.attestation
        /\ i0.attestation.expires_at = i0.answered + Lifetime
        /\ i0.answered = now
    BY DEF NewAttestation
  <2>8. now \in Nat  BY DEF PInv, PipelineTypeOK
  <2>9. \E time \in Nat : proof = ProofFor(job, call.response_body, time)
    BY <2>1 DEF PInv, JobInv
  <2>c. created \in Nat /\ created <= now
    <3>1. PICK time \in Nat : proof = ProofFor(job, call.response_body, time)
      BY <2>9
    <3>2. proof.session_timestamp = time  BY <3>1 DEF ProofFor, Proof
    <3> QED  BY <2>0, <2>8, <3>2
  <2> HIDE DEF i0
  <2>10. Answered(i0)
    BY <2>2, <2>4, <2>6, <2>7, <2>8, <2>9, <2>c, <2>h DEF Answered
  <2>11. \A i \in issued' : Answered(i)  BY <2>1, <2>10 DEF PInv
  <2>12. PipelineTypeOK'
    BY <1>t, <2>1, DiscardIsIdle DEF PInv, PipelineTypeOK
  <2>13. JobInv'  BY <2>1 DEF JobInv
  <2> QED  BY <1>e, <2>11, <2>12, <2>13 DEF PInv, Answered, CallOf, TemplateOf
<1>6. ASSUME NEW key \in PublicKey, AddNotary(key) PROVE PInv'
  <2>1. /\ UNCHANGED <<evars, now, job, proof, issued>>
        /\ trusted' = trusted \cup {key}
    BY <1>6 DEF AddNotary
  <2>2. PipelineTypeOK'  BY <1>t, <2>1 DEF PInv, PipelineTypeOK, evars
  <2>3. JobInv'  BY <2>1 DEF PInv, JobInv, evars
  <2> QED  BY <1>e, <2>1, <2>2, <2>3 DEF PInv, Answered, CallOf, TemplateOf
<1>7. CASE Tick
  <2>1. UNCHANGED <<evars, job, proof, issued, trusted>> /\ now' = now + 1
    BY <1>7 DEF Tick
  <2>2. PipelineTypeOK'  BY <1>t, <2>1 DEF PInv, PipelineTypeOK, evars
  <2>3. JobInv'  BY <2>1 DEF PInv, JobInv, evars
  <2> QED  BY <1>e, <2>1, <2>2, <2>3 DEF PInv, Answered, CallOf, TemplateOf
<1>8. CASE UNCHANGED allvars
  <2>1. UNCHANGED <<stage, call, now, job, proof, issued, trusted>>
    BY <1>8 DEF allvars, evars, pvars
  <2>2. PipelineTypeOK'  BY <1>t, <2>1 DEF PInv, PipelineTypeOK
  <2>3. JobInv'  BY <2>1 DEF PInv, JobInv
  <2> QED  BY <1>e, <2>1, <2>2, <2>3 DEF PInv, Answered, CallOf, TemplateOf
<1> QED
  BY <1>1, <1>2, <1>3, <1>4, <1>5, <1>6, <1>7, <1>8 DEF PipelineNext

THEOREM PipelineInvariantHolds == PipelineSpec => []PInv
<1>1. PInv /\ [PipelineNext]_allvars => PInv'  BY PipelinePreserves
<1> QED  BY <1>1, PipelineInitEstablishes, PTL DEF PipelineSpec

------------------------------------------------------------------------------
(* Verdicts *)

LEMMA VerifiedMeans ==
    ASSUME NEW p
    PROVE  VerifyProof(p) = "verified" <=>
              /\ p.notary_public_key \in trusted \cap ValidKey
              /\ SignatureVerifies(p)
BY DEF VerifyProof

LEMMA ValidMeans ==
    ASSUME NEW a, NEW p
    PROVE  VerifyAttestation(a, p) = "valid" <=>
              VerifyProof(p) = "verified" /\ ~Expired(a)
<1>1. VerifyProof(p) # "valid"  BY DEF VerifyProof
<1> QED  BY <1>1 DEF VerifyAttestation

(* The two signing messages agree, so a notary's proof verifies. *)
LEMMA OwnSignatureVerifies ==
    ASSUME NEW j, NEW body, NEW time
    PROVE  SignatureVerifies(ProofFor(j, body, time))
BY DEF SignatureVerifies, ProofFor, Proof, SigningMessage,
       VerifierSigningMessage

(* A signature fixes the signer and all that was signed. *)
LEMMA SignatureBinds ==
    ASSUME NEW p, SignatureVerifies(p), NEW j, NEW body, NEW time,
           p.notary_signature = ProofFor(j, body, time).notary_signature
    PROVE  LET q == ProofFor(j, body, time)
           IN  /\ q.notary_public_key = p.notary_public_key
               /\ q.server_hostname = p.server_hostname
               /\ q.certificate_hash = p.certificate_hash
               /\ q.transcript_commitment = p.transcript_commitment
               /\ q.session_timestamp = p.session_timestamp
               /\ p.notary_public_key = j.notary
<1> DEFINE q == ProofFor(j, body, time)
           mine == SigningMessage(q.server_hostname, q.certificate_hash,
                                  q.transcript_commitment, q.session_timestamp)
           theirs == VerifierSigningMessage(
                        p.server_hostname, p.certificate_hash,
                        p.transcript_commitment, p.session_timestamp)
<1>1. q.notary_signature = Sign(q.notary_public_key, mine)
  BY DEF ProofFor, Proof
<1>2. p.notary_signature = Sign(p.notary_public_key, theirs)
  BY DEF SignatureVerifies
<1>3. q.notary_public_key = p.notary_public_key /\ mine = theirs
  <2>1. /\ Sign(q.notary_public_key, mine).signer = q.notary_public_key
        /\ Sign(q.notary_public_key, mine).message = mine
        /\ Sign(p.notary_public_key, theirs).signer = p.notary_public_key
        /\ Sign(p.notary_public_key, theirs).message = theirs
    BY DEF Sign
  <2> QED  BY <1>1, <1>2, <2>1
<1>4. /\ mine[1] = q.server_hostname /\ theirs[1] = p.server_hostname
      /\ mine[3] = q.certificate_hash /\ theirs[3] = p.certificate_hash
      /\ mine[5] = q.transcript_commitment
      /\ theirs[5] = p.transcript_commitment
      /\ mine[7].rfc3339 = q.session_timestamp
      /\ theirs[7].rfc3339 = p.session_timestamp
  BY DEF SigningMessage, VerifierSigningMessage, Rfc3339
<1>5. q.notary_public_key = j.notary  BY DEF ProofFor, Proof
<1> QED  BY <1>3, <1>4, <1>5

LEMMA IssuedFacts ==
    ASSUME NEW i, Answered(i)
    PROVE  /\ i.job \in Job
           /\ i.proof.transcript_commitment = Sha512(i.response_body)
           /\ i.proof.server_hostname = TemplateOf(i).hostname
           /\ i.proof.notary_public_key = i.job.notary
           /\ i.proof.notary_public_key \in Notary
           /\ SignatureVerifies(i.proof)
<1>1. PICK time \in Nat : i.proof = ProofFor(i.job, i.response_body, time)
  BY DEF Answered
<1>2. i.job \in Job /\ i.job.notary \in Notary  BY DEF Answered, Job
<1>3. SignatureVerifies(i.proof)  BY <1>1, OwnSignatureVerifies
<1>4. /\ i.proof.transcript_commitment = Sha512(i.response_body)
      /\ i.proof.server_hostname = Template[i.job.template_id].hostname
      /\ i.proof.notary_public_key = i.job.notary
  BY <1>1 DEF ProofFor, Proof
<1> QED  BY <1>2, <1>3, <1>4 DEF Answered, TemplateOf

LEMMA AnsweredTimes ==
    ASSUME NEW i, Answered(i)
    PROVE  /\ i.attestation.created_at \in Nat
           /\ i.answered \in Nat /\ i.attestation.created_at <= i.answered
           /\ i.attestation.expires_at = i.answered + Lifetime
           /\ i.attestation.expires_at \in Nat
<1>1. /\ i.attestation.created_at \in Nat
      /\ i.answered \in Nat /\ i.attestation.created_at <= i.answered
      /\ i.attestation.expires_at = i.answered + Lifetime
  BY DEF Answered
<1> QED  BY <1>1, PipelineAssumption

LEMMA PInvSuffices ==
    PInv => /\ PipelineTypeOK
            /\ IssuedMatchesBody
            /\ IssuedIsAccepted
            /\ VerifiedProofsWereIssued
<1> SUFFICES ASSUME PInv
             PROVE  /\ PipelineTypeOK
                    /\ IssuedMatchesBody
                    /\ IssuedIsAccepted
                    /\ VerifiedProofsWereIssued
  OBVIOUS
<1>1. PipelineTypeOK /\ now \in Nat  BY DEF PInv, PipelineTypeOK
<1>2. \A i \in issued : Answered(i)  BY DEF PInv
<1>3. IssuedMatchesBody
  BY <1>2, IssuedFacts DEF IssuedMatchesBody, Answered
<1>4. IssuedIsAccepted
  <2> SUFFICES ASSUME NEW i \in issued, i.proof.notary_public_key \in trusted
               PROVE  LET verdict == VerifyAttestation(i.attestation, i.proof)
                      IN  /\ now <= i.attestation.created_at + Lifetime
                             => verdict = "valid"
                          /\ now > i.answered + Lifetime => verdict = "expired"
    BY DEF IssuedIsAccepted
  <2>1. i.proof.notary_public_key \in ValidKey /\ SignatureVerifies(i.proof)
    BY <1>2, IssuedFacts, PipelineAssumption
  <2>2. VerifyProof(i.proof) = "verified"  BY <2>1, VerifiedMeans
  <2>3. ASSUME now <= i.attestation.created_at + Lifetime
        PROVE  ~Expired(i.attestation)
    BY <1>1, <1>2, <2>3, AnsweredTimes, PipelineAssumption DEF Expired
  <2>4. ASSUME now > i.answered + Lifetime PROVE Expired(i.attestation)
    BY <1>1, <1>2, <2>4, AnsweredTimes, PipelineAssumption DEF Expired
  <2> QED  BY <2>2, <2>3, <2>4 DEF VerifyAttestation
<1>5. VerifiedProofsWereIssued
  <2> SUFFICES ASSUME NEW p \in Presented, VerifyProof(p) = "verified"
               PROVE  /\ p.notary_public_key \in Notary \cap trusted
                      /\ \E q \in HeldProofs :
                            /\ q.notary_public_key = p.notary_public_key
                            /\ q.server_hostname = p.server_hostname
                            /\ q.certificate_hash = p.certificate_hash
                            /\ q.transcript_commitment = p.transcript_commitment
                            /\ q.session_timestamp = p.session_timestamp
    BY DEF VerifiedProofsWereIssued
  <2>1. p.notary_public_key \in trusted /\ SignatureVerifies(p)
    BY VerifiedMeans
  <2>2. PICK i \in issued : p.notary_signature = i.proof.notary_signature
    BY DEF Presented, HeldProofs
  <2>3. PICK time \in Nat : i.proof = ProofFor(i.job, i.response_body, time)
    BY <1>2 DEF Answered
  <2>4. /\ i.proof \in HeldProofs
        /\ i.proof.notary_public_key = p.notary_public_key
        /\ i.proof.server_hostname = p.server_hostname
        /\ i.proof.certificate_hash = p.certificate_hash
        /\ i.proof.transcript_commitment = p.transcript_commitment
        /\ i.proof.session_timestamp = p.session_timestamp
    BY <2>1, <2>2, <2>3, SignatureBinds DEF HeldProofs
  <2>5. p.notary_public_key \in Notary  BY <1>2, <2>4, IssuedFacts
  <2> QED  BY <2>1, <2>4, <2>5
<1> QED  BY <1>1, <1>3, <1>4, <1>5

(* As issued, an attestation shows what is in the body its proof commits to: each  *)
(* name it shows has a last disclosed field.                                        *)
LEMMA IssuedPairAgrees ==
    ASSUME NEW i, Answered(i)
    PROVE  ConsistentWith(i.attestation, i.proof)
<1> DEFINE map == i.attestation.disclosed_fields
           c == CallOf(i)
           n == Len(c.fields)
           bare == [response_body |-> i.response_body,
                    fields |-> Template[i.attestation.template_id].fields]
<1>1. /\ c.fields = TemplateOf(i).fields /\ bare.fields = c.fields
      /\ bare.response_body = c.response_body
  BY DEF CallOf, TemplateOf
<1>2. n \in Nat /\ DOMAIN c.fields = 1..n
  <2>1. TemplateOf(i).fields \in FieldList
    BY PipelineAssumption DEF Answered, Job, TemplateOf
  <2> QED  BY <1>1, <2>1, InputAssumption
<1>3. Discloses(c, n, map)  BY <1>1 DEF Answered
<1>4. \A k : Shown(bare, k) = Shown(c, k)
  BY <1>1 DEF Shown, Found, Value
<1> HIDE DEF map, c, n, bare
<1>5. ASSUME NEW name \in DOMAIN map
      PROVE  \E k \in DOMAIN bare.fields :
                bare.fields[k].name = name /\ map[name] = Shown(bare, k)
  <2>1. PICK k \in 1..n : /\ IsDisclosed(c, k) /\ ~Overridden(c, k, n)
                          /\ c.fields[k].name = name
    BY <1>2, <1>3, LastDisclosed
  <2>2. map[name] = Shown(c, k)  BY <1>3, <2>1 DEF Discloses
  <2> QED  BY <1>1, <1>2, <1>4, <2>1, <2>2
<1>6. i.response_body \in Body  BY DEF Answered
<1>7. i.proof.transcript_commitment = Sha512(i.response_body)  BY IssuedFacts
<1> QED  BY <1>5, <1>6, <1>7 DEF ConsistentWith, bare, map

(* Nothing else is read of a proof and an attestation than the trust store, the   *)
(* clock and what never changes.                                                   *)
LEMMA VerdictAges ==
    ASSUME NEW a, NEW p, a.expires_at = None \/ a.expires_at \in Nat,
           now \in Nat, now' \in Nat, now <= now', trusted \subseteq trusted'
    PROVE  \/ VerifyAttestation(a, p)' = VerifyAttestation(a, p)
           \/ VerifyAttestation(a, p) = "untrusted_notary"
           \/ /\ VerifyAttestation(a, p) = "valid"
              /\ VerifyAttestation(a, p)' = "expired"
<1>1. SignatureVerifies(p)' <=> SignatureVerifies(p)
  BY DEF SignatureVerifies
<1>2. Expired(a) => Expired(a)'  BY DEF Expired
<1>3. CASE p.notary_public_key \notin trusted
  BY <1>3 DEF VerifyAttestation, VerifyProof
<1>4. CASE p.notary_public_key \in trusted \ ValidKey
  <2>1. VerifyProof(p) = "invalid_public_key"
    BY <1>4 DEF VerifyProof
  <2>2. VerifyProof(p)' = "invalid_public_key"
    BY <1>4 DEF VerifyProof
  <2> QED  BY <2>1, <2>2 DEF VerifyAttestation
<1>5. CASE p.notary_public_key \in trusted \cap ValidKey /\ ~SignatureVerifies(p)
  <2>1. VerifyProof(p) = "invalid_signature"
    BY <1>5 DEF VerifyProof
  <2>2. VerifyProof(p)' = "invalid_signature"
    BY <1>5, <1>1 DEF VerifyProof
  <2> QED  BY <2>1, <2>2 DEF VerifyAttestation
<1>6. CASE p.notary_public_key \in trusted \cap ValidKey /\ SignatureVerifies(p)
  <2>1. VerifyProof(p) = "verified"
    BY <1>6 DEF VerifyProof
  <2>2. VerifyProof(p)' = "verified"
    BY <1>6, <1>1 DEF VerifyProof
  <2> QED  BY <1>2, <2>1, <2>2 DEF VerifyAttestation
<1> QED  BY <1>3, <1>4, <1>5, <1>6

LEMMA StepsOnlyAge ==
    ASSUME PInv, [PipelineNext]_allvars
    PROVE  /\ issued \subseteq issued' /\ trusted \subseteq trusted'
           /\ now \in Nat /\ now' \in Nat /\ now <= now'
<1>1. now \in Nat  BY DEF PInv, PipelineTypeOK
<1>2. /\ issued \subseteq issued' /\ trusted \subseteq trusted'
      /\ now' = now \/ now' = now + 1
  BY DEF PipelineNext, Notarize, Extracting, ExtractionFails, GenerateProof,
         Answer, AddNotary, Tick, allvars, pvars
<1> QED  BY <1>1, <1>2

LEMMA VerdictsStep ==
    ASSUME PInv, [PipelineNext]_allvars,
           NEW p, NEW a \in WithAnyExpiry
    PROVE  \/ VerifyAttestation(a, p)' = VerifyAttestation(a, p)
           \/ VerifyAttestation(a, p) = "untrusted_notary"
           \/ /\ VerifyAttestation(a, p) = "valid"
              /\ VerifyAttestation(a, p)' = "expired"
<1>1. PICK i \in issued, date \in ExpiryDate \cup {None} :
         a = [i.attestation EXCEPT !.expires_at = date]
  BY DEF WithAnyExpiry, HeldAttestations
<1>2. a.expires_at = None \/ a.expires_at \in Nat
  <2>1. a.expires_at = date
    BY <1>1 DEF PInv, Answered
  <2>2. ExpiryDate \subseteq Nat  BY PipelineAssumption DEF ExpiryDate
  <2> QED  BY <2>1, <2>2
<1> QED  BY <1>2, StepsOnlyAge, VerdictAges

------------------------------------------------------------------------------
(* Results *)

(* Every step finds the job, the call and the proof it works on. *)
THEOREM PipelineTypesCorrect == PipelineSpec => []PipelineTypeOK
BY PipelineInvariantHolds, PInvSuffices, PTL

(* What is issued is what the mask leaves of the body the proof commits to. *)
THEOREM IssuedClaimsMatch == PipelineSpec => []IssuedMatchesBody
BY PipelineInvariantHolds, PInvSuffices, PTL

(* What is issued by a trusted notary is accepted until it expires. *)
THEOREM IssuedClaimsAreAccepted == PipelineSpec => []IssuedIsAccepted
BY PipelineInvariantHolds, PInvSuffices, PTL

(* A proof that verifies was issued by a trusted notary, in all its signed parts,  *)
(* whatever it was put together from.                                              *)
THEOREM VerifiedProofsAreIssued == PipelineSpec => []VerifiedProofsWereIssued
BY PipelineInvariantHolds, PInvSuffices, PTL

(* What DisclosureIntegrity says of every accepted pair, which no check ensures, is   *)
(* true of a proof and the attestation issued with it: it takes a client that keeps   *)
(* them together.                                                                     *)
THEOREM IssuedPairsAgree ==
    PipelineSpec => [](\A i \in issued : ConsistentWith(i.attestation, i.proof))
<1>1. PInv => \A i \in issued : ConsistentWith(i.attestation, i.proof)
  BY IssuedPairAgrees DEF PInv
<1> QED  BY <1>1, PipelineInvariantHolds, PTL

(* Whatever the proof and the expiry date, and however the trust store grows: a    *)
(* valid claim only expires, and a refusal stands unless the notary was not trusted *)
(* yet.                                                                            *)
THEOREM VerdictsOnlyGetOlder == PipelineSpec => VerdictsOnlyAge
<1>1. PInv /\ [PipelineNext]_allvars =>
         [ /\ issued \subseteq issued'
           /\ \A p \in UnderAnyKey, a \in WithAnyExpiry :
                 \/ VerifyAttestation(a, p)' = VerifyAttestation(a, p)
                 \/ VerifyAttestation(a, p) = "untrusted_notary"
                 \/ /\ VerifyAttestation(a, p) = "valid"
                    /\ VerifyAttestation(a, p)' = "expired" ]_allvars
  BY StepsOnlyAge, VerdictsStep
<1> QED  BY <1>1, PipelineInvariantHolds, PTL DEF PipelineSpec, VerdictsOnlyAge

(* Every required field of what was issued is disclosed by its mask. *)
MasksShowRequired ==
    \A i \in issued : \A k \in DOMAIN TemplateOf(i).fields :
       TemplateOf(i).fields[k].required => IsDisclosed(CallOf(i), k)

(* The verifier's documented fourth check is not made, but its outcome is sure as   *)
(* long as clients' masks disclose the required fields.                             *)
THEOREM ShownRequiredFieldsArePresent ==
    PipelineSpec => [](MasksShowRequired => AcceptedHasRequiredFields)
<1>1. ASSUME PInv, MasksShowRequired PROVE AcceptedHasRequiredFields
  <2> SUFFICES ASSUME NEW i \in issued,
                      NEW k \in DOMAIN TemplateOf(i).fields,
                      TemplateOf(i).fields[k].required
               PROVE  TemplateOf(i).fields[k].name
                         \in DOMAIN i.attestation.disclosed_fields
    BY DEF AcceptedHasRequiredFields
  <2> DEFINE n == Len(TemplateOf(i).fields)
  <2>1. Answered(i)  BY <1>1 DEF PInv
  <2>2. k \in 1..n
    <3>1. TemplateOf(i).fields \in FieldList
      BY <2>1, PipelineAssumption DEF Answered, Job, TemplateOf
    <3> QED  BY <3>1, InputAssumption
  <2>3. IsDisclosed(CallOf(i), k)  BY <1>1 DEF MasksShowRequired
  <2>4. DOMAIN i.attestation.disclosed_fields =
           {CallOf(i).fields[m].name : m \in {j \in 1..n : IsDisclosed(CallOf(i), j)}}
    BY <2>1 DEF Answered, Discloses
  <2>5. CallOf(i).fields = TemplateOf(i).fields  BY DEF CallOf
  <2> QED  BY <2>2, <2>3, <2>4, <2>5
<1> QED  BY <1>1, PipelineInvariantHolds, PTL

(* The exactness of extraction and of its errors carries over. *)
THEOREM PipelineExtractsExactly ==
    PipelineSpec => [](DisclosesAsMasked /\ HashesAsMasked /\ FailsForCause)
BY PipelineExtracts, DisclosureIsExact, RedactionIsExact, ErrorsHaveCauses, PTL

==============================================================================
