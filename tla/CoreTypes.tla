------------------------------ MODULE CoreTypes ------------------------------
(***************************************************************************)
(* The records that the notary's handlers put into the session table          *)
(* (zktls-core/src/lib.rs), with their data abstracted to what the             *)
(* properties of the table and the handlers tell apart.                        *)
(*                                                                          *)
(* A body, a hostname, a template id and an extraction (the pair of         *)
(* disclosed fields and redacted hashes) are opaque values.  Timestamps,       *)
(* the signature and the public key of a proof are functions of the rest       *)
(* and of the one key a notary process holds; ClaimPipeline has them, and       *)
(* FieldExtraction has what an extraction is.                                  *)
(***************************************************************************)
EXTENDS Digest

CONSTANTS
    SessionId,      \* the UUIDs drawn for sessions
    TemplateId,     \* what a request may name as its template
    Hostname,       \* target hosts
    Body,           \* response bodies a target may send
    Extraction,     \* results of extract_fields: disclosed fields + hashes
    None            \* the absence of a value (Option::None, a missing key)

SessionProof ==
    [server_hostname       : Hostname,
     certificate_hash      : {CertHash(h) : h \in Hostname},
     transcript_commitment : {Sha512(b) : b \in Body}]

Attestation ==
    [session_proof_id : SessionId,
     template_id      : TemplateId,
     extraction       : Extraction]

==============================================================================
