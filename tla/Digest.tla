-------------------------------- MODULE Digest --------------------------------
(***************************************************************************)
(* SHA-512 as the code relies on it (zktls-core/src/lib.rs): a digest is a    *)
(* tagged copy of what was hashed, so two are equal exactly when their         *)
(* inputs are.                                                                *)
(***************************************************************************)

(* sha512_hash *)
Sha512(data) == [sha512 |-> data]

(* The stand-in certificate fingerprint: the hash of "tls-cert:" + host. *)
CertHash(host) == Sha512(<<"tls-cert", host>>)

==============================================================================
