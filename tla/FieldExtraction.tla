--------------------------- MODULE FieldExtraction ---------------------------
(***************************************************************************)
(* extract_fields (zktls-notary/src/session.rs): what a notary makes of the    *)
(* body it fetched.  One call at a time, a loop over the template's fields      *)
(* in their order; it shares nothing with other calls.                          *)
(*                                                                          *)
(* A JSON value is a record: an object has members, a function from keys to     *)
(* values; anything else (an array too) only has to be told from an object,     *)
(* because get(segment) of it finds nothing.                                    *)
(***************************************************************************)
EXTENDS Digest, Templates

CONSTANTS
    Body,           \* response bodies
    Parsed,         \* body -> the JSON value it holds, None if it is no JSON
    Path,           \* JSON paths
    FieldName,
    FieldList,      \* the fields of some template, in order
    Disclosure,     \* disclosure masks
    None            \* no value, no call

ASSUME InputAssumption ==
    /\ FieldList \subseteq Seq(FieldDefinition(FieldName, Path))
    /\ Disclosure \subseteq DisclosureMask(Path)
    /\ \A b \in Body, fs \in FieldList, m \in Disclosure :
          None # [response_body |-> b, fields |-> fs, disclosure |-> m]

VARIABLES
    stage,              \* where the call is
    call,               \* its arguments
    next,               \* the field the loop looks at next
    disclosed,          \* field name -> value
    redacted_hashes

evars == <<stage, call, next, disclosed, redacted_hashes>>

Null == [json |-> "null"]

Member(value, key) ==
    IF value # None /\ value.json = "object" /\ key \in DOMAIN value.members
    THEN value.members[key] ELSE None

(* navigate_json_path: segment by segment, None as soon as one is missing. *)
Navigate(root, path) ==
    LET current[k \in 0..Len(path)] ==
            IF k = 0 THEN root ELSE Member(current[k - 1], path[k])
    IN current[Len(path)]

Value(c, k) == Navigate(Parsed[c.response_body], c.fields[k].json_path)
Found(c, k) == Value(c, k) # None

(* A path in both masks is disclosed. *)
IsDisclosed(c, k) == c.fields[k].json_path \in c.disclosure.disclosed_paths
IsRedacted(c, k) ==
    ~IsDisclosed(c, k) /\ c.fields[k].json_path \in c.disclosure.redacted_paths

(* The hash of "path:value". *)
FieldHash(c, k) == Sha512(<<c.fields[k].json_path, Value(c, k)>>)

(* HashMap::insert *)
Insert(map, key, value) ==
    [k \in DOMAIN map \cup {key} |-> IF k = key THEN value ELSE map[k]]

NoFields == [n \in {} |-> Null]

Call == [response_body : Body, fields : FieldList, disclosure : Disclosure]

(* Every variable has its type, and a call that returns has seen every field. *)
ExtractTypeOK ==
    /\ stage \in {"idle", "parse", "loop", "extracted", "failed"}
    /\ call \in Call \cup {None}
    /\ stage = "idle" <=> call = None
    /\ next \in Nat \ {0}
    /\ call = None =>
          next = 1 /\ disclosed = NoFields /\ redacted_hashes = <<>>
    /\ call # None =>
          /\ next <= Len(call.fields) + 1
          /\ redacted_hashes \in
                Seq({FieldHash(call, k) : k \in DOMAIN call.fields})
    /\ stage = "extracted" => next = Len(call.fields) + 1

ExtractInit ==
    /\ stage = "idle"
    /\ call = None
    /\ next = 1
    /\ disclosed = NoFields
    /\ redacted_hashes = <<>>

------------------------------------------------------------------------------
(* The call *)

Extract(b, fs, m) ==
    /\ stage = "idle"
    /\ stage' = "parse"
    /\ call' = [response_body |-> b, fields |-> fs, disclosure |-> m]
    /\ UNCHANGED <<next, disclosed, redacted_hashes>>

(* serde_json::from_str, or an error. *)
Parse ==
    /\ stage = "parse"
    /\ stage' = IF Parsed[call.response_body] = None THEN "failed" ELSE "loop"
    /\ UNCHANGED <<call, next, disclosed, redacted_hashes>>

AtField == stage = "loop" /\ next <= Len(call.fields)

NextField ==
    /\ next' = next + 1
    /\ UNCHANGED <<stage, call>>

Disclose(value) ==
    /\ disclosed' = Insert(disclosed, call.fields[next].name, value)
    /\ NextField
    /\ UNCHANGED redacted_hashes

(* A fault in DiscloseValue: the first of two fields of one name is kept, as     *)
(* with HashMap::entry.  DisclosesAsMasked.                                      *)
DiscloseFirst ==
    /\ AtField
    /\ IsDisclosed(call, next)
    /\ Found(call, next)
    /\ IF call.fields[next].name \in DOMAIN disclosed
       THEN NextField /\ UNCHANGED <<disclosed, redacted_hashes>>
       ELSE Disclose(Value(call, next))

(* One round of the loop.  A disclosed field that the body has. *)
DiscloseValue ==
    /\ AtField
    /\ IsDisclosed(call, next)
    /\ Found(call, next)
    /\ Disclose(Value(call, next))

(* A fault in MissingRequired: the error does not end the loop.  FailsForCause.  *)
RequiredSkipped ==
    /\ AtField
    /\ IsDisclosed(call, next)
    /\ ~Found(call, next)
    /\ call.fields[next].required
    /\ NextField
    /\ UNCHANGED <<disclosed, redacted_hashes>>

(* A disclosed field that the body lacks: an error, or null if it is optional. *)
MissingRequired ==
    /\ AtField
    /\ IsDisclosed(call, next)
    /\ ~Found(call, next)
    /\ call.fields[next].required
    /\ stage' = "failed"
    /\ UNCHANGED <<call, next, disclosed, redacted_hashes>>

DiscloseNull ==
    /\ AtField
    /\ IsDisclosed(call, next)
    /\ ~Found(call, next)
    /\ ~call.fields[next].required
    /\ Disclose(Null)

(* A fault in HashValue: a field the body lacks is hashed too.  HashesAsMasked. *)
HashMissingToo ==
    /\ AtField
    /\ IsRedacted(call, next)
    /\ redacted_hashes' = Append(redacted_hashes, FieldHash(call, next))
    /\ NextField
    /\ UNCHANGED disclosed

(* A redacted field that the body has. *)
HashValue ==
    /\ AtField
    /\ IsRedacted(call, next)
    /\ Found(call, next)
    /\ redacted_hashes' = Append(redacted_hashes, FieldHash(call, next))
    /\ NextField
    /\ UNCHANGED disclosed

(* A field in neither mask, or redacted and not in the body, leaves nothing. *)
SkipField ==
    /\ AtField
    /\ ~IsDisclosed(call, next)
    /\ ~(IsRedacted(call, next) /\ Found(call, next))
    /\ NextField
    /\ UNCHANGED <<disclosed, redacted_hashes>>

(* A fault in Return: the last field is never looked at.  PipelineTypeOK. *)
ReturnEarly ==
    /\ stage = "loop"
    /\ next >= Len(call.fields)
    /\ stage' = "extracted"
    /\ UNCHANGED <<call, next, disclosed, redacted_hashes>>

Return ==
    /\ stage = "loop"
    /\ next > Len(call.fields)
    /\ stage' = "extracted"
    /\ UNCHANGED <<call, next, disclosed, redacted_hashes>>

ExtractStep ==
    \/ Parse
    \/ DiscloseValue
    \/ MissingRequired
    \/ DiscloseNull
    \/ HashValue
    \/ SkipField
    \/ Return

(* The caller is through with the result. *)
Discard ==
    /\ stage \in {"extracted", "failed"}
    /\ stage' = "idle"
    /\ call' = None
    /\ next' = 1
    /\ disclosed' = NoFields
    /\ redacted_hashes' = <<>>

ExtractNext ==
    \/ \E b \in Body, fs \in FieldList, m \in Disclosure : Extract(b, fs, m)
    \/ ExtractStep
    \/ Discard

ExtractSpec == ExtractInit /\ [][ExtractNext]_evars

------------------------------------------------------------------------------
(* What the first n fields of a call must have left, said without the loop *)

(* Among the first n, the last disclosed field of each name gives its value,   *)
(* null where the body has none; there is nothing else in the map.              *)
Shown(c, k) == IF Found(c, k) THEN Value(c, k) ELSE Null

Overridden(c, k, n) ==
    \E j \in k + 1..n : IsDisclosed(c, j) /\ c.fields[j].name = c.fields[k].name

Discloses(c, n, map) ==
    /\ DOMAIN map = {c.fields[k].name : k \in {j \in 1..n : IsDisclosed(c, j)}}
    /\ \A k \in 1..n :
          IsDisclosed(c, k) /\ ~Overridden(c, k, n)
          => map[c.fields[k].name] = Shown(c, k)

(* The hashes are those of the redacted fields the body has, each once, in the  *)
(* template's order: position says which field each hash is of.                 *)
Hashes(c, n, hashes) ==
    \E position \in [1..Len(hashes) -> 1..n] :
       /\ \A i, j \in 1..Len(hashes) : i < j => position[i] < position[j]
       /\ {position[j] : j \in 1..Len(hashes)} =
             {k \in 1..n : IsRedacted(c, k) /\ Found(c, k)}
       /\ \A j \in 1..Len(hashes) : hashes[j] = FieldHash(c, position[j])

------------------------------------------------------------------------------
(* Properties *)

(* What is disclosed is exactly what the mask discloses of the template's       *)
(* fields: nothing of a redacted or unnamed path gets in, and of two fields with *)
(* one name the later wins (session.rs, HashMap::insert).                        *)
DisclosesAsMasked == call # None => Discloses(call, next - 1, disclosed)

(* And what is hashed is exactly what the mask redacts of them, if the body has  *)
(* it.                                                                            *)
HashesAsMasked == call # None => Hashes(call, next - 1, redacted_hashes)

Missing(c, k) == IsDisclosed(c, k) /\ c.fields[k].required /\ ~Found(c, k)

(* Extraction fails only for a body that is no JSON or a required, disclosed     *)
(* field that the body lacks, and then always; a null counts as there, and a      *)
(* required field that is not disclosed is not asked for.                         *)
FailsForCause ==
    LET cause == \/ Parsed[call.response_body] = None
                 \/ \E k \in DOMAIN call.fields : Missing(call, k)
    IN  /\ stage = "failed" => cause
        /\ stage = "extracted" => ~cause

(* A path the mask redacts is hashed if the body has it: "Fields to redact.      *)
(* Their SHA-512 hashes will be included instead." (zktls-core/src/lib.rs,        *)
(* DisclosureMask::redacted_paths).                                               *)
RedactedLeaveHash ==
    stage = "extracted" =>
       \A p \in call.disclosure.redacted_paths \ call.disclosure.disclosed_paths :
          LET value == Navigate(Parsed[call.response_body], p)
          IN  value # None => \E j \in DOMAIN redacted_hashes :
                                 redacted_hashes[j] = Sha512(<<p, value>>)

==============================================================================
