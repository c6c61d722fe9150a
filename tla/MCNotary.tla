------------------------------ MODULE MCNotary -------------------------------
(***************************************************************************)
(* A small notary for TLC.  One template can be notarized; one is registered *)
(* but off the allowlist; one is not registered.  The target may send an      *)
(* answer that says "not found", one that lacks a required field, or one that *)
(* has every field.                                                          *)
(***************************************************************************)
EXTENDS Notary, TLC

CONSTANTS
    utah, portal, unknown,      \* template ids
    votesearch, elsewhere,      \* hosts
    empty, partial, full,       \* bodies
    narrow, wide,               \* disclosure masks
    status, everything          \* extractions

MCTemplateId == {utah, portal, unknown}
MCRegistered == {utah, portal}
MCHostname == {votesearch, elsewhere}
MCTargetHost ==
    [t \in MCTemplateId |-> IF t = utah THEN votesearch ELSE elsewhere]
MCAllowedHosts == {votesearch}

MCBody == {empty, partial, full}
MCNotFoundBody == {empty}

MCDisclosure == {narrow, wide}
MCDefaultDisclosure == [t \in MCTemplateId |-> narrow]

MCExtraction == {status, everything}

(* The wide mask discloses a required field, which only the full body has; the   *)
(* narrow mask's fields are optional, so any body yields them, even a "not found". *)
MCExtractFields ==
    [q \in MCTemplateId \X MCDisclosure \X MCBody |->
        IF q[2] = narrow THEN status
        ELSE IF q[3] = full THEN everything
        ELSE None]

Symmetry == Permutations(SessionId)

==============================================================================
