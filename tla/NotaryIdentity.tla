--------------------------- MODULE NotaryIdentity ----------------------------
(***************************************************************************)
(* What a relying party sees of a notary: at any time one public key or        *)
(* none, and the same one whenever there is one.  It has no processes, files,   *)
(* crashes or starts.                                                          *)
(*                                                                          *)
(* keys.rs: the public key "is distributed to relying parties" - once, so what   *)
(* is distributed must be what every later process signs with.                  *)
(***************************************************************************)
CONSTANTS
    Key,
    NoKey

VARIABLES
    shown,      \* the key /info shows and proofs name, or NoKey: nobody serves
    identity    \* the key relying parties were given, or NoKey

ivars == <<shown, identity>>

Init == shown = NoKey /\ identity = NoKey

Up(k) ==
    /\ shown = NoKey
    /\ identity \in {NoKey, k}
    /\ shown' = k
    /\ identity' = k

Down ==
    /\ shown # NoKey
    /\ shown' = NoKey
    /\ UNCHANGED identity

Next == Down \/ \E k \in Key : Up(k)

Spec == Init /\ [][Next]_ivars

==============================================================================
