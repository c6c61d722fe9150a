-------------------------- MODULE AdmissionControl ---------------------------
(***************************************************************************)
(* What the capacity of the notary promises its clients, with no table, no  *)
(* eviction and no request steps: a counting semaphore.  A request is        *)
(* admitted at once or refused at once; an admitted request holds one of     *)
(* Capacity slots until it gives it back, which it does at most once.        *)
(*                                                                          *)
(* "Maximum number of concurrent sessions" (server.rs, NotaryConfig) and    *)
(* TooManySessions (error.rs) are the code's words for it.                   *)
(***************************************************************************)
EXTENDS Naturals, FiniteSets

CONSTANTS
    Request,
    Capacity

VARIABLES
    verdict,    \* what each request was told
    holders     \* the requests that hold a slot

avars == <<verdict, holders>>

Init ==
    /\ verdict = [r \in Request |-> "none"]
    /\ holders = {}

Admit(r) ==
    /\ verdict[r] = "none"
    /\ Cardinality(holders) < Capacity
    /\ verdict' = [verdict EXCEPT ![r] = "admitted"]
    /\ holders' = holders \cup {r}

(* Refusing is for a semaphore with no slot left. *)
Refuse(r) ==
    /\ verdict[r] = "none"
    /\ Cardinality(holders) >= Capacity
    /\ verdict' = [verdict EXCEPT ![r] = "refused"]
    /\ UNCHANGED holders

(* The proof is stored, or the failure recorded. *)
Release(r) ==
    /\ r \in holders
    /\ holders' = holders \ {r}
    /\ UNCHANGED verdict

Next == \E r \in Request : Admit(r) \/ Refuse(r) \/ Release(r)

Spec == Init /\ [][Next]_avars

==============================================================================
