------------------------------ MODULE StoreLock -------------------------------
(***************************************************************************)
(* The lock of the session table, zktls-notary/src/session.rs: what makes one  *)
(* step of an operation that takes several.  Callers come in any number and    *)
(* with any operation; each waits for tokio's RwLock, works on the table while  *)
(* it holds the guard, and gives the guard up when it returns.  Only create      *)
(* goes through the table more than once: it counts, makes room, counts again    *)
(* and inserts.                                                                  *)
(*                                                                          *)
(* To everyone else the table is as the last operation to return left it; so    *)
(* seen, these steps are those of SessionStore, where each operation is one.       *)
(***************************************************************************)
EXTENDS SessionStore, Sequences

CONSTANT Caller     \* tasks of the notary: handlers, and the detached ones

VARIABLES
    pc,         \* where each caller is in its operation
    mode,       \* the operation, by how it uses the table
    queue,      \* callers that wait for the lock, first come first served
    holders,    \* callers that hold a guard
    known       \* the table as the last operation to return left it

lvars == <<sessions, pc, mode, queue, holders, known>>

(* create, the operations that assign to one session, get and active_count. *)
Mode == {"create", "assign", "read"}

LockInit ==
    /\ StoreInit
    /\ pc = [k \in Caller |-> "idle"]
    /\ mode = [k \in Caller |-> "read"]
    /\ queue = <<>>
    /\ holders = {}
    /\ known = sessions

Goto(k, step) == pc' = [pc EXCEPT ![k] = step]

(* The guard is dropped at the end of the operation, however it ends. *)
Return(k) ==
    /\ Goto(k, "idle")
    /\ holders' = holders \ {k}
    /\ known' = sessions'
    /\ UNCHANGED <<mode, queue>>

------------------------------------------------------------------------------
(* The lock *)

Call(k, m) ==
    /\ pc[k] = "idle"
    /\ Goto(k, "waiting")
    /\ mode' = [mode EXCEPT ![k] = m]
    /\ queue' = Append(queue, k)
    /\ UNCHANGED <<sessions, holders, known>>

(* Readers share the lock; who wants to write waits until it is free, and nobody  *)
(* overtakes.                                                                     *)
Acquire(k) ==
    /\ pc[k] = "waiting" /\ Head(queue) = k
    /\ \A h \in holders : mode[h] = "read" /\ mode[k] = "read"
    /\ Goto(k, "locked")
    /\ queue' = Tail(queue)
    /\ holders' = holders \cup {k}
    /\ UNCHANGED <<sessions, mode, known>>

(* The task is dropped while it waits, and leaves the queue. *)
GiveUp(k) ==
    /\ pc[k] = "waiting"
    /\ Goto(k, "idle")
    /\ queue' = SelectSeq(queue, LAMBDA q : q # k)
    /\ UNCHANGED <<sessions, mode, holders, known>>

------------------------------------------------------------------------------
(* Operations, by their holder *)

Full == Cardinality(Occupied(sessions)) >= MaxSessions

(* Faults in FindRoom below.  The capacity is checked under a guard of its own,  *)
(* dropped before the insertion: CapacityRespected.                              *)
FindRoomUnguarded(k) ==
    /\ pc[k] = "locked" /\ mode[k] = "create"
    /\ ~Full
    /\ Goto(k, "room")
    /\ holders' = holders \ {k}
    /\ UNCHANGED <<sessions, mode, queue, known>>

(* The count is left to active_count, which waits for the lock create holds:      *)
(* EveryCallReturns.                                                              *)
FindRoomByCall(k) ==
    /\ pc[k] = "locked" /\ mode[k] = "create"
    /\ Goto(k, "waiting")
    /\ queue' = Append(queue, k)
    /\ UNCHANGED <<sessions, mode, holders, known>>

(* A fault in Sweep below: the sweep has a guard of its own, dropped before the  *)
(* insertion.  ImplementsStore.                                                  *)
SweepUnguarded(k) ==
    /\ pc[k] = "locked" /\ mode[k] = "create"
    /\ Full
    /\ Goto(k, "swept")
    /\ sessions' = [id \in SessionId |-> IF id \in ActiveIds THEN sessions[id] ELSE None]
    /\ known' = sessions'
    /\ holders' = holders \ {k}
    /\ UNCHANGED <<mode, queue>>

(* create: there is room ... *)
FindRoom(k) ==
    /\ pc[k] = "locked" /\ mode[k] = "create"
    /\ ~Full
    /\ Goto(k, "room")
    /\ UNCHANGED <<sessions, mode, queue, holders, known>>

(* ... or there is none, and the completed and failed sessions are removed, ... *)
Sweep(k) ==
    /\ pc[k] = "locked" /\ mode[k] = "create"
    /\ Full
    /\ Goto(k, "swept")
    /\ sessions' = [id \in SessionId |-> IF id \in ActiveIds THEN sessions[id] ELSE None]
    /\ UNCHANGED <<mode, queue, holders, known>>

(* ... which made room ... *)
RoomMade(k) ==
    /\ pc[k] = "swept"
    /\ ~Full
    /\ Goto(k, "room")
    /\ UNCHANGED <<sessions, mode, queue, holders, known>>

(* ... or did not (TooManySessions). *)
Refuse(k) ==
    /\ pc[k] = "swept"
    /\ Full
    /\ UNCHANGED sessions
    /\ Return(k)

(* The id is a fresh one, also of those just removed. *)
Insert(k, id, host, t) ==
    /\ pc[k] = "room"
    /\ sessions[id] = None /\ known[id] = None
    /\ sessions' = [sessions EXCEPT ![id] = NewSession(host, t)]
    /\ Return(k)

(* update_state, store_response and store_proof. *)
Assign(k) ==
    /\ pc[k] = "locked" /\ mode[k] = "assign"
    /\ \E id \in SessionId :
          \/ \E st \in SessionState : UpdateState(id, st)
          \/ \E b \in Body, h \in Hostname : StoreResponse(id, b, CertHash(h))
          \/ \E p \in SessionProof, a \in Attestation : StoreProof(id, p, a)
    /\ Return(k)

Read(k) ==
    /\ pc[k] = "locked" /\ mode[k] = "read"
    /\ UNCHANGED sessions
    /\ Return(k)

Proceed(k) ==
    \/ Acquire(k)
    \/ FindRoom(k)
    \/ Sweep(k)
    \/ RoomMade(k)
    \/ Refuse(k)
    \/ \E id \in SessionId, host \in Hostname, t \in TemplateId : Insert(k, id, host, t)
    \/ Assign(k)
    \/ Read(k)

LockNext ==
    \E k \in Caller :
       \/ \E m \in Mode : Call(k, m)
       \/ GiveUp(k)
       \/ Proceed(k)

(* The runtime polls every task that can go on. *)
Fairness == \A k \in Caller : WF_lvars(Proceed(k))

LockSpec == LockInit /\ [][LockNext]_lvars

FairLockSpec == LockSpec /\ Fairness

------------------------------------------------------------------------------
(* Properties *)

Table == INSTANCE SessionStore WITH sessions <- known

(* However the steps of concurrent calls interleave, each call takes effect at     *)
(* once and on a table no other call is halfway through: no two creates share the   *)
(* last free slot, and no session is assigned to, or counted, between the sweep     *)
(* and the insertion of another call (create holds its guard over all of them).      *)
ImplementsStore == Table!StoreSpec

(* Every call returns or is given up: no operation waits for a guard while it holds  *)
(* one, and none is overtaken for ever.                                              *)
EveryCallReturns == \A k \in Caller : pc[k] = "waiting" ~> pc[k] = "idle"

==============================================================================
