------------------------------- MODULE KeyFile -------------------------------
(***************************************************************************)
(* How a notary process gets its signing key and starts to serve             *)
(* (zktls-notary/src/main.rs, load_or_generate_key and main).                *)
(*                                                                          *)
(* Processes share one key file and one listen address.  Each file-system     *)
(* call is a step of its own: fs::write opens the file truncated and then      *)
(* writes the seed, and a process may crash between any two steps.  A file     *)
(* is absent, short (not 32 bytes), or holds the seed of a key.               *)
(*                                                                          *)
(* Template loading, which lies between the key and the bind, touches neither   *)
(* and is in Startup.                                                          *)
(***************************************************************************)
EXTENDS Naturals

CONSTANTS
    Process,            \* notary processes, each may be started again
    Key,                \* key pairs; bounds how many may be generated
    Absent, Short,      \* contents of the path that are no seed
    NoKey, NoProcess,   \* a process without a key; a free address
    OverlappingStarts   \* may a start begin before another has ended?

ASSUME KeyFileAssumption ==
    /\ Absent \notin Key /\ Short \notin Key /\ NoKey \notin Key
    /\ Absent # Short
    /\ NoProcess \notin Process
    /\ OverlappingStarts \in BOOLEAN

VARIABLES
    disk,       \* content of NOTARY_KEY_PATH
    pc,         \* where each process is
    key,        \* the key pair a process holds
    generated,  \* keys drawn so far: none is drawn twice
    listener,   \* the process bound to NOTARY_LISTEN_ADDR
    published   \* the key the first process to serve showed its clients

vars == <<disk, pc, key, generated, listener, published>>

Starting == {"exists", "read", "open", "write", "bind"}

KeyTypeOK ==
    /\ disk \in Key \cup {Absent, Short}
    /\ pc \in [Process -> {"down", "serving"} \cup Starting]
    /\ key \in [Process -> Key \cup {NoKey}]
    /\ generated \subseteq Key
    /\ listener \in Process \cup {NoProcess}
    /\ published \in Key \cup {NoKey}
    /\ \A p \in Process :
          /\ pc[p] \in {"open", "write", "bind", "serving"} => key[p] \in generated
          /\ pc[p] = "serving" <=> listener = p

Init ==
    /\ disk = Absent
    /\ pc = [p \in Process |-> "down"]
    /\ key = [p \in Process |-> NoKey]
    /\ generated = {}
    /\ listener = NoProcess
    /\ published = NoKey

Goto(p, step) == pc' = [pc EXCEPT ![p] = step]

------------------------------------------------------------------------------
(* Starting *)

Start(p) ==
    /\ pc[p] = "down"
    /\ OverlappingStarts \/ \A q \in Process : pc[q] \notin Starting
    /\ Goto(p, "exists")
    /\ UNCHANGED <<disk, key, generated, listener, published>>

(* Faults, each with the property that tells it from the real step.  The path    *)
(* is not looked at: OneKeyServed.                                               *)
GenerateAlways(p) ==
    /\ pc[p] = "exists"
    /\ \E k \in Key \ generated :
          /\ key' = [key EXCEPT ![p] = k]
          /\ generated' = generated \cup {k}
    /\ Goto(p, "open")
    /\ UNCHANGED <<disk, listener, published>>

(* The length of what was read is not checked: KeyTypeOK. *)
ReadUnchecked(p) ==
    /\ pc[p] = "read"
    /\ key' = [key EXCEPT ![p] = disk]
    /\ Goto(p, "bind")
    /\ UNCHANGED <<disk, generated, listener, published>>

(* A failed write is ignored: ServedKeyOnDisk. *)
WriteMayFail(p) ==
    /\ pc[p] = "write"
    /\ disk' \in {Short, key[p]}
    /\ Goto(p, "bind")
    /\ UNCHANGED <<key, generated, listener, published>>

(* path.exists(): read the file, or generate a key and write one. *)
CheckExists(p) ==
    /\ pc[p] = "exists"
    /\ \/ /\ disk # Absent
          /\ Goto(p, "read")
          /\ UNCHANGED <<key, generated>>
       \/ /\ disk = Absent
          /\ \E k \in Key \ generated :
                /\ key' = [key EXCEPT ![p] = k]
                /\ generated' = generated \cup {k}
          /\ Goto(p, "open")
    /\ UNCHANGED <<disk, listener, published>>

(* A seed is loaded; anything that is not 32 bytes long panics. *)
ReadSeed(p) ==
    /\ pc[p] = "read"
    /\ \/ /\ disk \in Key
          /\ key' = [key EXCEPT ![p] = disk]
          /\ Goto(p, "bind")
       \/ /\ disk \notin Key
          /\ Goto(p, "down")
          /\ UNCHANGED key
    /\ UNCHANGED <<disk, generated, listener, published>>

(* fs::write: create or truncate, then write the seed.  An error of either      *)
(* panics, which is what Crash does.                                            *)
OpenFile(p) ==
    /\ pc[p] = "open"
    /\ disk' = Short
    /\ Goto(p, "write")
    /\ UNCHANGED <<key, generated, listener, published>>

(* set_permissions, which follows and may fail unnoticed, leaves the seed alone. *)
WriteSeed(p) ==
    /\ pc[p] = "write"
    /\ disk' = key[p]
    /\ Goto(p, "bind")
    /\ UNCHANGED <<key, generated, listener, published>>

(* TcpListener::bind takes the address, or panics if it is taken.  From then   *)
(* on /info and every proof show the key.                                      *)
Bind(p) ==
    /\ pc[p] = "bind"
    /\ \/ /\ listener = NoProcess
          /\ listener' = p
          /\ Goto(p, "serving")
          /\ published' = IF published = NoKey THEN key[p] ELSE published
          /\ UNCHANGED key
       \/ /\ listener # NoProcess
          /\ Goto(p, "down")
          /\ key' = [key EXCEPT ![p] = NoKey]
          /\ UNCHANGED <<listener, published>>
    /\ UNCHANGED <<disk, generated>>

(* A crash or a stop loses all but the file. *)
Crash(p) ==
    /\ pc[p] # "down"
    /\ Goto(p, "down")
    /\ key' = [key EXCEPT ![p] = NoKey]
    /\ listener' = IF listener = p THEN NoProcess ELSE listener
    /\ UNCHANGED <<disk, generated, published>>

Next ==
    \E p \in Process :
       \/ Start(p)
       \/ CheckExists(p)
       \/ ReadSeed(p)
       \/ OpenFile(p)
       \/ WriteSeed(p)
       \/ Bind(p)
       \/ Crash(p)

Spec == Init /\ [][Next]_vars

------------------------------------------------------------------------------
(* Properties *)

(* The process that serves signs with the key on disk, so a restart signs with  *)
(* the same one (load_or_generate_key: "generates a new key pair and saves it").*)
ServedKeyOnDisk ==
    \A p \in Process : pc[p] = "serving" => disk = key[p]

(* One key for ever: whichever process serves, after whatever crashes and        *)
(* failed starts, holds the key the first one showed, which verifiers keep in    *)
(* their trust store (keys.rs: "distributed to relying parties").                *)
OneKeyServed ==
    \A p \in Process : pc[p] = "serving" => key[p] = published

(* One fs::write makes the key file and, as long as starts do not overlap, nothing *)
(* writes it again: once there, whole or as a crash left it, no later start, crash  *)
(* or failed bind changes it (load_or_generate_key: "If a key file exists at the    *)
(* given path, loads it").                                                          *)
FileWrittenOnce ==
    [][ disk # Absent /\ (\A p \in Process : pc[p] # "write") => disk' = disk ]_vars

(* What relying parties see of all processes together. *)
Identity ==
    INSTANCE NotaryIdentity WITH
        shown <- IF listener = NoProcess THEN NoKey ELSE key[listener],
        identity <- published

(* Starts that do not overlap, crashes, restarts and an address that is taken are,  *)
(* seen from outside, one notary that comes and goes with one key (main).           *)
KeepsIdentity == Identity!Spec

(* Outside a write, the key file, if there is one, holds a seed (main.rs: "The  *)
(* file contains the raw 32-byte seed"), so the next start does not panic on it. *)
FileIsSeed ==
    disk = Short => \E p \in Process : pc[p] = "write"

==============================================================================
