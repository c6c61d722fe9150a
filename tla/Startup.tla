-------------------------------- MODULE Startup --------------------------------
(***************************************************************************)
(* main (zktls-notary/src/main.rs) between key and listen address: a start      *)
(* registers the built-in template, then every template file of the              *)
(* configuration directory that can be read and parsed, in the order read_dir     *)
(* happens to have, and derives the hostname allowlist from what is registered.   *)
(*                                                                          *)
(* Everything about the key file and the address is KeyFile's.  An operator may   *)
(* put files into the directory and take them out at any time; a process looks    *)
(* at it once, when it starts.                                                    *)
(***************************************************************************)
EXTENDS KeyFile, Templates

CONSTANTS
    File,           \* *.toml files the directory may hold
    Content,        \* file -> the template in it, or Unparsable
    Unparsable,
    NoList          \* no allowlist, no directory listing yet

ASSUME StartupAssumption ==
    /\ \A entries \in SUBSET File : NoList # entries
    /\ \A f \in File :
          Content[f] # Unparsable =>
             DOMAIN Content[f] = DOMAIN UtahVoterTemplate

VARIABLES
    directory,  \* the files in NOTARY_TEMPLATE_DIR
    registry,   \* each process's TemplateRegistry
    unread,     \* the entries of read_dir it has not come to yet
    allowed     \* its allowed_hostnames, once derived

memory == <<registry, unread, allowed>>
svars == <<vars, directory, memory>>

StartupInit ==
    /\ Init
    /\ directory \in SUBSET File
    /\ registry = [p \in Process |-> << >>]
    /\ unread = [p \in Process |-> NoList]
    /\ allowed = [p \in Process |-> NoList]

(* What the allowlist is made of: list_ids, get, hostname. *)
Hosts(templates) ==
    {GetTemplate(templates, id).hostname : id \in ListIds(templates)}

Loadable == {Content[f] : f \in File} \ {Unparsable}

(* Every variable has its type; a process has templates from the time it has a   *)
(* key to the time it goes down, and binds with all of them loaded.              *)
StartupTypeOK ==
    /\ KeyTypeOK
    /\ directory \subseteq File
    /\ registry \in [Process -> Seq(Loadable \cup {UtahVoterTemplate})]
    /\ DOMAIN unread = Process /\ DOMAIN allowed = Process
    /\ \A p \in Process :
          /\ unread[p] = NoList \/ unread[p] \subseteq File
          /\ registry[p] # << >> => pc[p] \in {"bind", "serving"}
          /\ unread[p] = NoList <=> registry[p] = << >>
          /\ allowed[p] # NoList => unread[p] = {}
          /\ pc[p] = "serving" => allowed[p] # NoList

------------------------------------------------------------------------------
(* Starting *)

(* The key, as in KeyFile. *)
GetKey(p) ==
    /\ Start(p) \/ CheckExists(p) \/ ReadSeed(p) \/ OpenFile(p) \/ WriteSeed(p)
    /\ UNCHANGED <<directory, memory>>

(* TemplateRegistry::new, the built-in template, and read_dir, which may fail. *)
RegisterBuiltin(p) ==
    /\ pc[p] = "bind"
    /\ registry[p] = << >>
    /\ registry' = [registry EXCEPT ![p] = Register(<< >>, UtahVoterTemplate)]
    /\ \E entries \in {directory, {}} : unread' = [unread EXCEPT ![p] = entries]
    /\ UNCHANGED <<vars, directory, allowed>>

(* The next entry, in whatever order: registered, or skipped with a warning if   *)
(* it is gone by now or does not parse.                                          *)
LoadFile(p, f) ==
    /\ pc[p] = "bind"
    /\ unread[p] # NoList /\ f \in unread[p]
    /\ unread' = [unread EXCEPT ![p] = @ \ {f}]
    /\ registry' =
          IF f \in directory /\ Content[f] # Unparsable
          THEN [registry EXCEPT ![p] = Register(@, Content[f])] ELSE registry
    /\ UNCHANGED <<vars, directory, allowed>>

(* A fault in DeriveAllowlist: not all files have been read.  LookupsAllowed. *)
DeriveEarly(p) ==
    /\ pc[p] = "bind"
    /\ registry[p] # << >>
    /\ allowed[p] = NoList
    /\ allowed' = [allowed EXCEPT ![p] = Hosts(registry[p])]
    /\ UNCHANGED <<vars, directory, registry, unread>>

DeriveAllowlist(p) ==
    /\ pc[p] = "bind"
    /\ unread[p] = {}
    /\ allowed[p] = NoList
    /\ allowed' = [allowed EXCEPT ![p] = Hosts(registry[p])]
    /\ UNCHANGED <<vars, directory, registry, unread>>

(* What a process had in memory is gone when it goes down. *)
Forget(p) ==
    /\ registry' = [registry EXCEPT ![p] = << >>]
    /\ unread' = [unread EXCEPT ![p] = NoList]
    /\ allowed' = [allowed EXCEPT ![p] = NoList]

Serve(p) ==
    /\ unread[p] = {} /\ allowed[p] # NoList
    /\ Bind(p)
    /\ IF listener = NoProcess THEN UNCHANGED memory ELSE Forget(p)
    /\ UNCHANGED directory

Stop(p) == Crash(p) /\ Forget(p) /\ UNCHANGED directory

(* The operator adds a file or takes one away. *)
EditDirectory(f) ==
    /\ directory' = IF f \in directory THEN directory \ {f} ELSE directory \cup {f}
    /\ UNCHANGED <<vars, memory>>

StartupNext ==
    \/ \E p \in Process :
          \/ GetKey(p)
          \/ RegisterBuiltin(p)
          \/ \E f \in File : LoadFile(p, f)
          \/ DeriveAllowlist(p)
          \/ Serve(p)
          \/ Stop(p)
    \/ \E f \in File : EditDirectory(f)

StartupSpec == StartupInit /\ [][StartupNext]_svars

------------------------------------------------------------------------------
(* Properties *)

(* Every template a request can name passes the allowlist, and the allowlist is   *)
(* not the empty one that allows every host, whatever the directory held and in   *)
(* whatever order it was read, two templates with one id included: notarize's      *)
(* hostname check (403) refuses nothing it should serve, and lets no host of a      *)
(* template that get does not find through (main.rs: "allowed hostnames derived    *)
(* from registered templates").                                                    *)
LookupsAllowed ==
    \A p \in Process : pc[p] = "serving" =>
       /\ allowed[p] # {}
       /\ allowed[p] = Hosts(registry[p])

(* A file never replaces the built-in template: its id finds it in every process   *)
(* that serves, even if a file has a newer version under the same id.               *)
BuiltinStays ==
    \A p \in Process : pc[p] = "serving" =>
       GetTemplate(registry[p], UtahVoterTemplate.id) = UtahVoterTemplate

==============================================================================
