---------------------------- MODULE StartupProofs ----------------------------
(***************************************************************************)
(* The key file for any number of processes and keys, and the starts that use   *)
(* it.  Of the key file, types need nothing else; that there is one key, written  *)
(* once and shown by all who serve, needs starts that do not overlap.  Template   *)
(* loading is proved for any directory, and to implement KeyFile: what a start     *)
(* does between key and address is a stutter there, so what is proved of the key    *)
(* file holds with it.                                                              *)
(***************************************************************************)
EXTENDS Startup, TLAPS

(* Every seed was drawn, also those a race of starts left on disk. *)
SeedsDrawn == disk \in Key => disk \in generated

TInv == KeyTypeOK /\ SeedsDrawn

LEMMA KeyInitTyped == Init => TInv
BY KeyFileAssumption DEF Init, TInv, KeyTypeOK, SeedsDrawn, Starting

LEMMA KeyNextTyped ==
    ASSUME TInv, [Next]_vars
    PROVE  TInv'
<1> USE KeyFileAssumption DEF TInv, KeyTypeOK, SeedsDrawn, Starting, Goto
<1>1. ASSUME NEW p \in Process, Start(p) PROVE TInv'  BY <1>1 DEF Start
<1>2. ASSUME NEW p \in Process, CheckExists(p) PROVE TInv'
  BY <1>2 DEF CheckExists
<1>3. ASSUME NEW p \in Process, ReadSeed(p) PROVE TInv'
  BY <1>3 DEF ReadSeed
<1>4. ASSUME NEW p \in Process, OpenFile(p) PROVE TInv'
  BY <1>4 DEF OpenFile
<1>5. ASSUME NEW p \in Process, WriteSeed(p) PROVE TInv'
  BY <1>5 DEF WriteSeed
<1>6. ASSUME NEW p \in Process, Bind(p) PROVE TInv'
  BY <1>6 DEF Bind
<1>7. ASSUME NEW p \in Process, Crash(p) PROVE TInv'
  BY <1>7 DEF Crash
<1>8. CASE UNCHANGED vars  BY <1>8 DEF vars
<1> QED  BY <1>1, <1>2, <1>3, <1>4, <1>5, <1>6, <1>7, <1>8 DEF Next

THEOREM KeyTypeInvariant == Spec => []TInv
<1>1. TInv /\ [Next]_vars => TInv'  BY KeyNextTyped
<1> QED  BY <1>1, KeyInitTyped, PTL DEF Spec

(* Every process holds a drawn key from the moment it could use it, and at most  *)
(* one serves, however starts overlap.                                           *)
THEOREM KeyTypesCorrect == Spec => []KeyTypeOK
<1>1. TInv => KeyTypeOK  BY DEF TInv
<1> QED  BY <1>1, KeyTypeInvariant, PTL

------------------------------------------------------------------------------
(* Starts that do not overlap *)

(* What a start that is under way relies on, and what it owes the file. *)
StartInv ==
    /\ \A p, q \in Process : pc[p] \in Starting /\ pc[q] \in Starting => p = q
    /\ published # NoKey => disk = published
    /\ \A p \in Process :
          /\ pc[p] = "open" => disk = Absent
          /\ pc[p] = "write" => disk = Short
          /\ pc[p] \in {"bind", "serving"} => disk = key[p]
          /\ pc[p] = "serving" => key[p] = published

KInv == TInv /\ StartInv

LEMMA KeyInitEstablishes == Init => KInv
<1>1. Init => StartInv  BY DEF Init, StartInv, Starting
<1> QED  BY <1>1, KeyInitTyped DEF KInv

LEMMA KeyNextPreserves ==
    ASSUME ~OverlappingStarts, KInv, [Next]_vars
    PROVE  KInv'
<1>0. TInv'  BY KeyNextTyped DEF KInv
<1> SUFFICES StartInv'  BY <1>0 DEF KInv
<1> USE KeyFileAssumption DEF KInv, TInv, KeyTypeOK, StartInv, Starting, Goto
<1>1. ASSUME NEW p \in Process, Start(p) PROVE StartInv'  BY <1>1 DEF Start
<1>2. ASSUME NEW p \in Process, CheckExists(p) PROVE StartInv'
  BY <1>2 DEF CheckExists
<1>3. ASSUME NEW p \in Process, ReadSeed(p) PROVE StartInv'
  BY <1>3 DEF ReadSeed
<1>4. ASSUME NEW p \in Process, OpenFile(p) PROVE StartInv'
  BY <1>4 DEF OpenFile
<1>5. ASSUME NEW p \in Process, WriteSeed(p) PROVE StartInv'
  BY <1>5 DEF WriteSeed
<1>6. ASSUME NEW p \in Process, Bind(p) PROVE StartInv'
  BY <1>6 DEF Bind
<1>7. ASSUME NEW p \in Process, Crash(p) PROVE StartInv'
  BY <1>7 DEF Crash
<1>8. CASE UNCHANGED vars  BY <1>8 DEF vars
<1> QED  BY <1>1, <1>2, <1>3, <1>4, <1>5, <1>6, <1>7, <1>8 DEF Next

THEOREM KeyInvariantHolds == ~OverlappingStarts /\ Spec => []KInv
<1>1. ~OverlappingStarts /\ KInv /\ [Next]_vars => KInv'  BY KeyNextPreserves
<1>2. CASE ~OverlappingStarts
  BY <1>1, <1>2, KeyInitEstablishes, PTL DEF Spec
<1> QED  BY <1>2

(* Whatever crashes, restarts and failed starts there were, the process that   *)
(* serves holds the key on disk.                                                *)
THEOREM ServedKeyIsOnDisk == ~OverlappingStarts /\ Spec => []ServedKeyOnDisk
<1>1. KInv => ServedKeyOnDisk  BY DEF KInv, StartInv, ServedKeyOnDisk
<1> QED  BY <1>1, KeyInvariantHolds, PTL

(* And that is the key the first process to serve showed. *)
THEOREM OneKeyIsServed == ~OverlappingStarts /\ Spec => []OneKeyServed
<1>1. KInv => OneKeyServed  BY DEF KInv, StartInv, OneKeyServed
<1> QED  BY <1>1, KeyInvariantHolds, PTL

------------------------------------------------------------------------------
(* The file is written once *)

(* A start that is about to open the file has found none. *)
LEMMA WriteIsFirst ==
    ASSUME KInv, [Next]_vars, disk # Absent, \A p \in Process : pc[p] # "write"
    PROVE  disk' = disk /\ \A p \in Process : pc'[p] # "write"
<1>1. \A p \in Process : ~OpenFile(p) /\ ~WriteSeed(p)
  BY DEF KInv, StartInv, OpenFile, WriteSeed
<1> QED
  BY <1>1
  DEF Next, vars, Start, CheckExists, ReadSeed, Bind, Crash, Goto, KInv, TInv, KeyTypeOK

(* No start, crash or failed bind ever changes a key file that is there. *)
THEOREM FileIsWrittenOnce == ~OverlappingStarts /\ Spec => FileWrittenOnce
<1> DEFINE Step ==
      disk # Absent /\ (\A p \in Process : pc[p] # "write") => disk' = disk
<1>1. KInv /\ [Next]_vars => Step  BY WriteIsFirst
<1> HIDE DEF Step
<1>2. ~OverlappingStarts /\ Spec => [][Step]_vars
  BY <1>1, KeyInvariantHolds, PTL DEF Spec
<1> QED  BY <1>2 DEF FileWrittenOnce, Step

(* What the crash of run key_crash leaves behind. *)
BrokenFile == disk = Short /\ \A p \in Process : pc[p] # "write"

NobodyServes == \A p \in Process : pc[p] # "serving"

(* A key file broken by a crash stays broken, and no process ever serves again:   *)
(* the notary never replaces its identity, it has to be repaired by hand.          *)
THEOREM BrokenFileIsFinal ==
    ~OverlappingStarts /\ Spec => [](BrokenFile => [](BrokenFile /\ NobodyServes))
<1>1. KInv /\ BrokenFile /\ [Next]_vars => BrokenFile'
  <2>1. BrokenFile => disk # Absent  BY KeyFileAssumption DEF BrokenFile
  <2> QED  BY <2>1, WriteIsFirst DEF BrokenFile
<1>2. KInv /\ BrokenFile => NobodyServes
  BY KeyFileAssumption
  DEF KInv, TInv, KeyTypeOK, StartInv, BrokenFile, NobodyServes
<1> QED  BY <1>1, <1>2, KeyInvariantHolds, PTL DEF Spec

------------------------------------------------------------------------------
(* All processes together are one notary *)

LEMMA BindIsUp ==
    ASSUME KInv, NEW p \in Process, Bind(p)
    PROVE  (Identity!Up(disk) /\ disk \in Key) \/ UNCHANGED Identity!ivars
<1> USE DEF KInv, TInv, KeyTypeOK, StartInv
<1>1. pc[p] = "bind" /\ key[p] = disk /\ disk \in Key /\ listener # p
  BY DEF Bind
<1>2. CASE listener = NoProcess
  <2>1. /\ listener' = p /\ key'[p] = disk /\ published \in {NoKey, disk}
        /\ published' = disk /\ p # NoProcess
    BY <1>1, <1>2, KeyFileAssumption DEF Bind
  <2> QED  BY <1>1, <1>2, <2>1 DEF Identity!Up
<1>3. CASE listener # NoProcess
  BY <1>1, <1>3 DEF Bind, Identity!ivars
<1> QED  BY <1>2, <1>3

LEMMA CrashIsDown ==
    ASSUME KInv, NEW p \in Process, Crash(p)
    PROVE  Identity!Down \/ UNCHANGED Identity!ivars
<1> USE KeyFileAssumption DEF KInv, TInv, KeyTypeOK
<1>1. CASE listener = p
  <2>1. pc[p] = "serving" /\ key[p] # NoKey  BY <1>1
  <2> QED  BY <1>1, <2>1 DEF Crash, Identity!Down
<1>2. CASE listener # p
  BY <1>2 DEF Crash, Identity!ivars
<1> QED  BY <1>1, <1>2

(* A start shows nothing before it binds. *)
LEMMA StartIsUnseen ==
    ASSUME KInv, NEW p \in Process,
           Start(p) \/ CheckExists(p) \/ ReadSeed(p) \/ OpenFile(p) \/ WriteSeed(p)
    PROVE  UNCHANGED Identity!ivars
<1>1. listener # p /\ listener' = listener /\ published' = published
  BY DEF KInv, TInv, KeyTypeOK, Start, CheckExists, ReadSeed, OpenFile, WriteSeed
<1>2. \A q \in Process \ {p} : key'[q] = key[q]
  BY DEF KInv, TInv, KeyTypeOK, Start, CheckExists, ReadSeed, OpenFile, WriteSeed
<1> QED  BY <1>1, <1>2 DEF Identity!ivars, KInv, TInv, KeyTypeOK

LEMMA KeyStepIsIdentityStep ==
    ASSUME KInv, [Next]_vars
    PROVE  [Identity!Next]_(Identity!ivars)
<1>1. CASE UNCHANGED vars  BY <1>1 DEF vars, Identity!ivars
<1> QED
  BY <1>1, BindIsUp, CrashIsDown, StartIsUnseen DEF Next, Identity!Next

(* Any number of processes, started one at a time, crashing and racing for the  *)
(* address, show one key for ever.                                               *)
THEOREM KeyFileKeepsIdentity == ~OverlappingStarts /\ Spec => KeepsIdentity
<1>1. Init => Identity!Init  BY DEF Init, Identity!Init
<1>2. KInv /\ [Next]_vars => [Identity!Next]_(Identity!ivars)
  BY KeyStepIsIdentityStep
<1> QED
  BY <1>1, <1>2, KeyInvariantHolds, PTL DEF Spec, KeepsIdentity, Identity!Spec

------------------------------------------------------------------------------
(* Starting *)

(* A start steps through KeyFile or leaves its variables alone. *)
LEMMA StartupStepIsKeyStep ==
    ASSUME [StartupNext]_svars
    PROVE  [Next]_vars
<1>1. ASSUME NEW p \in Process, GetKey(p) PROVE Next
  BY <1>1 DEF GetKey, Next
<1>2. ASSUME NEW p \in Process, Serve(p) \/ Stop(p) PROVE Next
  BY <1>2 DEF Serve, Stop, Next
<1>3. ASSUME NEW p \in Process, RegisterBuiltin(p) \/ DeriveAllowlist(p)
      PROVE  UNCHANGED vars
  BY <1>3 DEF RegisterBuiltin, DeriveAllowlist
<1>4. ASSUME NEW p \in Process, NEW f \in File, LoadFile(p, f)
      PROVE  UNCHANGED vars
  BY <1>4 DEF LoadFile
<1>5. ASSUME NEW f \in File, EditDirectory(f) PROVE UNCHANGED vars
  BY <1>5 DEF EditDirectory
<1>6. UNCHANGED svars => UNCHANGED vars  BY DEF svars
<1> QED  BY <1>1, <1>2, <1>3, <1>4, <1>5, <1>6 DEF StartupNext

(* Starting up with templates implements KeyFile. *)
THEOREM StartupImplementsKeyFile == StartupSpec => Spec
<1>1. StartupInit => Init  BY DEF StartupInit
<1>2. [StartupNext]_svars => [Next]_vars  BY StartupStepIsKeyStep
<1> QED  BY <1>1, <1>2, PTL DEF StartupSpec, Spec

------------------------------------------------------------------------------
(* What a process has in memory on its way to serving *)

AnyTemplate == Loadable \cup {UtahVoterTemplate}

MemoryInv ==
    /\ directory \subseteq File
    /\ registry \in [Process -> Seq(AnyTemplate)]
    /\ DOMAIN unread = Process /\ DOMAIN allowed = Process
    /\ \A p \in Process :
          /\ unread[p] = NoList \/ unread[p] \subseteq File
          /\ registry[p] # << >> =>
                pc[p] \in {"bind", "serving"} /\ registry[p][1] = UtahVoterTemplate
          /\ unread[p] = NoList <=> registry[p] = << >>
          /\ allowed[p] # NoList =>
                unread[p] = {} /\ allowed[p] = Hosts(registry[p])
          /\ pc[p] = "serving" => allowed[p] # NoList

SInv == KeyTypeOK /\ MemoryInv

(* NoList is no set of files. *)
LEMMA ListingIsListed ==
    ASSUME NEW entries, entries \subseteq File
    PROVE  entries # NoList
BY StartupAssumption

LEMMA RegisteredSequence ==
    ASSUME NEW r \in Seq(AnyTemplate), NEW t \in AnyTemplate
    PROVE  /\ Register(r, t) \in Seq(AnyTemplate)
           /\ Register(r, t) # << >>
           /\ r # << >> => Register(r, t)[1] = r[1]
           /\ r = << >> => Register(r, t)[1] = t
<1> HIDE DEF AnyTemplate
<1> QED  BY DEF Register

LEMMA MemoryInitEstablishes == StartupInit => MemoryInv
<1>1. << >> \in Seq(AnyTemplate)  OBVIOUS
<1> QED  BY <1>1 DEF StartupInit, MemoryInv, Init

(* A process that goes down forgets; the others keep what they have. *)
LEMMA ForgetPreserves ==
    ASSUME MemoryInv, NEW p \in Process, Forget(p), UNCHANGED directory,
           DOMAIN pc = Process, pc' = [pc EXCEPT ![p] = "down"]
    PROVE  MemoryInv'
<1>1. << >> \in Seq(AnyTemplate)  OBVIOUS
<1>2. /\ registry' \in [Process -> Seq(AnyTemplate)]
      /\ DOMAIN unread' = Process /\ DOMAIN allowed' = Process
  BY <1>1 DEF MemoryInv, Forget
<1>3. /\ registry'[p] = << >> /\ unread'[p] = NoList /\ allowed'[p] = NoList
      /\ pc'[p] = "down"
  BY DEF MemoryInv, Forget
<1>4. ASSUME NEW q \in Process, q # p
      PROVE  /\ registry'[q] = registry[q] /\ unread'[q] = unread[q]
             /\ allowed'[q] = allowed[q] /\ pc'[q] = pc[q]
  BY <1>4 DEF MemoryInv, Forget
<1>5. ASSUME NEW q \in Process
      PROVE  /\ unread'[q] = NoList \/ unread'[q] \subseteq File
             /\ registry'[q] # << >> =>
                   /\ pc'[q] \in {"bind", "serving"}
                   /\ registry'[q][1] = UtahVoterTemplate
             /\ unread'[q] = NoList <=> registry'[q] = << >>
             /\ allowed'[q] # NoList =>
                   unread'[q] = {} /\ allowed'[q] = Hosts(registry'[q])
             /\ pc'[q] = "serving" => allowed'[q] # NoList
  <2>1. CASE q = p  BY <2>1, <1>3
  <2>2. CASE q # p  BY <2>2, <1>4 DEF MemoryInv
  <2> QED  BY <2>1, <2>2
<1>6. directory' \subseteq File  BY DEF MemoryInv
<1> QED  BY <1>2, <1>5, <1>6 DEF MemoryInv

LEMMA MemoryPreserved ==
    ASSUME KeyTypeOK, MemoryInv, [StartupNext]_svars
    PROVE  MemoryInv'
<1>k. DOMAIN pc = Process  BY DEF KeyTypeOK
<1>1. ASSUME NEW p \in Process, GetKey(p) PROVE MemoryInv'
  <2>1. UNCHANGED <<directory, registry, unread, allowed>>
    BY <1>1 DEF GetKey, memory
  <2>2. /\ pc[p] \notin {"bind", "serving"}
        /\ pc'[p] # "serving"
        /\ \A q \in Process \ {p} : pc'[q] = pc[q]
    BY <1>1, <1>k DEF GetKey, Start, CheckExists, ReadSeed, OpenFile, WriteSeed,
          Goto
  <2>3. registry[p] = << >>  BY <2>2 DEF MemoryInv
  <2> QED  BY <2>1, <2>2, <2>3 DEF MemoryInv
<1>2. ASSUME NEW p \in Process, RegisterBuiltin(p) PROVE MemoryInv'
  <2>1. /\ pc[p] = "bind" /\ registry[p] = << >> /\ UNCHANGED <<directory, allowed, pc>>
        /\ registry' = [registry EXCEPT ![p] = Register(<< >>, UtahVoterTemplate)]
    BY <1>2 DEF RegisterBuiltin, vars
  <2>2. PICK entries \in {directory, {}} : unread' = [unread EXCEPT ![p] = entries]
    BY <1>2 DEF RegisterBuiltin
  <2>3. entries \subseteq File /\ entries # NoList
    BY ListingIsListed DEF MemoryInv
  <2>4. UtahVoterTemplate \in AnyTemplate /\ << >> \in Seq(AnyTemplate)
    BY DEF AnyTemplate
  <2>5. allowed[p] = NoList
    BY <2>1, ListingIsListed DEF MemoryInv
  <2> HIDE DEF AnyTemplate
  <2>6. /\ Register(<< >>, UtahVoterTemplate) \in Seq(AnyTemplate)
        /\ Register(<< >>, UtahVoterTemplate) # << >>
        /\ Register(<< >>, UtahVoterTemplate)[1] = UtahVoterTemplate
    BY <2>4, RegisteredSequence
  <2> QED  BY <2>1, <2>2, <2>3, <2>5, <2>6 DEF MemoryInv
<1>3. ASSUME NEW p \in Process, NEW f \in File, LoadFile(p, f)
      PROVE  MemoryInv'
  <2>1. /\ pc[p] = "bind" /\ unread[p] # NoList /\ f \in unread[p]
        /\ unread' = [unread EXCEPT ![p] = @ \ {f}]
        /\ UNCHANGED <<directory, allowed, pc>>
    BY <1>3 DEF LoadFile, vars
  <2>2. registry[p] # << >> /\ registry[p] \in Seq(AnyTemplate)
    BY <2>1 DEF MemoryInv
  <2>3. allowed[p] = NoList  BY <2>1 DEF MemoryInv
  <2>4. unread[p] \ {f} \subseteq File /\ unread[p] \ {f} # NoList
    BY <2>1, ListingIsListed DEF MemoryInv
  <2>5. CASE f \in directory /\ Content[f] # Unparsable
    <3>1. registry' = [registry EXCEPT ![p] = Register(@, Content[f])]
      BY <1>3, <2>5 DEF LoadFile
    <3>2. Content[f] \in AnyTemplate  BY <2>5 DEF AnyTemplate, Loadable
    <3>3. /\ Register(registry[p], Content[f]) \in Seq(AnyTemplate)
          /\ Register(registry[p], Content[f]) # << >>
          /\ Register(registry[p], Content[f])[1] = registry[p][1]
      BY <2>2, <3>2, RegisteredSequence
    <3> QED  BY <2>1, <2>2, <2>3, <2>4, <3>1, <3>3 DEF MemoryInv
  <2>6. CASE ~(f \in directory /\ Content[f] # Unparsable)
    <3>1. registry' = registry  BY <1>3, <2>6 DEF LoadFile
    <3> QED  BY <2>1, <2>2, <2>3, <2>4, <3>1 DEF MemoryInv
  <2> QED  BY <2>5, <2>6
<1>4. ASSUME NEW p \in Process, DeriveAllowlist(p) PROVE MemoryInv'
  BY <1>4 DEF DeriveAllowlist, MemoryInv, vars
<1>5. ASSUME NEW p \in Process, Serve(p) PROVE MemoryInv'
  <2>1. allowed[p] # NoList /\ UNCHANGED directory  BY <1>5 DEF Serve
  <2>2. CASE listener = NoProcess
    <3>1. /\ UNCHANGED <<registry, unread, allowed>>
          /\ pc' = [pc EXCEPT ![p] = "serving"]
      BY <1>5, <2>2 DEF Serve, Bind, Goto, memory
    <3> QED  BY <1>k, <2>1, <3>1 DEF MemoryInv
  <2>3. CASE listener # NoProcess
    <3>1. Forget(p) /\ pc' = [pc EXCEPT ![p] = "down"]
      BY <1>5, <2>3 DEF Serve, Bind, Goto
    <3> QED  BY <1>k, <2>1, <3>1, ForgetPreserves
  <2> QED  BY <2>2, <2>3
<1>6. ASSUME NEW p \in Process, Stop(p) PROVE MemoryInv'
  BY <1>6, <1>k, ForgetPreserves DEF Stop, Crash, Goto
<1>7. ASSUME NEW f \in File, EditDirectory(f) PROVE MemoryInv'
  BY <1>7 DEF EditDirectory, MemoryInv, vars, memory
<1>8. CASE UNCHANGED svars
  BY <1>8 DEF svars, vars, memory, MemoryInv
<1> QED
  BY <1>1, <1>2, <1>3, <1>4, <1>5, <1>6, <1>7, <1>8 DEF StartupNext

------------------------------------------------------------------------------
(* Results.  What is in a process's memory needs no assumption on other starts; *)
(* what is in the file they share does.                                          *)

THEOREM StartupInvariantHolds == StartupSpec => []SInv
<1>1. KeyTypeOK /\ MemoryInv /\ [StartupNext]_svars => MemoryInv'
  BY MemoryPreserved
<1>2. StartupSpec => []KeyTypeOK
  BY StartupImplementsKeyFile, KeyTypesCorrect, PTL
<1>3. KeyTypeOK /\ MemoryInv => SInv  BY DEF SInv
<1> QED  BY <1>1, <1>2, <1>3, MemoryInitEstablishes, PTL DEF StartupSpec

(* With the key the templates: a process binds with all of them loaded. *)
THEOREM StartupTypesCorrect == StartupSpec => []StartupTypeOK
<1>1. SInv => StartupTypeOK
  BY DEF SInv, MemoryInv, StartupTypeOK, AnyTemplate
<1> QED  BY <1>1, StartupInvariantHolds, PTL

(* The hosts of the templates that can be asked for, and no others, are allowed. *)
THEOREM LookupsAreAllowed == StartupSpec => []LookupsAllowed
<1>1. SInv => LookupsAllowed
  <2> SUFFICES ASSUME SInv, NEW p \in Process, pc[p] = "serving"
               PROVE  allowed[p] # {} /\ allowed[p] = Hosts(registry[p])
    BY DEF LookupsAllowed
  <2>1. allowed[p] = Hosts(registry[p]) /\ unread[p] # NoList
    BY ListingIsListed DEF SInv, MemoryInv
  <2>2. registry[p] # << >> /\ registry[p] \in Seq(AnyTemplate)
    BY <2>1 DEF SInv, MemoryInv
  <2>3. 1 \in DOMAIN registry[p]
    <3> HIDE DEF AnyTemplate
    <3> QED  BY <2>2
  <2>4. registry[p][1].id \in ListIds(registry[p])  BY <2>3 DEF ListIds
  <2> QED  BY <2>1, <2>4 DEF Hosts
<1> QED  BY <1>1, StartupInvariantHolds, PTL

(* The built-in template is always found under its id. *)
THEOREM BuiltinAlwaysStays == StartupSpec => []BuiltinStays
<1>1. SInv => BuiltinStays
  <2> SUFFICES ASSUME SInv, NEW p \in Process, pc[p] = "serving"
               PROVE  GetTemplate(registry[p], UtahVoterTemplate.id) =
                         UtahVoterTemplate
    BY DEF BuiltinStays
  <2> DEFINE r == registry[p]
             having == Having(r, UtahVoterTemplate.id)
  <2>1. unread[p] # NoList  BY ListingIsListed DEF SInv, MemoryInv
  <2>2. r # << >> /\ r \in Seq(AnyTemplate) /\ r[1] = UtahVoterTemplate
    BY <2>1 DEF SInv, MemoryInv
  <2>3. 1 \in DOMAIN r /\ DOMAIN r \subseteq Nat \ {0}
    <3> HIDE DEF AnyTemplate
    <3> QED  BY <2>2
  <2>4. 1 \in having /\ having \subseteq Nat \ {0}  BY <2>2, <2>3 DEF Having
  <2> HIDE DEF having
  <2>5. (CHOOSE k \in having : \A j \in having : k <= j) = 1
    <3>1. \A k \in having : (\A j \in having : k <= j) <=> k = 1  BY <2>4
    <3> QED  BY <2>4, <3>1
  <2> QED  BY <2>2, <2>5 DEF GetTemplate, having
<1> QED  BY <1>1, StartupInvariantHolds, PTL

(* The key properties with template loading in between. *)
THEOREM StartupServesOneKey ==
    ~OverlappingStarts /\ StartupSpec => [](ServedKeyOnDisk /\ OneKeyServed)
BY StartupImplementsKeyFile, ServedKeyIsOnDisk, OneKeyIsServed, PTL

(* The file is written once, and starts with templates are, seen from outside,   *)
(* one notary that comes and goes with one key.                                  *)
THEOREM StartupKeepsIdentity ==
    ~OverlappingStarts /\ StartupSpec => FileWrittenOnce /\ KeepsIdentity
BY StartupImplementsKeyFile, FileIsWrittenOnce, KeyFileKeepsIdentity, PTL

==============================================================================
