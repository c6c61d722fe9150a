----------------------------- MODULE FetchProofs -----------------------------
(***************************************************************************)
(* Cookies and tokens of any number of concurrent fetches, for any number of  *)
(* tokens and whatever the target answers.                                    *)
(***************************************************************************)
EXTENDS Fetch, TLAPS

(* A request and its client are each other's only partner, and what its jar holds   *)
(* and the handler took was set for it.                                             *)
OwnClient(r) ==
    /\ pc[r] # "idle" => client[r] = r
    /\ pc[r] = "idle" => jar[r] = EmptyJar
    /\ pc[r] \in {"idle", "csrf"} => csrf_token[r] = None

OwnTokens(r) ==
    /\ \A s \in Scope : jar[r][s] \in Token => issuedTo[jar[r][s]] = r
    /\ csrf_token[r] \in Token => issuedTo[csrf_token[r]] = r

(* As long as every cookie was kept, and at one scope s, the last token found is the *)
(* one cookie there is, unless that was cleared.                                     *)
LastToken(r) ==
    /\ csrf_token[r] # None => places[r] # {}
    /\ \A s \in Scope : places[r] \subseteq {s} =>
          /\ \A other \in Scope \ {s} : jar[r][other] = None
          /\ csrf_token[r] # None => jar[r][s] \in {csrf_token[r], Cleared}

SentAsHeld(r) ==
    sent[r] # None =>
       /\ sent[r].cookies = CookiesFor(r)
       /\ sent[r].header \in {None, csrf_token[r]}

Parts(r) == OwnClient(r) /\ OwnTokens(r) /\ LastToken(r) /\ SentAsHeld(r)

FInv == FetchTypeOK /\ \A r \in Request : Parts(r)

LEMMA FetchInitEstablishes == Init => FInv
<1> SUFFICES ASSUME Init PROVE FInv  OBVIOUS
<1>1. EmptyJar \in [Scope -> Cookie \cup {None}] /\ Request \subseteq Client
  BY DEF EmptyJar, Client
<1>2. FetchTypeOK  BY <1>1, FetchAssumption DEF Init, FetchTypeOK
<1>3. ASSUME NEW r \in Request PROVE Parts(r)
  BY <1>1, FetchAssumption
     DEF Init, Parts, OwnClient, OwnTokens, LastToken, SentAsHeld, EmptyJar
<1> QED  BY <1>2, <1>3 DEF FInv

(* A cookie set for a request goes into its own jar or nowhere, and belongs to it;  *)
(* no other jar and no other token is touched.                                       *)
LEMMA SetCookieEffect ==
    ASSUME FInv, NEW r \in Request, pc[r] # "idle",
           NEW c \in Cookie, SetCookie(r, c)
    PROVE  /\ jar' \in [Client -> [Scope -> Cookie \cup {None}]]
           /\ issuedTo' \in [Token -> Request \cup {None}]
           /\ places' \in [Request -> SUBSET (Scope \cup {None})]
           /\ \A q \in Request \ {r} : jar'[q] = jar[q] /\ places'[q] = places[q]
           /\ \/ \E s \in Scope : /\ jar'[r] = [jar[r] EXCEPT ![s] = c]
                                  /\ places'[r] = places[r] \cup {s}
              \/ \E s \in Scope : /\ jar'[r] \in {jar[r], [jar[r] EXCEPT ![s] = None]}
                                  /\ places'[r] = places[r] \cup {None}
           /\ c \in Token => issuedTo'[c] = r
           /\ \A t \in Token : issuedTo[t] # None => issuedTo'[t] = issuedTo[t]
<1>1. client[r] = r /\ r \in Client  BY DEF FInv, Parts, OwnClient, Client
<1>2. /\ jar \in [Client -> [Scope -> Cookie \cup {None}]]
      /\ issuedTo \in [Token -> Request \cup {None}]
      /\ places \in [Request -> SUBSET (Scope \cup {None})]
  BY DEF FInv, FetchTypeOK
<1>3. \A q \in Request : q \in Client  BY DEF Client
<1>4. /\ issuedTo' \in [Token -> Request \cup {None}]
      /\ c \in Token => issuedTo'[c] = r
      /\ \A t \in Token : issuedTo[t] # None => issuedTo'[t] = issuedTo[t]
  BY <1>2, FetchAssumption DEF SetCookie
<1>5. PICK s \in Scope :
         \/ /\ jar' = [jar EXCEPT ![r][s] = c]
            /\ places' = [places EXCEPT ![r] = @ \cup {s}]
         \/ /\ jar' = [jar EXCEPT ![r][s] = None]
            /\ places' = [places EXCEPT ![r] = @ \cup {None}]
         \/ /\ jar' = jar
            /\ places' = [places EXCEPT ![r] = @ \cup {None}]
  BY <1>1 DEF SetCookie
<1>6. jar[r] \in [Scope -> Cookie \cup {None}]  BY <1>1, <1>2
<1>7. CASE jar' = [jar EXCEPT ![r][s] = c] /\ places' = [places EXCEPT ![r] = @ \cup {s}]
  <2>1. /\ jar' \in [Client -> [Scope -> Cookie \cup {None}]]
        /\ jar'[r] = [jar[r] EXCEPT ![s] = c]
        /\ \A q \in Request \ {r} : jar'[q] = jar[q]
    BY <1>1, <1>2, <1>3, <1>6, <1>7
  <2>2. /\ places' \in [Request -> SUBSET (Scope \cup {None})]
        /\ places'[r] = places[r] \cup {s}
        /\ \A q \in Request \ {r} : places'[q] = places[q]
    BY <1>2, <1>7
  <2> QED  BY <1>4, <2>1, <2>2
<1>8. CASE /\ jar' = [jar EXCEPT ![r][s] = None] \/ jar' = jar
           /\ places' = [places EXCEPT ![r] = @ \cup {None}]
  <2>1. /\ jar' \in [Client -> [Scope -> Cookie \cup {None}]]
        /\ jar'[r] \in {jar[r], [jar[r] EXCEPT ![s] = None]}
        /\ \A q \in Request \ {r} : jar'[q] = jar[q]
    BY <1>1, <1>2, <1>3, <1>6, <1>8
  <2>2. /\ places' \in [Request -> SUBSET (Scope \cup {None})]
        /\ places'[r] = places[r] \cup {None}
        /\ \A q \in Request \ {r} : places'[q] = places[q]
    BY <1>2, <1>8
  <2> QED  BY <1>4, <2>1, <2>2
<1> QED  BY <1>5, <1>7, <1>8

(* Steps that set no cookie change neither jars nor owners, so what a request     *)
(* holds stays its own.                                                           *)
LEMMA QuietStep ==
    ASSUME FInv, FetchTypeOK', UNCHANGED <<jar, csrf_token, issuedTo, places>>,
           NEW r \in Request, OwnClient(r)', SentAsHeld(r)',
           \A q \in Request \ {r} :
              pc'[q] = pc[q] /\ client'[q] = client[q] /\ sent'[q] = sent[q]
    PROVE  FInv'
<1> SUFFICES ASSUME NEW q \in Request PROVE Parts(q)'
  BY DEF FInv, Parts
<1>1. OwnTokens(q)' /\ LastToken(q)'  BY DEF FInv, Parts, OwnTokens, LastToken
<1>2. OwnClient(q)' /\ SentAsHeld(q)'
  BY DEF FInv, Parts, OwnClient, SentAsHeld, CookiesFor
<1> QED  BY <1>1, <1>2 DEF Parts

(* Steps that change the jar of r: the others keep what they had. *)
LEMMA CookieStep ==
    ASSUME FInv, FetchTypeOK', NEW r \in Request, pc[r] # "idle", pc[r] # "sent",
           \A q \in Request \ {r} : jar'[q] = jar[q] /\ places'[q] = places[q],
           \A t \in Token : issuedTo[t] # None => issuedTo'[t] = issuedTo[t],
           UNCHANGED <<pc, client, sent>>,
           \A q \in Request \ {r} : csrf_token'[q] = csrf_token[q],
           OwnTokens(r)', LastToken(r)',
           pc[r] = "csrf" => csrf_token'[r] = None
    PROVE  FInv'
<1>1. sent[r] = None  BY DEF FInv, FetchTypeOK
<1> SUFFICES ASSUME NEW q \in Request PROVE Parts(q)'
  BY DEF FInv, Parts
<1>2. CASE q = r
  <2>1. OwnClient(q)' /\ SentAsHeld(q)'
    BY <1>1, <1>2 DEF FInv, Parts, OwnClient, SentAsHeld
  <2> QED  BY <1>2, <2>1 DEF Parts
<1>3. CASE q # r
  <2>1. OwnTokens(q)'
    BY <1>3, FetchAssumption DEF FInv, Parts, OwnTokens
  <2>2. OwnClient(q)' /\ LastToken(q)' /\ SentAsHeld(q)'
    BY <1>3 DEF FInv, Parts, OwnClient, LastToken, SentAsHeld, CookiesFor
  <2> QED  BY <2>1, <2>2 DEF Parts
<1> QED  BY <1>2, <1>3

(* What the handler takes of a cookie set for it is its own, and the last. *)
LEMMA CookieTaken ==
    ASSUME FInv, NEW r \in Request, pc[r] # "idle",
           NEW c \in Cookie, SetCookie(r, c),
           csrf_token'[r] = IF c \in Token THEN c ELSE csrf_token[r]
    PROVE  OwnTokens(r)' /\ LastToken(r)'
<1>1. /\ r \in Client /\ jar[r] \in [Scope -> Cookie \cup {None}]
      /\ csrf_token[r] \in Token \cup {None}
      /\ None \notin Scope
      /\ c # None
  BY FetchAssumption DEF FInv, FetchTypeOK, Client, Cookie
<1>2. /\ c \in Token => issuedTo'[c] = r
      /\ \A t \in Token : issuedTo[t] # None => issuedTo'[t] = issuedTo[t]
  BY SetCookieEffect
<1>3. OwnTokens(r) /\ LastToken(r)  BY DEF FInv, Parts
<1>4. csrf_token'[r] \in Token => issuedTo'[csrf_token'[r]] = r
  BY <1>1, <1>2, <1>3, FetchAssumption DEF OwnTokens
<1>5. c \in Token \/ c = Cleared  BY DEF Cookie
<1>6. CASE \E s \in Scope : /\ jar'[r] = [jar[r] EXCEPT ![s] = c]
                            /\ places'[r] = places[r] \cup {s}
  <2>1. PICK s \in Scope : /\ jar'[r] = [jar[r] EXCEPT ![s] = c]
                          /\ places'[r] = places[r] \cup {s}
    BY <1>6
  <2>2. jar'[r][s] = c /\ \A x \in Scope \ {s} : jar'[r][x] = jar[r][x]
    BY <1>1, <2>1
  <2>3. ASSUME NEW x \in Scope, jar'[r][x] \in Token
        PROVE  issuedTo'[jar'[r][x]] = r
    BY <1>2, <1>3, <2>2, <2>3, FetchAssumption DEF OwnTokens
  <2>4. ASSUME NEW x \in Scope, places'[r] \subseteq {x}
        PROVE  /\ \A other \in Scope \ {x} : jar'[r][other] = None
               /\ csrf_token'[r] # None => jar'[r][x] \in {csrf_token'[r], Cleared}
    <3>1. x = s /\ places[r] \subseteq {s}  BY <2>1, <2>4
    <3>2. \A other \in Scope \ {s} : jar[r][other] = None
      BY <1>3, <3>1 DEF LastToken
    <3> QED  BY <1>5, <2>2, <3>1, <3>2
  <2>5. places'[r] # {}  BY <2>1
  <2> QED  BY <1>4, <2>3, <2>4, <2>5 DEF OwnTokens, LastToken
<1>7. CASE \E s \in Scope : /\ jar'[r] \in {jar[r], [jar[r] EXCEPT ![s] = None]}
                            /\ places'[r] = places[r] \cup {None}
  <2>1. PICK s \in Scope : /\ jar'[r] \in {jar[r], [jar[r] EXCEPT ![s] = None]}
                          /\ places'[r] = places[r] \cup {None}
    BY <1>7
  <2>2. \A x \in Scope : jar'[r][x] \in {jar[r][x], None}  BY <1>1, <2>1
  <2>3. ASSUME NEW x \in Scope, jar'[r][x] \in Token
        PROVE  issuedTo'[jar'[r][x]] = r
    BY <1>2, <1>3, <2>2, <2>3, FetchAssumption DEF OwnTokens
  <2>4. \A x \in Scope : ~(places'[r] \subseteq {x})  BY <1>1, <2>1
  <2>5. places'[r] # {}  BY <2>1
  <2> QED  BY <1>4, <2>3, <2>4, <2>5 DEF OwnTokens, LastToken
<1> QED  BY <1>6, <1>7, SetCookieEffect

LEMMA BuildClientKeeps ==
    ASSUME FInv, NEW r \in Request, NEW t \in TargetServer, BuildClient(r, t)
    PROVE  FInv'
<1> USE DEF FInv, Parts, BuildClient, Goto
<1>1. t.csrf \in BOOLEAN  BY DEF TargetServer
<1>2. FetchTypeOK'
  BY <1>1, FetchAssumption, AbsenceAssumption DEF FetchTypeOK, Client
<1>3. OwnClient(r)'  BY <1>1 DEF FetchTypeOK, OwnClient
<1>4. SentAsHeld(r)'  BY DEF FetchTypeOK, SentAsHeld, CookiesFor
<1> QED  BY <1>2, <1>3, <1>4, QuietStep DEF FetchTypeOK

(* Of a redirect the handler takes nothing, and it has nothing yet. *)
LEMMA CookieRedirected ==
    ASSUME FInv, NEW r \in Request, pc[r] = "csrf",
           NEW c \in Cookie, SetCookie(r, c), csrf_token' = csrf_token
    PROVE  OwnTokens(r)' /\ LastToken(r)'
<1>1. /\ csrf_token'[r] = None /\ None \notin Token /\ None \notin Scope
      /\ jar[r] \in [Scope -> Cookie \cup {None}]
  BY FetchAssumption DEF FInv, Parts, OwnClient, FetchTypeOK, Client
<1>2. /\ c \in Token => issuedTo'[c] = r
      /\ \A t \in Token : issuedTo[t] # None => issuedTo'[t] = issuedTo[t]
  BY SetCookieEffect
<1>3. OwnTokens(r) /\ LastToken(r)  BY DEF FInv, Parts
<1>4. CASE \E s \in Scope : /\ jar'[r] = [jar[r] EXCEPT ![s] = c]
                            /\ places'[r] = places[r] \cup {s}
  <2>1. PICK s \in Scope : /\ jar'[r] = [jar[r] EXCEPT ![s] = c]
                          /\ places'[r] = places[r] \cup {s}
    BY <1>4
  <2>2. jar'[r][s] = c /\ \A x \in Scope \ {s} : jar'[r][x] = jar[r][x]
    BY <1>1, <2>1
  <2>3. ASSUME NEW x \in Scope, jar'[r][x] \in Token
        PROVE  issuedTo'[jar'[r][x]] = r
    BY <1>2, <1>3, <2>2, <2>3, FetchAssumption DEF OwnTokens
  <2>4. ASSUME NEW x \in Scope, places'[r] \subseteq {x}
        PROVE  \A other \in Scope \ {x} : jar'[r][other] = None
    <3>1. x = s /\ places[r] \subseteq {s}  BY <2>1, <2>4
    <3> QED  BY <1>3, <2>2, <3>1 DEF LastToken
  <2> QED  BY <1>1, <2>3, <2>4 DEF OwnTokens, LastToken
<1>5. CASE \E s \in Scope : /\ jar'[r] \in {jar[r], [jar[r] EXCEPT ![s] = None]}
                            /\ places'[r] = places[r] \cup {None}
  <2>1. PICK s \in Scope : /\ jar'[r] \in {jar[r], [jar[r] EXCEPT ![s] = None]}
                          /\ places'[r] = places[r] \cup {None}
    BY <1>5
  <2>2. \A x \in Scope : jar'[r][x] \in {jar[r][x], None}  BY <1>1, <2>1
  <2>3. ASSUME NEW x \in Scope, jar'[r][x] \in Token
        PROVE  issuedTo'[jar'[r][x]] = r
    BY <1>2, <1>3, <2>2, <2>3, FetchAssumption DEF OwnTokens
  <2>4. \A x \in Scope : ~(places'[r] \subseteq {x})  BY <1>1, <2>1
  <2> QED  BY <1>1, <2>3, <2>4 DEF OwnTokens, LastToken
<1> QED  BY <1>4, <1>5, SetCookieEffect

LEMMA RedirectKeeps ==
    ASSUME FInv, NEW r \in Request, NEW c \in Cookie, CsrfRedirected(r, c)
    PROVE  FInv'
<1>1. /\ pc[r] = "csrf" /\ SetCookie(r, c)
      /\ UNCHANGED <<pc, target, client, csrf_token, sent>>
  BY DEF CsrfRedirected
<1>2. csrf_token[r] = None  BY <1>1 DEF FInv, Parts, OwnClient
<1>3. FetchTypeOK'  BY <1>1, SetCookieEffect DEF FInv, FetchTypeOK
<1>4. OwnTokens(r)' /\ LastToken(r)'  BY <1>1, <1>2, CookieRedirected
<1>5. /\ \A q \in Request \ {r} : jar'[q] = jar[q] /\ places'[q] = places[q]
      /\ \A t \in Token : issuedTo[t] # None => issuedTo'[t] = issuedTo[t]
  BY <1>1, SetCookieEffect
<1> QED  BY <1>1, <1>2, <1>3, <1>4, <1>5, CookieStep

LEMMA TakeCookieKeeps ==
    ASSUME FInv, NEW r \in Request, NEW c \in Cookie, TakeCookie(r, c)
    PROVE  FInv'
<1>1. /\ pc[r] = "cookies" /\ SetCookie(r, c)
      /\ UNCHANGED <<pc, target, client, sent>>
  BY DEF TakeCookie
<1>2. csrf_token \in [Request -> Token \cup {None}]  BY DEF FInv, FetchTypeOK
<1>3. csrf_token' \in [Request -> Token \cup {None}]  BY <1>2 DEF TakeCookie
<1>4. FetchTypeOK'  BY <1>1, <1>3, SetCookieEffect DEF FInv, FetchTypeOK
<1>5. csrf_token'[r] = IF c \in Token THEN c ELSE csrf_token[r]
  BY <1>2 DEF TakeCookie
<1>6. OwnTokens(r)' /\ LastToken(r)'  BY <1>1, <1>5, CookieTaken
<1>7. \A q \in Request \ {r} : csrf_token'[q] = csrf_token[q]
  BY <1>2 DEF TakeCookie
<1>8. /\ \A q \in Request \ {r} : jar'[q] = jar[q] /\ places'[q] = places[q]
      /\ \A t \in Token : issuedTo[t] # None => issuedTo'[t] = issuedTo[t]
  BY <1>1, SetCookieEffect
<1> QED  BY <1>1, <1>4, <1>6, <1>7, <1>8, CookieStep

LEMMA ExpiryKeeps ==
    ASSUME FInv, NEW r \in Request, NEW s \in Scope, CookieExpires(r, s)
    PROVE  FInv'
<1>1. /\ pc[r] \in {"csrf", "request"} /\ client[r] = r
      /\ UNCHANGED <<pc, target, client, csrf_token, sent, issuedTo>>
  BY DEF CookieExpires, FInv, Parts, OwnClient
<1>2. /\ jar' = [jar EXCEPT ![r][s] = None]
      /\ places' = [places EXCEPT ![r] = @ \cup {None}]
  BY <1>1 DEF CookieExpires
<1>3. /\ jar \in [Client -> [Scope -> Cookie \cup {None}]]
      /\ places \in [Request -> SUBSET (Scope \cup {None})]
      /\ r \in Client /\ Request \subseteq Client
  BY DEF FInv, FetchTypeOK, Client
<1>4. /\ jar' \in [Client -> [Scope -> Cookie \cup {None}]]
      /\ places' \in [Request -> SUBSET (Scope \cup {None})]
      /\ \A q \in Request \ {r} : jar'[q] = jar[q] /\ places'[q] = places[q]
      /\ places'[r] = places[r] \cup {None}
      /\ \A x \in Scope : jar'[r][x] \in {jar[r][x], None}
  BY <1>2, <1>3
<1>5. FetchTypeOK'  BY <1>1, <1>4 DEF FInv, FetchTypeOK
<1>6. OwnTokens(r)'
  BY <1>1, <1>4, FetchAssumption DEF FInv, Parts, OwnTokens
<1>7. LastToken(r)'
  <2>1. \A x \in Scope : ~(places'[r] \subseteq {x})
    BY <1>4, FetchAssumption
  <2> QED  BY <1>4, <2>1 DEF LastToken
<1>8. pc[r] = "csrf" => csrf_token'[r] = None
  BY <1>1 DEF FInv, Parts, OwnClient
<1> QED  BY <1>1, <1>4, <1>5, <1>6, <1>7, <1>8, CookieStep

LEMMA SendKeeps ==
    ASSUME FInv, NEW r \in Request, SendRequest(r)
    PROVE  FInv'
<1> USE DEF FInv, Parts, SendRequest, Goto
<1>1. client[r] = r  BY DEF OwnClient
<1>2. CookiesFor(r) \subseteq Cookie /\ csrf_token[r] \in Token \cup {None}
  BY FetchAssumption DEF FetchTypeOK, Client, CookiesFor
<1>3. sent'[r] = [cookies |-> CookiesFor(r),
                  header |-> IF target[r].method = "POST" THEN csrf_token[r]
                             ELSE None]
  BY <1>1 DEF FetchTypeOK
<1>4. sent'[r] \in Sent  BY <1>2, <1>3 DEF Sent
<1>5. FetchTypeOK'  BY <1>4, AbsenceAssumption, <1>3 DEF FetchTypeOK
<1>6. OwnClient(r)'  BY DEF OwnClient, FetchTypeOK
<1>7. SentAsHeld(r)'  BY <1>3 DEF SentAsHeld, CookiesFor
<1> QED  BY <1>5, <1>6, <1>7, QuietStep DEF FetchTypeOK

(* The steps that only move a handler on. *)
LEMMA MoveKeeps ==
    ASSUME FInv, NEW r \in Request,
           CsrfAnswered(r) \/ CsrfFails(r) \/ CookiesTaken(r) \/ Drop(r)
    PROVE  FInv'
<1> USE DEF FInv, Parts, CsrfAnswered, CsrfFails, CookiesTaken, Drop, Goto
<1>1. FetchTypeOK'  BY DEF FetchTypeOK
<1>2. OwnClient(r)'  BY DEF OwnClient, FetchTypeOK
<1>3. SentAsHeld(r)'  BY DEF SentAsHeld, CookiesFor
<1> QED  BY <1>1, <1>2, <1>3, QuietStep DEF FetchTypeOK

LEMMA FetchNextPreserves == FInv /\ [Next]_vars => FInv'
<1> SUFFICES ASSUME FInv, [Next]_vars PROVE FInv'  OBVIOUS
<1>1. CASE UNCHANGED vars
  BY <1>1 DEF vars, FInv, Parts, FetchTypeOK, OwnClient, OwnTokens, LastToken, SentAsHeld, CookiesFor
<1>2. CASE Next
  BY <1>2, BuildClientKeeps, RedirectKeeps, TakeCookieKeeps, ExpiryKeeps, SendKeeps, MoveKeeps
     DEF Next
<1> QED  BY <1>1, <1>2

(* The inductive invariant: every request has a client, a jar and tokens of its   *)
(* own (server.rs, the per-request client).                                        *)
THEOREM FetchInvariantHolds == Spec => []FInv
BY FetchInitEstablishes, FetchNextPreserves, PTL DEF Spec

(* Locals and jars keep their types; an empty cookie never becomes a token.        *)
THEOREM FetchTypesCorrect == Spec => []FetchTypeOK
<1>1. FInv => FetchTypeOK  BY DEF FInv
<1> QED  BY <1>1, FetchInvariantHolds, PTL

(* No cookie and no token of one notarization is sent by another, for any number   *)
(* of concurrent requests and any answers of the target.                            *)
THEOREM CookiesDoNotCross == Spec => []NoCookieCrossing
<1>1. ASSUME FInv, NEW r \in Request, sent[r] # None
      PROVE  /\ \A c \in sent[r].cookies \cap Token : issuedTo[c] = r
             /\ sent[r].header \in Token => issuedTo[sent[r].header] = r
  <2>1. OwnTokens(r) /\ SentAsHeld(r)  BY <1>1 DEF FInv, Parts
  <2>2. \A c \in CookiesFor(r) \cap Token : issuedTo[c] = r
    BY <2>1, FetchAssumption DEF OwnTokens, CookiesFor
  <2>3. sent[r].header \in Token => issuedTo[sent[r].header] = r
    BY <1>1, <2>1, FetchAssumption DEF OwnTokens, SentAsHeld
  <2> QED  BY <1>1, <2>1, <2>2, <2>3 DEF SentAsHeld
<1>2. FInv => NoCookieCrossing  BY <1>1 DEF NoCookieCrossing
<1> QED  BY <1>2, FetchInvariantHolds, PTL

(* From a target that keeps its token in one cookie that reaches the request, the   *)
(* header of a request agrees with its cookie unless that was cleared last.          *)
THEOREM HeaderMatchesCookie == Spec => []DoubleSubmit
<1>1. ASSUME FInv, NEW r \in Request, sent[r] # None, sent[r].header # None,
             OnePlace(r)
      PROVE  sent[r].cookies = {sent[r].header} \/ sent[r].cookies = {Cleared}
  <2>1. PICK s \in Reaching : places[r] \subseteq {s}  BY <1>1 DEF OnePlace
  <2>2. LastToken(r) /\ SentAsHeld(r) /\ s \in Scope
    BY <1>1, FetchAssumption DEF FInv, Parts
  <2>3. sent[r].header = csrf_token[r] /\ sent[r].cookies = CookiesFor(r)
    BY <1>1, <2>2 DEF SentAsHeld
  <2>4. /\ \A other \in Scope \ {s} : jar[r][other] = None
        /\ jar[r][s] \in {csrf_token[r], Cleared}
    BY <1>1, <2>1, <2>2, <2>3 DEF LastToken
  <2>5. jar[r][s] # None  BY <1>1, <2>3, <2>4, FetchAssumption
  <2>6. CookiesFor(r) = {jar[r][s]}
    BY <2>4, <2>5, FetchAssumption DEF CookiesFor
  <2> QED  BY <2>3, <2>4, <2>6
<1>2. FInv => DoubleSubmit  BY <1>1 DEF DoubleSubmit
<1> QED  BY <1>2, FetchInvariantHolds, PTL

==============================================================================
