-------------------------------- MODULE Fetch --------------------------------
(***************************************************************************)
(* What Notary's fetch step does until the target request is on its way       *)
(* (zktls-notary/src/server.rs, notarize, steps A and B): a fresh HTTP        *)
(* client, a GET that acquires a CSRF token if the template asks for one, a    *)
(* pause, and the request itself, for any number of requests at once.  That    *)
(* the client cannot be built, and what becomes of the answer, is in Notary.    *)
(*                                                                          *)
(* Of a client only its cookie jar matters, and of the jar only the cookies of  *)
(* the name that carries the token.  The jar keeps one for every scope (domain   *)
(* and path): none, one that was cleared, or a token.  The target hands out      *)
(* tokens as it likes, each of them once, for any scope, and may redirect the    *)
(* GET, to other hosts too; the client follows by itself, with the jar.  The     *)
(* jar minds scope and expiry, the handler reads the headers and minds neither.  *)
(* A value is taken to read the same in the header line and in the jar.          *)
(***************************************************************************)
EXTENDS Naturals

CONSTANTS
    Request,
    Token,      \* tokens the target may hand out; bounds how many
    Cleared,    \* a cookie set to the empty value
    None,       \* no cookie, no token, nothing sent
    Scope,      \* domains and paths a cookie may be set for
    Reaching,   \* those that match the target request
    shared      \* NotaryState.http_client, which every request could use

ASSUME FetchAssumption ==
    /\ Cleared \notin Token /\ None \notin Token
    /\ Cleared # None
    /\ Reaching \subseteq Scope /\ None \notin Scope
    /\ shared \notin Request /\ None \notin Request

VARIABLES
    pc,         \* where each request's handler is
    target,     \* its template's method, and whether it has a CsrfConfig
    client,     \* the HTTP client it uses
    jar,        \* each client's cookie store, by scope
    csrf_token, \* the handler's local
    sent,       \* what the target request carried
    issuedTo,   \* the request in whose answer the target set a token
    places      \* the scopes whose cookie a request's answers set; None: one
                \* that the jar did not keep, or not until now

vars == <<pc, target, client, jar, csrf_token, sent, issuedTo, places>>

TargetServer == [method : {"GET", "POST"}, csrf : BOOLEAN]

(* A client of its own is named after the request that builds it. *)
Client == Request \cup {shared}

Cookie == Token \cup {Cleared}

Sent == [cookies : SUBSET Cookie, header : Token \cup {None}]

EmptyJar == [s \in Scope |-> None]

FetchTypeOK ==
    /\ pc \in [Request -> {"idle", "csrf", "cookies", "request", "sent", "dropped"}]
    /\ target \in [Request -> TargetServer \cup {None}]
    /\ client \in [Request -> Client \cup {None}]
    /\ jar \in [Client -> [Scope -> Cookie \cup {None}]]
    /\ csrf_token \in [Request -> Token \cup {None}]
    /\ sent \in [Request -> Sent \cup {None}]
    /\ issuedTo \in [Token -> Request \cup {None}]
    /\ places \in [Request -> SUBSET (Scope \cup {None})]
    /\ \A r \in Request :
          /\ pc[r] # "idle" => target[r] \in TargetServer /\ client[r] \in Client
          /\ sent[r] # None <=> pc[r] = "sent"

ASSUME AbsenceAssumption == None \notin TargetServer \cup Sent

Init ==
    /\ pc = [r \in Request |-> "idle"]
    /\ target = [r \in Request |-> None]
    /\ client = [r \in Request |-> None]
    /\ jar = [c \in Client |-> EmptyJar]
    /\ csrf_token = [r \in Request |-> None]
    /\ sent = [r \in Request |-> None]
    /\ issuedTo = [t \in Token |-> None]
    /\ places = [r \in Request |-> {}]

Goto(r, step) == pc' = [pc EXCEPT ![r] = step]

------------------------------------------------------------------------------
(* A fault in BuildClient below: the one client of the server's state serves     *)
(* every request.  NoCookieCrossing.                                             *)
BuildShared(r, t) ==
    /\ pc[r] = "idle"
    /\ target' = [target EXCEPT ![r] = t]
    /\ client' = [client EXCEPT ![r] = shared]
    /\ Goto(r, IF t.csrf THEN "csrf" ELSE "request")
    /\ UNCHANGED <<jar, csrf_token, sent, issuedTo, places>>

(* A client per notarization, its jar empty. *)
BuildClient(r, t) ==
    /\ pc[r] = "idle"
    /\ target' = [target EXCEPT ![r] = t]
    /\ client' = [client EXCEPT ![r] = r]
    /\ Goto(r, IF t.csrf THEN "csrf" ELSE "request")
    /\ UNCHANGED <<jar, csrf_token, sent, issuedTo, places>>

(* The target sets the token cookie for some scope in an answer to r.  The jar    *)
(* puts it in the place of the one it has there, or (it expires at once) removes   *)
(* that one, or (a scope the answering host may not set, say) does neither.        *)
SetCookie(r, c) ==
    /\ \E s \in Scope :
          \/ /\ jar' = [jar EXCEPT ![client[r]][s] = c]
             /\ places' = [places EXCEPT ![r] = @ \cup {s}]
          \/ /\ jar' = [jar EXCEPT ![client[r]][s] = None]
             /\ places' = [places EXCEPT ![r] = @ \cup {None}]
          \/ /\ UNCHANGED jar
             /\ places' = [places EXCEPT ![r] = @ \cup {None}]
    /\ IF c \in Token
       THEN issuedTo[c] = None /\ issuedTo' = [issuedTo EXCEPT ![c] = r]
       ELSE UNCHANGED issuedTo

(* An answer that redirects: its cookies reach the jar, not the handler. *)
CsrfRedirected(r, c) ==
    /\ pc[r] = "csrf"
    /\ SetCookie(r, c)
    /\ UNCHANGED <<pc, target, client, csrf_token, sent>>

CsrfAnswered(r) ==
    /\ pc[r] = "csrf"
    /\ Goto(r, "cookies")
    /\ UNCHANGED <<target, client, jar, csrf_token, sent, issuedTo, places>>

(* An error, or the client's timeout, is logged and nothing else. *)
CsrfFails(r) ==
    /\ pc[r] = "csrf"
    /\ Goto(r, "request")
    /\ UNCHANGED <<target, client, jar, csrf_token, sent, issuedTo, places>>

(* Faults in TakeCookie below.  The first cookie wins: DoubleSubmit. *)
TakeFirstCookie(r, c) ==
    /\ pc[r] = "cookies"
    /\ SetCookie(r, c)
    /\ csrf_token' = IF c \in Token /\ csrf_token[r] = None
                     THEN [csrf_token EXCEPT ![r] = c] ELSE csrf_token
    /\ UNCHANGED <<pc, target, client, sent>>

(* An empty cookie is taken for a token: FetchTypeOK. *)
TakeEmptyCookie(r, c) ==
    /\ pc[r] = "cookies"
    /\ SetCookie(r, c)
    /\ csrf_token' = [csrf_token EXCEPT ![r] = c]
    /\ UNCHANGED <<pc, target, client, sent>>

(* One round of the loop over the set-cookie headers of the answer, whatever    *)
(* its status: every token found replaces the one before.                       *)
TakeCookie(r, c) ==
    /\ pc[r] = "cookies"
    /\ SetCookie(r, c)
    /\ csrf_token' = IF c \in Token THEN [csrf_token EXCEPT ![r] = c]
                     ELSE csrf_token
    /\ UNCHANGED <<pc, target, client, sent>>

CookiesTaken(r) ==
    /\ pc[r] = "cookies"
    /\ Goto(r, "request")
    /\ UNCHANGED <<target, client, jar, csrf_token, sent, issuedTo, places>>

(* A cookie's lifetime ends before the request is sent. *)
CookieExpires(r, s) ==
    /\ pc[r] \in {"csrf", "request"}
    /\ jar[client[r]][s] # None
    /\ jar' = [jar EXCEPT ![client[r]][s] = None]
    /\ places' = [places EXCEPT ![r] = @ \cup {None}]
    /\ UNCHANGED <<pc, target, client, csrf_token, sent, issuedTo>>

CookiesFor(c) == {jar[c][s] : s \in Reaching} \ {None}

(* After the pause the request goes out with the jar's cookies that match it; a  *)
(* POST has the token header too, if there is a token.                            *)
SendRequest(r) ==
    /\ pc[r] = "request"
    /\ sent' = [sent EXCEPT ![r] =
                  [cookies |-> CookiesFor(client[r]),
                   header |-> IF target[r].method = "POST" THEN csrf_token[r]
                              ELSE None]]
    /\ Goto(r, "sent")
    /\ UNCHANGED <<target, client, jar, csrf_token, issuedTo, places>>

(* The client of the notary disconnects during the GET or the pause. *)
Drop(r) ==
    /\ pc[r] = "csrf" \/ (pc[r] = "request" /\ target[r].csrf)
    /\ Goto(r, "dropped")
    /\ UNCHANGED <<target, client, jar, csrf_token, sent, issuedTo, places>>

Next ==
    \E r \in Request :
       \/ \E t \in TargetServer : BuildClient(r, t)
       \/ \E c \in Cookie : CsrfRedirected(r, c)
       \/ CsrfAnswered(r)
       \/ CsrfFails(r)
       \/ \E c \in Cookie : TakeCookie(r, c)
       \/ CookiesTaken(r)
       \/ \E s \in Scope : CookieExpires(r, s)
       \/ SendRequest(r)
       \/ Drop(r)

Spec == Init /\ [][Next]_vars

------------------------------------------------------------------------------
(* Properties *)

(* The cookies and the header a request sends were set by the target in answer   *)
(* to this very request: no session of one notarization leaks into another       *)
(* (server.rs: "A per-request client guarantees a clean jar").                    *)
NoCookieCrossing ==
    \A r \in Request : sent[r] # None =>
       /\ \A c \in sent[r].cookies \cap Token : issuedTo[c] = r
       /\ sent[r].header \in Token => issuedTo[sent[r].header] = r

(* All the token cookies set in answers to r are for one scope, that of the target *)
(* request, and were kept.                                                         *)
OnePlace(r) == \E s \in Reaching : places[r] \subseteq {s}

(* A target that keeps its token in one cookie, which reaches the request and does *)
(* not expire, finds header and cookie equal, however many cookies it set and       *)
(* redirects it sent before, unless the last one it set was empty (server.rs, the   *)
(* loop over set-cookie).  Of other targets nothing is said: the handler looks at   *)
(* neither domain, path nor expiry, so header and cookies may differ.               *)
DoubleSubmit ==
    \A r \in Request :
       sent[r] # None /\ sent[r].header # None /\ OnePlace(r)
       => sent[r].cookies = {sent[r].header} \/ sent[r].cookies = {Cleared}

==============================================================================
