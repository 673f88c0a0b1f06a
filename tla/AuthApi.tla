------------------------------- MODULE AuthApi -------------------------------
(***************************************************************************)
(* The authentication API: AuthController with its two global guards, put  *)
(* together from the login rate limiter (RateLimit) and the session        *)
(* service (Sessions), and the browser that holds the two cookies.         *)
(*                                                                         *)
(* A login counts its attempt, verifies the credentials, stamps the user,  *)
(* writes an audit event, clears the counter, creates a session and        *)
(* answers with a session cookie and a CSRF cookie.  Every other route     *)
(* passes AuthGuard, which validates the session, and then CsrfGuard,      *)
(* which compares a header with the CSRF cookie on mutating requests;      *)
(* logout revokes the session and clears both cookies.  Each await is a    *)
(* step of its own.  Requests of several tabs run side by side, a response *)
(* can arrive late or never, a query can throw and the process can die.    *)
(*                                                                         *)
(* One browser is modelled.  The CSRF token of a login is named after the  *)
(* session token of that login: they are drawn together, and only whether  *)
(* two CSRF tokens are equal matters.  Requests that end before they touch *)
(* any state (no cookie, a malformed body) are left out.                   *)
(***************************************************************************)
EXTENDS Integers, FiniteSets

CONSTANTS
    Req, Ident, MaxAttempts, Window,        \* see RateLimit
    Token, NoToken, Hash, SessionTtl        \* see Sessions

(* What the two components assume of their constants; and finitely many sessions
   are begun, so that they can be counted.                                  *)
ASSUME LimiterAssumption == MaxAttempts \in Nat \ {0} /\ Window \in Nat \ {0}
ASSUME SessionsAssumption ==
    /\ \A s, t \in Token : Hash[s] = Hash[t] => s = t
    /\ NoToken \notin Token
    /\ SessionTtl \in Nat \ {0}
ASSUME TokensAssumption == IsFiniteSet(Token)

VARIABLES
    count, ttl, at, who, passes, faulted,                       \* see RateLimit
    rows, left, minted, given, touches, phase, tok, ended, late, \* see Sessions
    doing,      \* what the handler of each request is at; "nothing" without one
    csrfOk,     \* requests whose CSRF cookie and header agree
    audits,     \* auth.login events written, counted up to AuditCap
    out,        \* the response of each request on its way to the browser
    cookie,     \* kiln_session in the browser: a token, or NoToken
    csrf,       \* kiln_csrf in the browser: the token of a login, or NoToken
    csrfLeft    \* remaining ticks of kiln_csrf

rateVars == <<count, ttl, at, who, passes, faulted>>
sessionVars == <<rows, left, minted, given, touches, phase, tok, ended, late>>
handlerVars == <<doing, csrfOk, audits, out>>
browserVars == <<cookie, csrf, csrfLeft>>
vars == <<rateVars, sessionVars, handlerVars, browserVars>>

RL == INSTANCE RateLimit
S == INSTANCE Sessions

(* No more audit events are told apart than there are sessions to audit. *)
AuditCap == Cardinality(Token)

Doings == {"nothing", "user", "lastLogin", "audit", "create", "me", "logout"}

(* Responses that set cookies; those that do not are gone with their request. *)
NoResponse == [to |-> "none", token |-> NoToken]
LoginDone(t) == [to |-> "login", token |-> t]
LogoutDone == [to |-> "logout", token |-> NoToken]

TypeOK ==
    /\ RL!TypeOK
    /\ S!TypeOK
    /\ doing \in [Req -> Doings]
    /\ csrfOk \subseteq Req
    /\ audits \in 0 .. AuditCap
    /\ out \in [Req -> {NoResponse, LogoutDone} \cup {LoginDone(t) : t \in given}]
    /\ cookie \in given \cup {NoToken}
    /\ csrf \in given \cup {NoToken}
    /\ csrfLeft \in 0 .. SessionTtl
    /\ csrf = NoToken <=> csrfLeft = 0

Init ==
    /\ RL!Init
    /\ S!Init
    /\ doing = [r \in Req |-> "nothing"]
    /\ csrfOk = {}
    /\ audits = 0
    /\ out = [r \in Req |-> NoResponse]
    /\ cookie = NoToken
    /\ csrf = NoToken
    /\ csrfLeft = 0

Idle(r) == doing[r] = "nothing" /\ out[r] = NoResponse

Proceed(r, d) == doing' = [doing EXCEPT ![r] = d]

(* The request is over, and what its handler held with it. *)
Leave(r) == Proceed(r, "nothing") /\ csrfOk' = csrfOk \ {r}

-----------------------------------------------------------------------------
(* login, up to the credentials *)

Login(r, i) ==
    /\ Idle(r)
    /\ RL!Arrive(r, i)
    /\ Proceed(r, "user")
    /\ UNCHANGED <<sessionVars, csrfOk, audits, out, browserVars>>

(* MUTANT: the limiter's error is caught and the login goes on. *)
AttemptIgnoringLimit(r) ==
    LET reply == RL!Incremented(count[who[r]])
        next == IF reply = 1 THEN "expire" ELSE "admitted"
    IN  /\ at[r] = "incr"
        /\ count' = [count EXCEPT ![who[r]] = reply]
        /\ at' = [at EXCEPT ![r] = next]
        /\ UNCHANGED <<ttl, who, passes, faulted>>
        /\ UNCHANGED <<sessionVars, handlerVars, browserVars>>

(* assertLoginAllowed, which goes on to the credentials or answers 429. *)
Attempt(r) ==
    /\ RL!Incr(r) \/ RL!Expire(r)
    /\ IF at'[r] = "idle" THEN Leave(r) ELSE UNCHANGED <<doing, csrfOk>>
    /\ UNCHANGED <<sessionVars, audits, out, browserVars>>

(* Redis executes a command of the limiter once more. *)
Resend(r) ==
    /\ RL!Resend(r)
    /\ UNCHANGED <<sessionVars, handlerVars, browserVars>>

(* A command of the limiter throws, wherever its login has got to: 500. *)
CommandFails(r) ==
    /\ RL!CommandFails(r)
    /\ Leave(r)
    /\ UNCHANGED <<sessionVars, audits, out, browserVars>>

-----------------------------------------------------------------------------
(* verifyCredentials *)

Verifying(r, d) == at[r] = "admitted" /\ doing[r] = d

(* It throws: the login ends with 401 or 500. *)
Throw(r) ==
    /\ RL!Fail(r)
    /\ Leave(r)

(* MUTANT: a rejected login clears the counter too. *)
RejectClears(r) ==
    /\ Verifying(r, "user")
    /\ RL!BeginClear(r)
    /\ UNCHANGED <<sessionVars, handlerVars, browserVars>>

(* No such user, a wrong password, an error of argon2 or of the query. *)
Reject(r) ==
    /\ Verifying(r, "user")
    /\ Throw(r)
    /\ UNCHANGED <<sessionVars, audits, out, browserVars>>

Accept(r) ==
    /\ Verifying(r, "user")
    /\ Proceed(r, "lastLogin")
    /\ UNCHANGED <<rateVars, sessionVars, csrfOk, audits, out, browserVars>>

(* user.update, which may throw. *)
StampUser(r) ==
    /\ Verifying(r, "lastLogin")
    /\ \/ Proceed(r, "audit") /\ UNCHANGED <<rateVars, csrfOk>>
       \/ Throw(r)
    /\ UNCHANGED <<sessionVars, audits, out, browserVars>>

OneMoreAudit == IF audits = AuditCap THEN AuditCap ELSE audits + 1

(* auditEvent.create, then verifyCredentials returns. *)
WriteAudit(r) ==
    /\ Verifying(r, "audit")
    /\ RL!BeginClear(r)
    /\ Proceed(r, "create")
    /\ audits' = OneMoreAudit
    /\ UNCHANGED <<sessionVars, csrfOk, out, browserVars>>

(* MUTANT: a failure to write the audit event is swallowed. *)
AuditFailsSilently(r) ==
    /\ Verifying(r, "audit")
    /\ RL!BeginClear(r)
    /\ Proceed(r, "create")
    /\ UNCHANGED <<sessionVars, csrfOk, audits, out, browserVars>>

(* auditEvent.create throws, the event written or not. *)
AuditFails(r) ==
    /\ Verifying(r, "audit")
    /\ Throw(r)
    /\ audits' \in {audits, OneMoreAudit}
    /\ UNCHANGED <<sessionVars, out, browserVars>>

-----------------------------------------------------------------------------
(* login, from the credentials to the response *)

(* The counter is cleared, and create draws its token in the same turn. *)
ClearAndMint(r, t) ==
    /\ RL!Clear(r)
    /\ S!Mint(r, t)
    /\ UNCHANGED <<handlerVars, browserVars>>

(* MUTANT: the response does not wait for the row. *)
CreateWithoutWaiting(r) ==
    /\ phase[r] = "insert"
    /\ given' = given \cup {tok[r]}
    /\ S!End(r)
    /\ out' = [out EXCEPT ![r] = LoginDone(tok[r])]
    /\ Leave(r)
    /\ UNCHANGED <<rows, left, minted, touches, ended>>
    /\ UNCHANGED <<rateVars, audits, browserVars>>

(* The row is written; the response carries both cookies. *)
Create(r) ==
    /\ S!Insert(r)
    /\ out' = [out EXCEPT ![r] = LoginDone(tok[r])]
    /\ Leave(r)
    /\ UNCHANGED <<rateVars, audits, browserVars>>

(* MUTANT: the cookies are set before the failure of the insert is noticed. *)
CreateFailsWithCookies(r) ==
    /\ S!InsertFails(r)
    /\ out' = [out EXCEPT ![r] = LoginDone(tok[r])]
    /\ Leave(r)
    /\ UNCHANGED <<rateVars, audits, browserVars>>

CreateFails(r) ==
    /\ S!InsertFails(r)
    /\ Leave(r)
    /\ UNCHANGED <<rateVars, audits, out, browserVars>>

-----------------------------------------------------------------------------
(* Routes behind the guards *)

(* The browser sends its cookies as they are; the page adds a header, taken from
   the CSRF cookie, kept from the answer to an earlier login, or none.      *)
Send(r, route) ==
    /\ Idle(r)
    /\ cookie # NoToken
    /\ S!Arrive(r, cookie)
    /\ Proceed(r, route)
    /\ \E header \in given \cup {NoToken} :
           csrfOk' = IF route = "logout" /\ csrf # NoToken /\ header = csrf
                     THEN csrfOk \cup {r} ELSE csrfOk
    /\ UNCHANGED <<rateVars, audits, out, browserVars>>

(* AuthGuard: validate, which ends the request with 401 or 500 or grants it. *)
Authenticate(r) ==
    /\ S!Find(r) \/ S!FindFails(r) \/ S!Check(r) \/ S!Purge(r)
    /\ IF phase'[r] = "idle" THEN Leave(r) ELSE UNCHANGED <<doing, csrfOk>>
    /\ UNCHANGED <<rateVars, audits, out, browserVars>>

(* MUTANT: the CSRF comparison is left out. *)
EnterLogoutUnchecked(r) ==
    /\ doing[r] = "logout"
    /\ S!BeginRevoke(r)
    /\ UNCHANGED <<rateVars, handlerVars, browserVars>>

(* CsrfGuard lets the request through and logout calls revoke. *)
EnterLogout(r) ==
    /\ doing[r] = "logout"
    /\ r \in csrfOk
    /\ S!BeginRevoke(r)
    /\ UNCHANGED <<rateVars, handlerVars, browserVars>>

(* CsrfGuard refuses a mutating request: 403. *)
Forbid(r) ==
    /\ doing[r] = "logout"
    /\ r \notin csrfOk
    /\ S!Answer(r)
    /\ Leave(r)
    /\ UNCHANGED <<rateVars, audits, out, browserVars>>

(* A safe method passes CsrfGuard as it is. *)
Me(r) ==
    /\ doing[r] = "me"
    /\ S!Answer(r)
    /\ Leave(r)
    /\ UNCHANGED <<rateVars, audits, out, browserVars>>

(* logout answers ok and clears both cookies, whatever became of the row. *)
Logout(r) ==
    /\ S!Revoke(r) \/ S!RevokeFails(r)
    /\ out' = [out EXCEPT ![r] = LogoutDone]
    /\ Leave(r)
    /\ UNCHANGED <<rateVars, audits, browserVars>>

RefreshLastSeen(h) ==
    /\ S!Touch(h)
    /\ UNCHANGED <<rateVars, handlerVars, browserVars>>

-----------------------------------------------------------------------------
(* The browser, time and failures *)

(* The response reaches the browser, with what it does to the cookies. *)
Received(r) ==
    /\ out' = [out EXCEPT ![r] = NoResponse]
    /\ UNCHANGED <<rateVars, sessionVars, doing, csrfOk, audits>>

(* MUTANT: the CSRF cookie is set to live one tick less. *)
DeliverLoginShortCsrf(r) ==
    LET t == out[r].token
    IN  /\ out[r].to = "login"
        /\ cookie' = IF left[t] > 0 THEN t ELSE NoToken
        /\ csrf' = IF SessionTtl > 1 THEN t ELSE NoToken
        /\ csrfLeft' = SessionTtl - 1
        /\ Received(r)

(* The session cookie lives until the expiry of the row (a cookie past it is
   dropped at once), the CSRF cookie for SESSION_TTL_MS from now.           *)
DeliverLogin(r) ==
    LET t == out[r].token
    IN  /\ out[r].to = "login"
        /\ cookie' = IF left[t] > 0 THEN t ELSE NoToken
        /\ csrf' = t
        /\ csrfLeft' = SessionTtl
        /\ Received(r)

DeliverLogout(r) ==
    /\ out[r].to = "logout"
    /\ cookie' = NoToken
    /\ csrf' = NoToken
    /\ csrfLeft' = 0
    /\ Received(r)

(* The response is lost: the browser keeps the cookies it has. *)
LoseResponse(r) ==
    /\ out[r] # NoResponse
    /\ Received(r)
    /\ UNCHANGED browserVars

(* The session cookie reaches the date of its expires attribute. *)
CookieLapses == cookie # NoToken /\ left'[cookie] = 0

RateTick ==
    \/ RL!Tick
    \/ (\A i \in Ident : ttl[i] = RL!NoExpiry) /\ UNCHANGED rateVars

SessionTick ==
    \/ S!Tick
    \/ (\A t \in Token : left[t] = 0) /\ UNCHANGED sessionVars

(* The clock of everybody: Redis, the API and the browser. *)
Tick ==
    /\ RateTick
    /\ SessionTick
    /\ cookie' = IF CookieLapses THEN NoToken ELSE cookie
    /\ csrfLeft' = IF csrfLeft > 0 THEN csrfLeft - 1 ELSE 0
    /\ csrf' = IF csrfLeft > 1 THEN csrf ELSE NoToken
    /\ UNCHANGED handlerVars

RateCrash ==
    \/ RL!Crash
    \/ (\A r \in Req : at[r] = "idle") /\ UNCHANGED rateVars

SessionCrash ==
    \/ S!Crash
    \/ (\A r \in Req : phase[r] = "idle") /\ touches = {} /\ UNCHANGED sessionVars

(* The API process dies and starts again; a response already sent may still
   arrive.                                                                  *)
Crash ==
    /\ RateCrash
    /\ SessionCrash
    /\ doing' = [r \in Req |-> "nothing"]
    /\ csrfOk' = {}
    /\ UNCHANGED <<audits, out, browserVars>>

-----------------------------------------------------------------------------

Handle(r) ==
    \/ Attempt(r) \/ Resend(r) \/ CommandFails(r)
    \/ Reject(r) \/ Accept(r) \/ StampUser(r) \/ WriteAudit(r) \/ AuditFails(r)
    \/ \E t \in Token : ClearAndMint(r, t)
    \/ Create(r) \/ CreateFails(r)
    \/ Authenticate(r) \/ EnterLogout(r) \/ Forbid(r) \/ Me(r) \/ Logout(r)

Next ==
    \/ \E r \in Req : \/ \E i \in Ident : Login(r, i)
                      \/ \E route \in {"me", "logout"} : Send(r, route)
                      \/ Handle(r)
                      \/ DeliverLogin(r) \/ DeliverLogout(r) \/ LoseResponse(r)
    \/ \E h \in S!Digest : RefreshLastSeen(h)
    \/ Tick
    \/ Crash

Spec == Init /\ [][Next]_vars

-----------------------------------------------------------------------------
(* Properties *)

(* What the handlers do to the counters and to the sessions is what the rate
   limiter and the session service allow, so their properties hold here: no path
   through a login skips the limiter, counts twice or answers before the row. *)
LimiterRespected == RL!Spec
SessionsRespected == S!Spec

(* A browser that holds a session holds the CSRF cookie of the same login, until
   the session expires, in whatever order the responses of several tabs arrive
   or get lost: a page that echoes its CSRF cookie is never refused with 403. *)
CookiePair == cookie # NoToken => csrf = cookie

(* No session without its audit event: whatever fails or dies on the way, there
   are at least as many auth.login events as sessions ever begun.           *)
SessionsAudited == Cardinality(minted) <= audits

(* revoke runs for no request but a logout that showed a matching CSRF token and
   a session that was neither revoked nor expired when it was sent.         *)
LogoutGuarded ==
    \A r \in Req : phase[r] = "revoke" => doing[r] = "logout" /\ r \in csrfOk \ late

(* A counter of failed attempts is forgotten when its window ends or when a login
   with its identifier has proved its credentials, and for nothing else.    *)
ForgottenForCause ==
    [][\A i \in Ident : count[i] > 0 /\ count'[i] = 0 =>
           \/ ttl[i] = 1 /\ UNCHANGED at
           \/ \E r \in Req : doing[r] = "create" /\ at[r] = "clear" /\ who[r] = i]_vars
=============================================================================
