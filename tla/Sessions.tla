------------------------------ MODULE Sessions -------------------------------
(***************************************************************************)
(* The session service of the API (SessionService) and the sessions table. *)
(*                                                                         *)
(* A session is a random token the browser holds and a row keyed by the    *)
(* SHA-256 of it.  create computes the expiry before it inserts the row;   *)
(* validate reads the row, compares the expiry afterwards, deletes an      *)
(* expired row and otherwise sends off a refresh of lastSeenAt nobody      *)
(* waits for; revoke deletes the row and hides a failure of the database.  *)
(* Every query is an await other requests run through.                     *)
(*                                                                         *)
(* The id of a row and its token are drawn together, so a row is named by  *)
(* its hash, also where the code deletes or updates it by id.              *)
(***************************************************************************)
EXTENDS Integers, FiniteSets

CONSTANTS
    Req,            \* requests (slots: one serves again when it is idle)
    Token,          \* raw session tokens
    NoToken,        \* the token of a request that never had one
    Hash,           \* the SHA-256 of each token
    SessionTtl      \* SESSION_TTL_MS, in ticks

(* No two tokens have one hash. *)
ASSUME HashAssumption == \A s, t \in Token : Hash[s] = Hash[t] => s = t
ASSUME NoTokenAssumption == NoToken \notin Token
ASSUME SessionTtlAssumption == SessionTtl \in Nat \ {0}

Digest == {Hash[t] : t \in Token}

VARIABLES
    rows,       \* digests that have a row in the sessions table
    left,       \* ticks from now to the expiry of each token, 0 from then on
    minted,     \* tokens drawn so far: generateSecretToken never repeats one
    given,      \* tokens create returned, which a cookie can hold
    touches,    \* digests with a lastSeenAt refresh on its way
    phase,      \* what each request waits for
    tok,        \* the token each request creates or presents
    ended,      \* history: tokens whose revocation the database carried out
    late        \* history: requests whose token had ended when they arrived

vars == <<rows, left, minted, given, touches, phase, tok, ended, late>>

Phases == {"idle", "insert", "find", "check", "purge", "granted", "revoke"}

TypeOK ==
    /\ rows \subseteq Digest
    /\ left \in [Token -> 0 .. SessionTtl]
    /\ minted \subseteq Token
    /\ given \subseteq minted
    /\ touches \subseteq Digest
    /\ phase \in [Req -> Phases]
    /\ tok \in [Req -> Token \cup {NoToken}]
    /\ ended \subseteq given
    /\ late \subseteq Req
    /\ \A r \in Req : phase[r] = "idle" => tok[r] = NoToken /\ r \notin late
    /\ \A r \in Req : phase[r] = "insert" => tok[r] \in minted
    /\ \A r \in Req : phase[r] \notin {"idle", "insert"} => tok[r] \in given
    /\ rows \subseteq {Hash[t] : t \in minted}

Init ==
    /\ rows = {}
    /\ left = [t \in Token |-> 0]
    /\ minted = {}
    /\ given = {}
    /\ touches = {}
    /\ phase = [r \in Req |-> "idle"]
    /\ tok = [r \in Req |-> NoToken]
    /\ ended = {}
    /\ late = {}

-----------------------------------------------------------------------------

Goto(r, p) == phase' = [phase EXCEPT ![r] = p]

(* The request is over, and what it held in its variables with it. *)
End(r) ==
    /\ Goto(r, "idle")
    /\ tok' = [tok EXCEPT ![r] = NoToken]
    /\ late' = late \ {r}

(* MUTANT: the expiry is not looked at. *)
ExpiryIgnored(t) == FALSE

(* session.expiresAt.getTime() <= Date.now() *)
Expired(t) == left[t] = 0

(* A session is over once the database deleted it or its time is up. *)
Over(t) == t \in ended \/ left[t] = 0

Tick ==
    /\ \E t \in Token : left[t] > 0
    /\ left' = [t \in Token |-> IF left[t] > 0 THEN left[t] - 1 ELSE 0]
    /\ UNCHANGED <<rows, minted, given, touches, phase, tok, ended, late>>

-----------------------------------------------------------------------------
(* create *)

(* The token and the expiry, before the query is sent. *)
Mint(r, t) ==
    /\ phase[r] = "idle"
    /\ t \notin minted
    /\ minted' = minted \cup {t}
    /\ left' = [left EXCEPT ![t] = SessionTtl]
    /\ tok' = [tok EXCEPT ![r] = t]
    /\ Goto(r, "insert")
    /\ UNCHANGED <<rows, given, touches, ended, late>>

(* MUTANT: the raw token is stored instead of its hash. *)
InsertRaw(r) ==
    /\ phase[r] = "insert"
    /\ rows' = rows \cup {tok[r]}
    /\ given' = given \cup {tok[r]}
    /\ End(r)
    /\ UNCHANGED <<left, minted, touches, ended>>

Insert(r) ==
    /\ phase[r] = "insert"
    /\ rows' = rows \cup {Hash[tok[r]]}
    /\ given' = given \cup {tok[r]}
    /\ End(r)
    /\ UNCHANGED <<left, minted, touches, ended>>

(* The query throws, the row written or not: nobody is given the token. *)
InsertFails(r) ==
    /\ phase[r] = "insert"
    /\ rows' \in {rows, rows \cup {Hash[tok[r]]}}
    /\ End(r)
    /\ UNCHANGED <<left, minted, given, touches, ended>>

-----------------------------------------------------------------------------
(* validate *)

(* A request presents a token the service gave out. *)
Arrive(r, t) ==
    /\ phase[r] = "idle"
    /\ t \in given
    /\ tok' = [tok EXCEPT ![r] = t]
    /\ late' = IF Over(t) THEN late \cup {r} ELSE late
    /\ Goto(r, "find")
    /\ UNCHANGED <<rows, left, minted, given, touches, ended>>

(* MUTANT: null is not told from a row. *)
FindUnchecked(r) ==
    /\ phase[r] = "find"
    /\ Goto(r, "check")
    /\ UNCHANGED <<rows, left, minted, given, touches, tok, ended, late>>

(* findUnique: null ends the request with 401, a row is taken along. *)
Find(r) ==
    /\ phase[r] = "find"
    /\ IF Hash[tok[r]] \in rows
       THEN Goto(r, "check") /\ UNCHANGED <<tok, late>>
       ELSE End(r)
    /\ UNCHANGED <<rows, left, minted, given, touches, ended>>

(* findUnique throws: the request ends with 500. *)
FindFails(r) ==
    /\ phase[r] = "find"
    /\ End(r)
    /\ UNCHANGED <<rows, left, minted, given, touches, ended>>

(* The row read earlier against the clock of now. *)
Check(r) ==
    /\ phase[r] = "check"
    /\ IF Expired(tok[r])
       THEN Goto(r, "purge") /\ UNCHANGED touches
       ELSE Goto(r, "granted") /\ touches' = touches \cup {Hash[tok[r]]}
    /\ UNCHANGED <<rows, left, minted, given, tok, ended, late>>

(* The expired row goes, or the failure to delete it is swallowed; 401. *)
Purge(r) ==
    /\ phase[r] = "purge"
    /\ rows' \in {rows, rows \ {Hash[tok[r]]}}
    /\ End(r)
    /\ UNCHANGED <<left, minted, given, touches, ended>>

(* MUTANT: the refresh is an upsert. *)
TouchUpserts(h) ==
    /\ h \in touches
    /\ touches' = touches \ {h}
    /\ rows' = rows \cup {h}
    /\ UNCHANGED <<left, minted, given, phase, tok, ended, late>>

(* The lastSeenAt refresh: an update, which does nothing without a row. *)
Touch(h) ==
    /\ h \in touches
    /\ touches' = touches \ {h}
    /\ UNCHANGED <<rows, left, minted, given, phase, tok, ended, late>>

-----------------------------------------------------------------------------
(* What a handler does with a session it was granted *)

(* Any handler but logout answers. *)
Answer(r) ==
    /\ phase[r] = "granted"
    /\ End(r)
    /\ UNCHANGED <<rows, left, minted, given, touches, ended>>

(* logout calls revoke with the token of its cookie. *)
BeginRevoke(r) ==
    /\ phase[r] = "granted"
    /\ Goto(r, "revoke")
    /\ UNCHANGED <<rows, left, minted, given, touches, tok, ended, late>>

(* MUTANT: every session is deleted, not the one of the token. *)
RevokeAll(r) ==
    /\ phase[r] = "revoke"
    /\ rows' = {}
    /\ ended' = ended \cup {tok[r]}
    /\ End(r)
    /\ UNCHANGED <<left, minted, given, touches>>

Revoke(r) ==
    /\ phase[r] = "revoke"
    /\ rows' = rows \ {Hash[tok[r]]}
    /\ ended' = ended \cup {tok[r]}
    /\ End(r)
    /\ UNCHANGED <<left, minted, given, touches>>

(* deleteMany throws before anything is deleted: swallowed, logout answers ok. *)
RevokeFails(r) ==
    /\ phase[r] = "revoke"
    /\ End(r)
    /\ UNCHANGED <<rows, left, minted, given, touches, ended>>

(* The process dies: requests and refreshes are gone, the table stays. *)
Crash ==
    /\ touches # {} \/ \E r \in Req : phase[r] # "idle"
    /\ phase' = [r \in Req |-> "idle"]
    /\ tok' = [r \in Req |-> NoToken]
    /\ late' = {}
    /\ touches' = {}
    /\ UNCHANGED <<rows, left, minted, given, ended>>

-----------------------------------------------------------------------------

Step(r) ==
    \/ Insert(r) \/ InsertFails(r)
    \/ Find(r) \/ FindFails(r) \/ Check(r) \/ Purge(r)
    \/ Answer(r) \/ BeginRevoke(r) \/ Revoke(r) \/ RevokeFails(r)

Next ==
    \/ \E r \in Req : \/ \E t \in Token : Mint(r, t) \/ Arrive(r, t)
                      \/ Step(r)
    \/ \E h \in Digest : Touch(h)
    \/ Crash
    \/ Tick

Spec == Init /\ [][Next]_vars

-----------------------------------------------------------------------------
(* Properties *)

(* A session the database revoked never has a row again: neither a concurrent
   validation, nor its lastSeenAt refresh, nor a late insert brings it back. *)
RevokedStaysGone == \A t \in ended : Hash[t] \notin rows

(* A request that arrives after its session was revoked or has expired is never
   granted the session, whatever it overlaps with.                          *)
NoGrantAfterEnd == \A r \in Req : phase[r] \in {"granted", "revoke"} => r \notin late

(* A session that has time left loses its row only to the logout of a request
   that was granted that very session.                                      *)
OnlyOwnLogoutRevokes ==
    [][\A t \in minted : Hash[t] \in rows \ rows' /\ left[t] > 0 =>
           \E r \in Req : tok[r] = t /\ phase[r] = "revoke"]_vars

(* The life of a session as its row shows it: a token is new until the query that
   inserts its row is over.                                                 *)
Inserting == {tok[r] : r \in {q \in Req : phase[q] = "insert"}}

LifeOf(t) ==
    IF Hash[t] \in rows THEN "live"
    ELSE IF t \in minted \ Inserting THEN "gone" ELSE "new"

(* A request has got hold of a session once findUnique gave it the row. *)
SeenBy(r) ==
    IF phase[r] \in {"check", "purge", "granted", "revoke"} THEN tok[r] ELSE NoToken

Life == INSTANCE SessionLife
            WITH life <- [t \in Token |-> LifeOf(t)],
                 seen <- [r \in Req |-> SeenBy(r)]

(* The service implements SessionLife: a session goes from new to live to gone and
   never back, is given only to requests that found it live, and is ended only
   by a request that holds it, through failures, restarts and every overlap. *)
LifeRespected == Life!Spec
=============================================================================
