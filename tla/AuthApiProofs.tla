---------------------------- MODULE AuthApiProofs -----------------------------
(***************************************************************************)
(* Proofs about the authentication API, for any requests, identifiers,     *)
(* limits and lifetimes and any finite set of tokens.                      *)
(*                                                                         *)
(* A step of the API is a step, or no step, of the rate limiter and of the *)
(* session service, so what is proved of them holds here: their proofs are *)
(* brought in (RP, SP) instead of being repeated.                          *)
(***************************************************************************)
EXTENDS AuthApi, FiniteSetTheorems, TLAPS

RP == INSTANCE RateLimitProofs
SP == INSTANCE SessionsProofs

-----------------------------------------------------------------------------
(* The components' proofs speak of the components of this module *)

LEMMA LimiterAssumed == RP!MaxAttemptsAssumption /\ RP!WindowAssumption
  BY LimiterAssumption DEF RP!MaxAttemptsAssumption, RP!WindowAssumption

LEMMA SessionsAssumed ==
    SP!HashAssumption /\ SP!NoTokenAssumption /\ SP!SessionTtlAssumption
  BY SessionsAssumption DEF SP!HashAssumption, SP!NoTokenAssumption, SP!SessionTtlAssumption

LEMMA SameLimiter ==
    /\ RL!TypeOK <=> RP!TypeOK
    /\ [RL!Next]_(RL!vars) <=> [RP!Next]_(RP!vars)
<1>2. RL!TypeOK <=> RP!TypeOK
  BY DEF RL!TypeOK, RP!TypeOK, RL!CountCap, RP!CountCap, RL!NoExpiry, RP!NoExpiry,
         RL!Stages, RP!Stages
<1>3. [RL!Next]_(RL!vars) <=> [RP!Next]_(RP!vars)
  BY DEF RL!Next, RP!Next, RL!vars, RP!vars, RL!Arrive, RP!Arrive, RL!Step, RP!Step,
         RL!Incr, RP!Incr, RL!Expire, RP!Expire, RL!Fail, RP!Fail, RL!BeginClear,
         RP!BeginClear, RL!Clear, RP!Clear, RL!Del, RP!Del, RL!Resend, RP!Resend,
         RL!CommandFails, RP!CommandFails, RL!Executed, RP!Executed,
         RL!Tick, RP!Tick, RL!Crash, RP!Crash, RL!Survives, RP!Survives,
         RL!Incremented, RP!Incremented, RL!CountCap, RP!CountCap, RL!AfterIncr,
         RP!AfterIncr, RL!NoExpiry, RP!NoExpiry
<1> QED
  BY <1>2, <1>3

LEMMA SameSessions ==
    /\ S!TypeOK <=> SP!TypeOK
    /\ [S!Next]_(S!vars) <=> [SP!Next]_(SP!vars)
    /\ S!NoGrantAfterEnd <=> SP!NoGrantAfterEnd
<1>2. S!TypeOK <=> SP!TypeOK
  BY DEF S!TypeOK, SP!TypeOK, S!Digest, SP!Digest, S!Phases, SP!Phases
<1>3. [S!Next]_(S!vars) <=> [SP!Next]_(SP!vars)
  BY DEF S!Next, SP!Next, S!vars, SP!vars, S!Step, SP!Step, S!Mint, SP!Mint,
         S!Arrive, SP!Arrive, S!Insert, SP!Insert, S!InsertFails, SP!InsertFails,
         S!Find, SP!Find, S!FindFails, SP!FindFails, S!Check, SP!Check, S!Purge, SP!Purge,
         S!Answer, SP!Answer, S!BeginRevoke, SP!BeginRevoke, S!Revoke, SP!Revoke,
         S!RevokeFails, SP!RevokeFails, S!Touch, SP!Touch, S!Crash, SP!Crash,
         S!Tick, SP!Tick, S!Goto, SP!Goto, S!End, SP!End, S!Over, SP!Over,
         S!Expired, SP!Expired, S!Digest, SP!Digest
<1>4. S!NoGrantAfterEnd <=> SP!NoGrantAfterEnd
  BY DEF S!NoGrantAfterEnd, SP!NoGrantAfterEnd
<1> QED
  BY <1>2, <1>3, <1>4

LEMMA SameSessionsSpec == S!Spec <=> SP!Spec
<1>1. S!Init <=> SP!Init
  BY DEF S!Init, SP!Init
<1> QED
  BY <1>1, SameSessions, PTL DEF S!Spec, SP!Spec

LEMMA SessionTypeKept == S!TypeOK /\ [S!Next]_(S!vars) => S!TypeOK'
<1>1. SP!TypeOK /\ [SP!Next]_(SP!vars) => SP!TypeOK'
  BY SessionsAssumed, SP!TypeInductive
<1>2. S!TypeOK' <=> SP!TypeOK'
  BY DEF S!TypeOK, SP!TypeOK, S!Digest, SP!Digest, S!Phases, SP!Phases
<1> QED
  BY <1>1, <1>2, SameSessions

LEMMA LimiterTypeKept == RL!TypeOK /\ [RL!Next]_(RL!vars) => RL!TypeOK'
<1>1. RP!TypeOK /\ [RP!Next]_(RP!vars) => RP!TypeOK'
  BY LimiterAssumed, RP!TypeInductive
<1>2. RL!TypeOK' <=> RP!TypeOK'
  BY DEF RL!TypeOK, RP!TypeOK, RL!CountCap, RP!CountCap, RL!NoExpiry, RP!NoExpiry,
         RL!Stages, RP!Stages
<1> QED
  BY <1>1, <1>2, SameLimiter

-----------------------------------------------------------------------------
(* Every step is one of the components, or none of theirs *)

LEMMA LimiterStep == [Next]_vars => [RL!Next]_(RL!vars)
<1> SUFFICES ASSUME [Next]_vars
             PROVE  RL!Next \/ UNCHANGED rateVars
  BY DEF RL!vars, rateVars
<1>1. CASE UNCHANGED vars \/ Tick \/ Crash \/ \E h \in S!Digest : RefreshLastSeen(h)
  BY <1>1 DEF vars, Tick, RateTick, Crash, RateCrash, RefreshLastSeen, RL!Next
<1>2. ASSUME NEW r \in Req,
             (\E i \in Ident : Login(r, i)) \/ Attempt(r) \/ Resend(r) \/ CommandFails(r)
      PROVE  RL!Next
  BY <1>2 DEF Login, Attempt, Resend, CommandFails, RL!Next, RL!Step
<1>3. ASSUME NEW r \in Req,
             \/ Reject(r) \/ Accept(r) \/ StampUser(r) \/ WriteAudit(r) \/ AuditFails(r)
             \/ \E t \in Token : ClearAndMint(r, t)
      PROVE  RL!Next \/ UNCHANGED rateVars
  BY <1>3 DEF Reject, Accept, StampUser, WriteAudit, AuditFails, Throw, ClearAndMint,
              RL!Next, RL!Step
<1>4. ASSUME NEW r \in Req,
             \/ Create(r) \/ CreateFails(r) \/ Authenticate(r) \/ EnterLogout(r)
             \/ Forbid(r) \/ Me(r) \/ Logout(r)
             \/ \E route \in {"me", "logout"} : Send(r, route)
             \/ DeliverLogin(r) \/ DeliverLogout(r) \/ LoseResponse(r)
      PROVE  UNCHANGED rateVars
  BY <1>4 DEF Create, CreateFails, Authenticate, EnterLogout, Forbid, Me, Logout, Send,
              DeliverLogin, DeliverLogout, LoseResponse, Received
<1> QED
  BY <1>1, <1>2, <1>3, <1>4 DEF Next, Handle

LEMMA SessionStep == S!TypeOK /\ [Next]_vars => [S!Next]_(S!vars)
<1> SUFFICES ASSUME S!TypeOK, [Next]_vars
             PROVE  S!Next \/ UNCHANGED sessionVars
  BY DEF S!vars, sessionVars
<1>1. CASE UNCHANGED vars \/ Tick \/ Crash \/ \E h \in S!Digest : RefreshLastSeen(h)
  BY <1>1 DEF vars, Tick, SessionTick, Crash, SessionCrash, RefreshLastSeen, S!Next
<1>2. ASSUME NEW r \in Req,
             \/ \E i \in Ident : Login(r, i)
             \/ Attempt(r) \/ Resend(r) \/ CommandFails(r)
             \/ Reject(r) \/ Accept(r) \/ StampUser(r)
             \/ WriteAudit(r) \/ AuditFails(r)
             \/ DeliverLogin(r) \/ DeliverLogout(r) \/ LoseResponse(r)
      PROVE  UNCHANGED sessionVars
  BY <1>2 DEF Login, Attempt, Resend, CommandFails, Reject, Accept, StampUser, WriteAudit,
     AuditFails,
              DeliverLogin, DeliverLogout, LoseResponse, Received
<1>3. ASSUME NEW r \in Req,
             \/ \E t \in Token : ClearAndMint(r, t)
             \/ Create(r) \/ CreateFails(r) \/ Authenticate(r) \/ EnterLogout(r)
             \/ Forbid(r) \/ Me(r) \/ Logout(r)
      PROVE  S!Next
  BY <1>3 DEF ClearAndMint, Create, CreateFails, Authenticate, EnterLogout, Forbid, Me,
              Logout, S!Next, S!Step
<1>4. ASSUME NEW r \in Req, NEW route \in {"me", "logout"}, Send(r, route)
      PROVE  S!Next
  <2>1. S!Arrive(r, cookie)
    BY <1>4 DEF Send
  <2>2. cookie \in Token
    BY <2>1 DEF S!Arrive, S!TypeOK
  <2> QED
    BY <2>1, <2>2 DEF S!Next
<1> QED
  BY <1>1, <1>2, <1>3, <1>4 DEF Next, Handle

(* Whatever the handlers, the browser and failures do, the login rate limiter and
   the session service only ever take steps of their own specifications.    *)
THEOREM ComponentsRespected == Spec => LimiterRespected /\ SessionsRespected
<1>1. Init => RL!Init /\ S!Init
  BY DEF Init
<1>2. S!Init => S!TypeOK
  BY SessionsAssumption DEF S!Init, S!TypeOK, S!Phases, S!Digest
<1> QED
  BY <1>1, <1>2, LimiterStep, SessionStep, SessionTypeKept, PTL
     DEF Spec, LimiterRespected, SessionsRespected, RL!Spec, S!Spec

-----------------------------------------------------------------------------
(* Types *)

(* The sessions a cookie can hold are never taken back. *)
LEMMA GivenGrows == S!TypeOK /\ [Next]_vars => given \subseteq given'
<1> SUFFICES ASSUME S!TypeOK, [S!Next]_(S!vars)
             PROVE  given \subseteq given'
  BY SessionStep
<1> QED
  BY DEF S!Next, S!vars, S!Step, S!Mint, S!Arrive, S!Insert, S!InsertFails, S!Find,
         S!FindFails, S!Check, S!Purge, S!Answer, S!BeginRevoke, S!Revoke, S!RevokeFails,
         S!Touch, S!Crash, S!Tick

LEMMA AuditCapNat == AuditCap \in Nat
  BY TokensAssumption, FS_CardinalityType DEF AuditCap

(* The handlers' and the browser's part of TypeOK. *)
HandlersOK ==
    /\ doing \in [Req -> Doings]
    /\ csrfOk \subseteq Req
    /\ audits \in 0 .. AuditCap
    /\ out \in [Req -> {NoResponse, LogoutDone} \cup {LoginDone(t) : t \in given}]
    /\ cookie \in given \cup {NoToken}
    /\ csrf \in given \cup {NoToken}
    /\ csrfLeft \in 0 .. SessionTtl
    /\ csrf = NoToken <=> csrfLeft = 0

LEMMA HandlersKept ==
    ASSUME S!TypeOK, HandlersOK, [Next]_vars
    PROVE  HandlersOK'
<1> USE DEF HandlersOK, Doings, Proceed, Leave
<1>0. /\ given \subseteq Token /\ given \subseteq given'
      /\ NoToken \notin Token /\ SessionTtl \in Nat \ {0}
  BY GivenGrows, SessionsAssumption DEF S!TypeOK
<1>1. out \in [Req -> {NoResponse, LogoutDone} \cup {LoginDone(t) : t \in given'}]
  BY <1>0
<1>2. CASE UNCHANGED vars
  BY <1>2 DEF vars, handlerVars, browserVars, sessionVars
<1>3. ASSUME NEW r \in Req,
             \/ \E i \in Ident : Login(r, i)
             \/ Attempt(r) \/ Resend(r) \/ CommandFails(r)
             \/ Reject(r) \/ Accept(r) \/ StampUser(r)
      PROVE  HandlersOK'
  BY <1>0, <1>3 DEF Login, Attempt, Resend, CommandFails, Reject, Accept, StampUser, Throw,
     sessionVars,
     handlerVars, browserVars
<1>4. ASSUME NEW r \in Req, WriteAudit(r) \/ AuditFails(r)
      PROVE  HandlersOK'
  <2>1. OneMoreAudit \in 0 .. AuditCap
    BY AuditCapNat DEF OneMoreAudit
  <2> QED
    BY <1>0, <1>4, <2>1 DEF WriteAudit, AuditFails, Throw, sessionVars, browserVars
<1>5. ASSUME NEW r \in Req,
             \/ \E t \in Token : ClearAndMint(r, t)
             \/ CreateFails(r) \/ Authenticate(r) \/ EnterLogout(r) \/ Forbid(r) \/ Me(r)
             \/ \E route \in {"me", "logout"} : Send(r, route)
      PROVE  HandlersOK'
  BY <1>0, <1>1, <1>5 DEF ClearAndMint, CreateFails, Authenticate, EnterLogout, Forbid, Me,
     Send, handlerVars, browserVars
<1>6. ASSUME NEW r \in Req, Create(r)
      PROVE  HandlersOK'
  <2>1. tok[r] \in given'
    BY <1>6 DEF Create, S!Insert
  <2> QED
    BY <1>0, <1>1, <1>6, <2>1 DEF Create, browserVars
<1>7. ASSUME NEW r \in Req, Logout(r)
      PROVE  HandlersOK'
  BY <1>0, <1>1, <1>7 DEF Logout, browserVars
<1>8. ASSUME NEW r \in Req, DeliverLogin(r)
      PROVE  HandlersOK'
  <2>1. out[r].token \in given /\ given' = given
    BY <1>8 DEF DeliverLogin, Received, NoResponse, LogoutDone, LoginDone, sessionVars
  <2> QED
    BY <1>0, <1>8, <2>1 DEF DeliverLogin, Received
<1>9. ASSUME NEW r \in Req, DeliverLogout(r) \/ LoseResponse(r)
      PROVE  HandlersOK'
  BY <1>0, <1>9 DEF DeliverLogout, LoseResponse, Received, sessionVars, browserVars
<1>10. CASE \E h \in S!Digest : RefreshLastSeen(h)
  BY <1>0, <1>1, <1>10 DEF RefreshLastSeen, handlerVars, browserVars
<1>11. CASE Crash
  BY <1>0, <1>1, <1>11 DEF Crash, browserVars
<1>12. CASE Tick
  BY <1>0, <1>1, <1>12 DEF Tick, handlerVars
<1> QED
  BY <1>2, <1>3, <1>4, <1>5, <1>6, <1>7, <1>8, <1>9, <1>10, <1>11, <1>12 DEF Next, Handle

LEMMA TypeInductive == TypeOK /\ [Next]_vars => TypeOK'
<1>1. TypeOK <=> RL!TypeOK /\ S!TypeOK /\ HandlersOK
  BY DEF TypeOK, HandlersOK
<1>2. TypeOK' <=> RL!TypeOK' /\ S!TypeOK' /\ HandlersOK'
  BY DEF TypeOK, HandlersOK
<1> QED
  BY <1>1, <1>2, LimiterStep, SessionStep, LimiterTypeKept, SessionTypeKept, HandlersKept

(* Every state of the API has the declared types: among them, that a cookie and a
   response only ever carry tokens whose session was begun.                 *)
THEOREM TypeCorrect == Spec => []TypeOK
<1>1. Init => TypeOK
  <2>1. Init => RL!TypeOK
    <3>1. Init => count \in [Ident -> 0 .. RL!CountCap]
      BY LimiterAssumption DEF Init, RL!Init, RL!CountCap
    <3>2. Init => ttl \in [Ident -> {RL!NoExpiry} \cup 1 .. Window]
      BY DEF Init, RL!Init
    <3>3. Init => at \in [Req -> RL!Stages] /\ passes \in [Ident -> Nat]
      BY DEF Init, RL!Init, RL!Stages
    <3> QED
      BY <3>1, <3>2, <3>3 DEF Init, RL!Init, RL!TypeOK
  <2>2. Init => S!TypeOK
    BY SessionsAssumption DEF Init, S!Init, S!TypeOK, S!Phases, S!Digest
  <2>3. Init => HandlersOK
    <3>1. 0 \in 0 .. AuditCap
      BY AuditCapNat
    <3> QED
      BY <3>1, SessionsAssumption DEF Init, HandlersOK, Doings
  <2> QED
    BY <2>1, <2>2, <2>3 DEF TypeOK, HandlersOK
<1> QED
  BY <1>1, TypeInductive, PTL DEF Spec

-----------------------------------------------------------------------------
(* Where a request is in its handler and in the components *)

(* What the handler of a request is at fixes where the limiter and the session
   service have it, and only a logout that showed a matching CSRF token gets to
   revoke.                                                                  *)
Together(r) ==
    /\ doing[r] = "nothing" => at[r] = "idle" /\ phase[r] = "idle"
    /\ doing[r] = "user" => at[r] \in {"incr", "expire", "admitted"} /\ phase[r] = "idle"
    /\ doing[r] \in {"lastLogin", "audit"} => at[r] = "admitted" /\ phase[r] = "idle"
    /\ doing[r] = "create" => \/ at[r] = "clear" /\ phase[r] = "idle"
                              \/ at[r] = "idle" /\ phase[r] = "insert"
    /\ doing[r] \in {"me", "logout"} =>
           at[r] = "idle" /\ phase[r] \in {"find", "check", "purge", "granted", "revoke"}
    /\ phase[r] = "revoke" => doing[r] = "logout" /\ r \in csrfOk

HandlersTogether == \A r \in Req : Together(r)

LEMMA TogetherKept ==
    ASSUME TypeOK, HandlersTogether, [Next]_vars,
           NEW q \in Req
    PROVE  Together(q)'
<1> USE DEF Together, Proceed, Leave, Doings, Idle, Verifying, rateVars, sessionVars,
            handlerVars, browserVars
<1>0. /\ Together(q)
      /\ at \in [Req -> RL!Stages] /\ phase \in [Req -> S!Phases] /\ doing \in [Req -> Doings]
  BY DEF HandlersTogether, TypeOK, RL!TypeOK, S!TypeOK
<1>1. CASE UNCHANGED vars \/ \E h \in S!Digest : RefreshLastSeen(h)
  BY <1>0, <1>1 DEF vars, RefreshLastSeen, S!Touch
<1>2. ASSUME NEW r \in Req,
             (\E i \in Ident : Login(r, i)) \/ Attempt(r) \/ Resend(r) \/ CommandFails(r)
      PROVE  Together(q)'
  BY <1>0, <1>2 DEF HandlersTogether, Login, Attempt, Resend, CommandFails, RL!Arrive,
     RL!Incr, RL!Expire,
     RL!Resend, RL!CommandFails, RL!AfterIncr
<1>3. ASSUME NEW r \in Req,
             Reject(r) \/ Accept(r) \/ StampUser(r) \/ WriteAudit(r) \/ AuditFails(r)
      PROVE  Together(q)'
  BY <1>0, <1>3 DEF HandlersTogether, Reject, Accept, StampUser, WriteAudit, AuditFails, Throw,
     RL!Fail, RL!BeginClear
<1>4. ASSUME NEW r \in Req,
             (\E t \in Token : ClearAndMint(r, t)) \/ Create(r) \/ CreateFails(r)
      PROVE  Together(q)'
  BY <1>0, <1>4 DEF HandlersTogether, ClearAndMint, Create, CreateFails, RL!Clear, S!Mint,
     S!Insert, S!InsertFails, S!Goto, S!End
<1>5. ASSUME NEW r \in Req, NEW route \in {"me", "logout"}, Send(r, route)
      PROVE  Together(q)'
  BY <1>0, <1>5 DEF HandlersTogether, Send, S!Arrive, S!Goto
<1>6. ASSUME NEW r \in Req, Authenticate(r)
      PROVE  Together(q)'
  BY <1>0, <1>6 DEF HandlersTogether, Authenticate, S!Find, S!FindFails, S!Check, S!Purge,
     S!Goto, S!End
<1>7. ASSUME NEW r \in Req, EnterLogout(r) \/ Forbid(r) \/ Me(r) \/ Logout(r)
      PROVE  Together(q)'
  BY <1>0, <1>7 DEF HandlersTogether, EnterLogout, Forbid, Me, Logout, S!BeginRevoke,
     S!Answer, S!Revoke, S!RevokeFails, S!Goto, S!End
<1>8. ASSUME NEW r \in Req, DeliverLogin(r) \/ DeliverLogout(r) \/ LoseResponse(r)
      PROVE  Together(q)'
  BY <1>0, <1>8 DEF DeliverLogin, DeliverLogout, LoseResponse, Received
<1>9. CASE Tick
  BY <1>0, <1>9 DEF Tick, RateTick, SessionTick, RL!Tick, S!Tick
<1>10. CASE Crash
  BY <1>0, <1>10 DEF Crash, RateCrash, SessionCrash, RL!Crash, S!Crash
<1> QED
  BY <1>1, <1>2, <1>3, <1>4, <1>5, <1>6, <1>7, <1>8, <1>9, <1>10 DEF Next, Handle

(* In every behaviour revoke runs only for a logout that showed a matching CSRF
   token and whose session had neither been revoked nor expired when it came. *)
THEOREM LogoutsGuarded == Spec => []LogoutGuarded
<1>1. Init => HandlersTogether
  BY DEF Init, RL!Init, S!Init, HandlersTogether, Together
<1>2. TypeOK /\ HandlersTogether /\ [Next]_vars => HandlersTogether'
  BY TogetherKept DEF HandlersTogether
<1>3. Spec => []S!NoGrantAfterEnd
  <2>1. SP!Spec => []SP!NoGrantAfterEnd
    BY SessionsAssumed, SP!LateNeverGranted
  <2> QED
    BY <2>1, ComponentsRespected, SameSessions, SameSessionsSpec, PTL DEF SessionsRespected
<1>4. HandlersTogether /\ S!NoGrantAfterEnd => LogoutGuarded
  BY DEF HandlersTogether, Together, S!NoGrantAfterEnd, LogoutGuarded
<1> QED
  BY <1>1, <1>2, <1>3, <1>4, TypeCorrect, PTL DEF Spec

-----------------------------------------------------------------------------
(* Audit events *)

Clearing == {r \in Req : at[r] = "clear"}

(* Every login that is past its audit event, and every session begun, has an event
   of its own, up to the bound at which events are no longer told apart.    *)
AuditsCover ==
    /\ IsFiniteSet(Clearing)
    /\ audits < AuditCap => Cardinality(minted) + Cardinality(Clearing) <= audits

LEMMA Counts ==
    ASSUME TypeOK
    PROVE  /\ IsFiniteSet(minted) /\ Cardinality(minted) \in Nat
           /\ Cardinality(minted) <= AuditCap
           /\ AuditCap \in Nat /\ audits \in Nat /\ audits <= AuditCap
<1>1. minted \subseteq Token /\ audits \in 0 .. AuditCap
  BY DEF TypeOK, S!TypeOK
<1> QED
  BY <1>1, AuditCapNat, TokensAssumption, FS_Subset, FS_CardinalityType DEF AuditCap

LEMMA AuditsCoverKept ==
    ASSUME TypeOK, AuditsCover, [Next]_vars
    PROVE  AuditsCover'
<1> USE DEF AuditsCover, rateVars, sessionVars, handlerVars
<1>0. /\ IsFiniteSet(minted) /\ Cardinality(minted) \in Nat
      /\ AuditCap \in Nat /\ audits \in Nat /\ audits <= AuditCap
      /\ IsFiniteSet(Clearing) /\ Cardinality(Clearing) \in Nat
      /\ AuditCap' = AuditCap
  BY Counts, FS_CardinalityType DEF AuditCap
<1>a. ASSUME Clearing' \subseteq Clearing, minted' = minted, audits' \in {audits, OneMoreAudit}
      PROVE  AuditsCover'
  <2>1. /\ IsFiniteSet(Clearing') /\ Cardinality(Clearing') \in Nat
        /\ Cardinality(Clearing') <= Cardinality(Clearing)
    BY <1>0, <1>a, FS_Subset, FS_CardinalityType
  <2> QED
    BY <1>0, <1>a, <2>1 DEF OneMoreAudit
<1>1. ASSUME NEW r \in Req, WriteAudit(r)
      PROVE  AuditsCover'
  <2>1. Clearing' = Clearing \cup {r} /\ minted' = minted /\ r \notin Clearing
    BY <1>1 DEF WriteAudit, RL!BeginClear, Clearing, TypeOK, RL!TypeOK
  <2>2. IsFiniteSet(Clearing') /\ Cardinality(Clearing') = Cardinality(Clearing) + 1
    BY <1>0, <2>1, FS_AddElement
  <2>3. audits' = IF audits = AuditCap THEN AuditCap ELSE audits + 1
    BY <1>1 DEF WriteAudit, OneMoreAudit
  <2> QED
    BY <1>0, <2>1, <2>2, <2>3
<1>2. ASSUME NEW r \in Req, NEW t \in Token, ClearAndMint(r, t)
      PROVE  AuditsCover'
  <2>1. /\ Clearing' = Clearing \ {r} /\ r \in Clearing
        /\ minted' = minted \cup {t} /\ t \notin minted /\ audits' = audits
    BY <1>2 DEF ClearAndMint, RL!Clear, S!Mint, Clearing, TypeOK, RL!TypeOK
  <2>2. IsFiniteSet(Clearing') /\ Cardinality(Clearing') = Cardinality(Clearing) - 1
    BY <1>0, <2>1, FS_RemoveElement
  <2>3. Cardinality(minted') = Cardinality(minted) + 1
    BY <1>0, <2>1, FS_AddElement
  <2> QED
    BY <1>0, <2>1, <2>2, <2>3
<1>3. ASSUME NEW r \in Req, AuditFails(r)
      PROVE  AuditsCover'
  <2>1. Clearing' \subseteq Clearing
    BY <1>3 DEF AuditFails, Throw, RL!Fail, Clearing, TypeOK, RL!TypeOK
  <2> QED
    BY <1>a, <1>3, <2>1 DEF AuditFails
<1>4. ASSUME NEW r \in Req,
             \/ \E i \in Ident : Login(r, i)
             \/ Attempt(r) \/ Resend(r) \/ CommandFails(r)
             \/ Reject(r) \/ Accept(r) \/ StampUser(r)
      PROVE  AuditsCover'
  <2>1. Clearing' \subseteq Clearing
    BY <1>4 DEF Login, Attempt, Resend, CommandFails, Reject, Accept, StampUser, Throw, RL!Arrive,
       RL!Incr, RL!Expire, RL!Fail, RL!Resend, RL!CommandFails, RL!AfterIncr, Clearing,
          TypeOK, RL!TypeOK
  <2>2. minted' = minted /\ audits' = audits
    BY <1>4 DEF Login, Attempt, Resend, CommandFails, Reject, Accept, StampUser
  <2> QED
    BY <1>a, <2>1, <2>2
<1>5. ASSUME NEW r \in Req,
             \/ Create(r) \/ CreateFails(r) \/ Authenticate(r) \/ EnterLogout(r)
             \/ Forbid(r) \/ Me(r) \/ Logout(r)
             \/ \E route \in {"me", "logout"} : Send(r, route)
      PROVE  AuditsCover'
  <2>1. Clearing' = Clearing /\ audits' = audits
    BY <1>5 DEF Create, CreateFails, Authenticate, EnterLogout, Forbid, Me, Logout, Send, Clearing
  <2>2. minted' = minted
    BY <1>5 DEF Create, CreateFails, Authenticate, EnterLogout, Forbid, Me, Logout, Send,
       S!Insert, S!InsertFails, S!Find, S!FindFails, S!Check, S!Purge, S!BeginRevoke,
       S!Answer, S!Revoke, S!RevokeFails, S!Arrive
  <2> QED
    BY <1>a, <2>1, <2>2
<1>6. CASE \/ UNCHANGED vars
           \/ \E r \in Req : DeliverLogin(r) \/ DeliverLogout(r) \/ LoseResponse(r)
           \/ \E h \in S!Digest : RefreshLastSeen(h)
           \/ Tick \/ Crash
  <2>1. minted' = minted /\ audits' = audits
    BY <1>6 DEF vars, DeliverLogin, DeliverLogout, LoseResponse, Received, RefreshLastSeen,
       S!Touch, Tick, SessionTick, S!Tick, Crash, SessionCrash, S!Crash
  <2>2. Clearing' \subseteq Clearing
    BY <1>6 DEF vars, DeliverLogin, DeliverLogout, LoseResponse, Received, RefreshLastSeen,
       Tick, RateTick, RL!Tick, Crash, RateCrash, RL!Crash, Clearing
  <2> QED
    BY <1>a, <2>1, <2>2
<1> QED
  BY <1>1, <1>2, <1>3, <1>4, <1>5, <1>6 DEF Next, Handle

(* No session is begun without its auth.login event, whatever fails or dies. *)
THEOREM SessionsHaveAudits == Spec => []SessionsAudited
<1>1. Init => AuditsCover
  <2>1. Init => Clearing = {} /\ minted = {} /\ audits = 0
    BY DEF Init, RL!Init, S!Init, Clearing
  <2> QED
    BY <2>1, FS_EmptySet DEF AuditsCover
<1>2. TypeOK /\ AuditsCover /\ [Next]_vars => AuditsCover'
  BY AuditsCoverKept
<1>3. TypeOK /\ AuditsCover => SessionsAudited
  BY Counts, FS_CardinalityType DEF AuditsCover, SessionsAudited
<1> QED
  BY <1>1, <1>2, <1>3, TypeCorrect, PTL DEF Spec

-----------------------------------------------------------------------------
(* Cookies *)

(* The CSRF cookie of the browser's session outlives the session. *)
CookiesCover ==
    cookie # NoToken => csrf = cookie /\ left[cookie] > 0 /\ left[cookie] <= csrfLeft

LEMMA CookiesKept ==
    ASSUME TypeOK, CookiesCover, [Next]_vars
    PROVE  CookiesCover'
<1> USE DEF CookiesCover, sessionVars, browserVars
<1>0. /\ left \in [Token -> 0 .. SessionTtl] /\ csrfLeft \in 0 .. SessionTtl
      /\ given \subseteq minted /\ minted \subseteq Token
      /\ cookie \in given \cup {NoToken} /\ NoToken \notin Token
      /\ SessionTtl \in Nat \ {0}
  BY SessionsAssumption DEF TypeOK, S!TypeOK
<1>1. ASSUME NEW r \in Req, NEW t \in Token, ClearAndMint(r, t)
      PROVE  CookiesCover'
  BY <1>0, <1>1 DEF ClearAndMint, S!Mint
<1>2. ASSUME NEW r \in Req, DeliverLogin(r)
      PROVE  CookiesCover'
  <2>1. out[r].token \in Token
    BY <1>0, <1>2 DEF DeliverLogin, TypeOK, NoResponse, LogoutDone, LoginDone
  <2> QED
    BY <1>0, <1>2, <2>1 DEF DeliverLogin, Received
<1>3. ASSUME NEW r \in Req, DeliverLogout(r)
      PROVE  CookiesCover'
  BY <1>3 DEF DeliverLogout
<1>4. CASE Tick
  <2>1. CASE cookie = NoToken \/ left'[cookie] = 0
    BY <1>4, <2>1 DEF Tick, CookieLapses
  <2>2. CASE cookie # NoToken /\ left'[cookie] # 0
    <3>1. S!Tick /\ cookie' = cookie
      BY <1>0, <1>4, <2>2 DEF Tick, SessionTick, CookieLapses
    <3>2. left'[cookie] = left[cookie] - 1
      BY <1>0, <2>2, <3>1 DEF S!Tick
    <3> QED
      BY <1>0, <1>4, <2>2, <3>1, <3>2 DEF Tick
  <2> QED
    BY <2>1, <2>2
<1>5. CASE \/ UNCHANGED vars
           \/ \E r \in Req :
                  \/ \E i \in Ident : Login(r, i)
                  \/ \E route \in {"me", "logout"} : Send(r, route)
                  \/ Attempt(r) \/ Resend(r) \/ CommandFails(r)
                  \/ Reject(r) \/ Accept(r) \/ StampUser(r) \/ WriteAudit(r) \/ AuditFails(r)
                  \/ Create(r) \/ CreateFails(r)
                  \/ Authenticate(r) \/ EnterLogout(r) \/ Forbid(r) \/ Me(r) \/ Logout(r)
                  \/ LoseResponse(r)
           \/ \E h \in S!Digest : RefreshLastSeen(h)
           \/ Crash
  <2>1. UNCHANGED browserVars
    BY <1>5 DEF vars, Login, Send, Attempt, Resend, CommandFails, Reject, Accept,
       StampUser, WriteAudit,
       AuditFails, Create, CreateFails, Authenticate, EnterLogout, Forbid, Me, Logout,
       LoseResponse, RefreshLastSeen, Crash, handlerVars
  <2>2. left' = left
    BY <1>5 DEF vars, Login, Send, Attempt, Resend, CommandFails, Reject, Accept,
       StampUser, WriteAudit,
       AuditFails, Create, CreateFails, Authenticate, EnterLogout, Forbid, Me, Logout,
       LoseResponse, Received, RefreshLastSeen, Crash, SessionCrash, S!Insert, S!InsertFails,
       S!Find, S!FindFails, S!Check, S!Purge, S!BeginRevoke, S!Answer, S!Revoke,
       S!RevokeFails, S!Arrive, S!Touch, S!Crash
  <2> QED
    BY <2>1, <2>2
<1> QED
  BY <1>1, <1>2, <1>3, <1>4, <1>5 DEF Next, Handle

(* The browser never holds a session without the CSRF cookie of the same login. *)
THEOREM CookiesPaired == Spec => []CookiePair
<1>1. Init => CookiesCover
  BY DEF Init, CookiesCover
<1>2. TypeOK /\ CookiesCover /\ [Next]_vars => CookiesCover'
  BY CookiesKept
<1>3. CookiesCover => CookiePair
  BY DEF CookiesCover, CookiePair
<1> QED
  BY <1>1, <1>2, <1>3, TypeCorrect, PTL DEF Spec

-----------------------------------------------------------------------------

(* A counter of attempts is forgotten at the end of its window or by a login that
   has proved its credentials.                                              *)
THEOREM ForgottenOnlyForCause == Spec => ForgottenForCause
<1> DEFINE Cause ==
             \A i \in Ident : count[i] > 0 /\ count'[i] = 0 =>
                 \/ ttl[i] = 1 /\ UNCHANGED at
                 \/ \E r \in Req : doing[r] = "create" /\ at[r] = "clear" /\ who[r] = i
<1>1. TypeOK /\ HandlersTogether /\ [Next]_vars => [Cause]_vars
  <2> SUFFICES ASSUME TypeOK, HandlersTogether, [Next]_vars,
                      NEW i \in Ident, count[i] > 0, count'[i] = 0
               PROVE  \/ ttl[i] = 1 /\ UNCHANGED at
                      \/ \E r \in Req : doing[r] = "create" /\ at[r] = "clear" /\ who[r] = i
    OBVIOUS
  <2>0. /\ count \in [Ident -> 0 .. RL!CountCap] /\ RL!CountCap \in Nat \ {0}
        /\ who \in [Req -> Ident]
    BY LimiterAssumption DEF TypeOK, RL!TypeOK, RL!CountCap
  <2>1. RL!Next
    BY <2>0, LimiterStep DEF RL!vars
  <2>2. ASSUME NEW r \in Req, at[r] = "clear"
        PROVE  doing[r] = "create"
    BY <2>2 DEF HandlersTogether, Together, TypeOK, Doings
  <2>3. CASE RL!Tick
    BY <2>0, <2>3 DEF RL!Tick, RL!Survives
  <2>4. ASSUME NEW r \in Req, RL!Incr(r) \/ RL!Resend(r) \/ RL!CommandFails(r) \/ RL!Clear(r)
        PROVE  \E q \in Req : doing[q] = "create" /\ at[q] = "clear" /\ who[q] = i
    <3>1. \A n \in 0 .. RL!CountCap : RL!Incremented(n) > 0
      BY <2>0 DEF RL!Incremented
    <3>2. who[r] \in Ident /\ count[who[r]] \in 0 .. RL!CountCap
      BY <2>0
    <3>3. at[r] = "clear" /\ who[r] = i
      BY <2>0, <2>4, <3>1, <3>2 DEF RL!Incr, RL!Resend, RL!CommandFails, RL!Executed,
                                RL!Clear, RL!Del
    <3> QED
      BY <2>2, <3>3
  <2> QED
    BY <2>1, <2>3, <2>4 DEF RL!Next, RL!Step, RL!Arrive, RL!Expire, RL!Fail, RL!BeginClear,
       RL!Crash
<1>2. Init => HandlersTogether
  BY DEF Init, RL!Init, S!Init, HandlersTogether, Together
<1>3. TypeOK /\ HandlersTogether /\ [Next]_vars => HandlersTogether'
  BY TogetherKept DEF HandlersTogether
<1> QED
  BY <1>1, <1>2, <1>3, TypeCorrect, PTL DEF Spec, ForgottenForCause

-----------------------------------------------------------------------------
(* The promises of the components *)

LEMMA SameLimiterSpec == RL!Spec <=> RP!Spec
<1>1. RL!Init <=> RP!Init
  BY DEF RL!Init, RP!Init, RL!NoExpiry, RP!NoExpiry
<1> QED
  BY <1>1, SameLimiter, PTL DEF RL!Spec, RP!Spec

(* What the limiter and the session service promise for themselves they keep in the
   API, whatever its handlers, its guards and the browser do with them: no more than
   MAX_ATTEMPTS passes in a window, no counter without an expiry, no revoked session
   back, none for a late request, and none lost but to its own logout.      *)
THEOREM PromisesKept ==
    /\ Spec => [](RL!AdmitBudget /\ RL!TtlCovered)
    /\ Spec => [](S!RevokedStaysGone /\ S!NoGrantAfterEnd)
    /\ Spec => S!OnlyOwnLogoutRevokes
    /\ Spec => S!LifeRespected
<1>1. RP!Spec => [](RP!AdmitBudget /\ RP!TtlCovered)
  <2>1. (RP!Spec => []RP!AdmitBudget) /\ (RP!Spec => []RP!TtlCovered)
    BY LimiterAssumed, RP!BudgetKept, RP!ExpiryCovered
  <2> QED
    BY <2>1, PTL
<1>2. (RP!AdmitBudget <=> RL!AdmitBudget) /\ (RP!TtlCovered <=> RL!TtlCovered)
  BY DEF RP!AdmitBudget, RL!AdmitBudget, RP!TtlCovered, RL!TtlCovered, RP!NoExpiry, RL!NoExpiry
<1>3. SP!Spec => [](SP!RevokedStaysGone /\ SP!NoGrantAfterEnd)
  <2>1. (SP!Spec => []SP!RevokedStaysGone) /\ (SP!Spec => []SP!NoGrantAfterEnd)
    BY SessionsAssumed, SP!RevokedGone, SP!LateNeverGranted
  <2> QED
    BY <2>1, PTL
<1>4. (SP!RevokedStaysGone <=> S!RevokedStaysGone) /\ (SP!NoGrantAfterEnd <=> S!NoGrantAfterEnd)
  BY DEF SP!RevokedStaysGone, S!RevokedStaysGone, SP!NoGrantAfterEnd, S!NoGrantAfterEnd
<1>5. SP!Spec => SP!OnlyOwnLogoutRevokes
  BY SessionsAssumed, SP!OnlyOwnLogout
<1>6. SP!OnlyOwnLogoutRevokes <=> S!OnlyOwnLogoutRevokes
  BY DEF SP!OnlyOwnLogoutRevokes, S!OnlyOwnLogoutRevokes, SP!vars, S!vars
<1>7. SP!Spec => SP!LifeRespected
  BY SessionsAssumed, SP!ImplementsLife
<1>8. SP!LifeRespected <=> S!LifeRespected
  <2>1. /\ \A t \in Token : SP!LifeOf(t) = S!LifeOf(t)
        /\ \A r \in Req : SP!SeenBy(r) = S!SeenBy(r)
    BY DEF SP!LifeOf, S!LifeOf, SP!SeenBy, S!SeenBy, SP!Inserting, S!Inserting
  <2>2. SP!Life!Init <=> S!Life!Init
    BY <2>1 DEF SP!Life!Init, S!Life!Init
  <2>3. [SP!Life!Next]_(SP!Life!vars) <=> [S!Life!Next]_(S!Life!vars)
    BY DEF SP!Life!Next, S!Life!Next, SP!Life!vars, S!Life!vars, SP!Life!Settle, S!Life!Settle,
           SP!Life!See, S!Life!See, SP!Life!Release, S!Life!Release, SP!Life!Restart,
           S!Life!Restart, SP!LifeOf, S!LifeOf, SP!SeenBy, S!SeenBy, SP!Inserting, S!Inserting
  <2> QED
    BY <2>2, <2>3, PTL DEF SP!LifeRespected, S!LifeRespected, SP!Life!Spec, S!Life!Spec
<1> QED
  BY <1>1, <1>2, <1>3, <1>4, <1>5, <1>6, <1>7, <1>8, ComponentsRespected, SameLimiterSpec,
     SameSessionsSpec, PTL DEF LimiterRespected, SessionsRespected
=============================================================================
