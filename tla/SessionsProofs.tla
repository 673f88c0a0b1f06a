--------------------------- MODULE SessionsProofs ----------------------------
(***************************************************************************)
(* Proofs about the session service, for any requests, any tokens and any  *)
(* session lifetime, from the assumption that no two tokens have one hash. *)
(***************************************************************************)
EXTENDS Sessions, TLAPS

USE DEF Phases, Digest, Goto, End

LEMMA TypeInductive == TypeOK /\ [Next]_vars => TypeOK'
<1> SUFFICES ASSUME TypeOK, [Next]_vars
             PROVE  TypeOK'
  OBVIOUS
<1> USE DEF TypeOK
<1>1. CASE UNCHANGED vars
  BY <1>1 DEF vars
<1>2. CASE Tick
  BY <1>2, SessionTtlAssumption DEF Tick
<1>3. CASE Crash
  BY <1>3 DEF Crash
<1>4. ASSUME NEW h \in Digest, Touch(h)
      PROVE  TypeOK'
  BY <1>4 DEF Touch
<1>5. ASSUME NEW r \in Req, NEW t \in Token, Mint(r, t)
      PROVE  TypeOK'
  BY <1>5, SessionTtlAssumption DEF Mint
<1>6. ASSUME NEW r \in Req, NEW t \in Token, Arrive(r, t)
      PROVE  TypeOK'
  BY <1>6 DEF Arrive
<1>7. ASSUME NEW r \in Req, Insert(r) \/ InsertFails(r)
      PROVE  TypeOK'
  <2>1. tok[r] \in minted /\ tok[r] \in Token
    BY <1>7 DEF Insert, InsertFails
  <2> QED
    BY <1>7, <2>1 DEF Insert, InsertFails
<1>8. ASSUME NEW r \in Req, Find(r) \/ FindFails(r) \/ Answer(r) \/ BeginRevoke(r) \/ RevokeFails(r)
      PROVE  TypeOK'
  BY <1>8 DEF Find, FindFails, Answer, BeginRevoke, RevokeFails
<1>9. ASSUME NEW r \in Req, Check(r)
      PROVE  TypeOK'
  BY <1>9 DEF Check
<1>10. ASSUME NEW r \in Req, Purge(r)
       PROVE  TypeOK'
  BY <1>10 DEF Purge
<1>11. ASSUME NEW r \in Req, Revoke(r)
       PROVE  TypeOK'
  BY <1>11 DEF Revoke
<1> QED
  BY <1>1, <1>2, <1>3, <1>4, <1>5, <1>6, <1>7, <1>8, <1>9, <1>10, <1>11 DEF Next, Step

(* Every state of the session service has the declared types; in particular the
   table never holds anything but hashes of tokens that were drawn.         *)
THEOREM TypeCorrect == Spec => []TypeOK
<1>1. Init => TypeOK
  BY SessionTtlAssumption DEF Init, TypeOK
<1> QED
  BY <1>1, TypeInductive, PTL DEF Spec

-----------------------------------------------------------------------------

(* A token that is still being inserted is known to its own request alone. *)
FreshInsert ==
    \A r \in Req : phase[r] = "insert" =>
        /\ tok[r] \notin given
        /\ \A q \in Req : phase[q] = "insert" /\ tok[q] = tok[r] => q = r

GoneInv == RevokedStaysGone /\ FreshInsert

LEMMA FreshInductive == TypeOK /\ FreshInsert /\ [Next]_vars => FreshInsert'
<1> SUFFICES ASSUME TypeOK, FreshInsert, [Next]_vars
             PROVE  FreshInsert'
  OBVIOUS
<1> USE DEF TypeOK, FreshInsert
<1>1. CASE UNCHANGED vars
  BY <1>1 DEF vars
<1>2. CASE Tick \/ Crash \/ \E h \in Digest : Touch(h)
  BY <1>2 DEF Tick, Crash, Touch
<1>3. ASSUME NEW r \in Req, NEW t \in Token, Mint(r, t)
      PROVE  FreshInsert'
  BY <1>3 DEF Mint
<1>4. ASSUME NEW r \in Req, NEW t \in Token, Arrive(r, t)
      PROVE  FreshInsert'
  BY <1>4 DEF Arrive
<1>5. ASSUME NEW r \in Req, Insert(r) \/ InsertFails(r)
      PROVE  FreshInsert'
  BY <1>5 DEF Insert, InsertFails
<1>6. ASSUME NEW r \in Req,
             Find(r) \/ FindFails(r) \/ Answer(r) \/ BeginRevoke(r) \/ RevokeFails(r)
      PROVE  FreshInsert'
  BY <1>6 DEF Find, FindFails, Answer, BeginRevoke, RevokeFails
<1>7. ASSUME NEW r \in Req, Check(r) \/ Purge(r) \/ Revoke(r)
      PROVE  FreshInsert'
  BY <1>7 DEF Check, Purge, Revoke
<1> QED
  BY <1>1, <1>2, <1>3, <1>4, <1>5, <1>6, <1>7 DEF Next, Step

LEMMA GoneInductive == TypeOK /\ GoneInv /\ [Next]_vars => GoneInv'
<1> SUFFICES ASSUME TypeOK, GoneInv, [Next]_vars,
                    NEW t \in ended'
             PROVE  Hash[t] \notin rows'
  BY FreshInductive DEF GoneInv, RevokedStaysGone
<1>0. /\ ended \subseteq given /\ given \subseteq Token
      /\ \A u \in ended : Hash[u] \notin rows
  BY DEF TypeOK, GoneInv, RevokedStaysGone
<1>1. CASE UNCHANGED <<rows, ended>>
  BY <1>0, <1>1
<1>2. ASSUME NEW r \in Req, Insert(r) \/ InsertFails(r)
      PROVE  Hash[t] \notin rows'
  <2>1. tok[r] \in Token /\ tok[r] \notin given
    BY <1>2 DEF Insert, InsertFails, GoneInv, FreshInsert, TypeOK
  <2>2. ended' = ended /\ rows' \in {rows, rows \cup {Hash[tok[r]]}}
    BY <1>2 DEF Insert, InsertFails
  <2> QED
    BY <1>0, <2>1, <2>2, HashAssumption
<1>3. ASSUME NEW r \in Req, Purge(r) \/ Revoke(r)
      PROVE  Hash[t] \notin rows'
  BY <1>0, <1>3 DEF Purge, Revoke
<1>4. CASE \E r \in Req : \/ \E u \in Token : Mint(r, u) \/ Arrive(r, u)
                          \/ Find(r) \/ FindFails(r) \/ Check(r)
                          \/ Answer(r) \/ BeginRevoke(r) \/ RevokeFails(r)
  BY <1>1, <1>4 DEF Mint, Arrive, Find, FindFails, Check, Answer, BeginRevoke, RevokeFails
<1>5. CASE Tick \/ Crash \/ \E h \in Digest : Touch(h)
  BY <1>1, <1>5 DEF Tick, Crash, Touch
<1>6. CASE UNCHANGED vars
  BY <1>1, <1>6 DEF vars
<1> QED
  BY <1>2, <1>3, <1>4, <1>5, <1>6 DEF Next, Step

(* A session the database revoked never has a row again, for any number of
   requests that validate, refresh or create sessions meanwhile.            *)
THEOREM RevokedGone == Spec => []RevokedStaysGone
<1>1. Init => GoneInv
  BY DEF Init, GoneInv, RevokedStaysGone, FreshInsert
<1>2. GoneInv => RevokedStaysGone
  BY DEF GoneInv
<1> QED
  BY <1>1, <1>2, TypeCorrect, GoneInductive, PTL DEF Spec

-----------------------------------------------------------------------------

(* How far a request that arrived too late can get: it looks for a row that is
   gone, or it has read the row of a session whose time is up.              *)
LateStopped ==
    \A r \in late : /\ phase[r] = "find" => Over(tok[r])
                    /\ phase[r] = "check" => left[tok[r]] = 0
                    /\ phase[r] \notin {"granted", "revoke"}

LateInv == GoneInv /\ LateStopped

LEMMA LateInductive == TypeOK /\ LateInv /\ [Next]_vars => LateStopped'
<1> SUFFICES ASSUME TypeOK, LateInv, [Next]_vars,
                    NEW q \in late'
             PROVE  /\ phase'[q] = "find" => tok'[q] \in ended' \/ left'[tok'[q]] = 0
                    /\ phase'[q] = "check" => left'[tok'[q]] = 0
                    /\ phase'[q] \notin {"granted", "revoke"}
  BY DEF LateStopped, Over
<1> DEFINE Stopped ==
             /\ phase'[q] = "find" => tok'[q] \in ended' \/ left'[tok'[q]] = 0
             /\ phase'[q] = "check" => left'[tok'[q]] = 0
             /\ phase'[q] \notin {"granted", "revoke"}
<1>0. /\ q \in late =>
            /\ phase[q] = "find" => tok[q] \in ended \/ left[tok[q]] = 0
            /\ phase[q] = "check" => left[tok[q]] = 0
            /\ phase[q] \notin {"granted", "revoke"}
      /\ q \in Req
  <2>1. late' \subseteq Req
    BY TypeInductive DEF TypeOK
  <2> QED
    BY <2>1 DEF LateInv, LateStopped, Over
<1>a. phase[q] \in {"find", "check"} => tok[q] \in given /\ tok[q] \in minted /\ tok[q] \in Token
  BY <1>0 DEF TypeOK
<1>1. CASE UNCHANGED vars
  BY <1>0, <1>1 DEF vars
<1>2. CASE Tick
  <2>1. tok[q] \in Token => (left[tok[q]] = 0 => left'[tok[q]] = 0)
    BY <1>2 DEF Tick, TypeOK
  <2> QED
    BY <1>0, <1>a, <1>2, <2>1 DEF Tick
<1>3. CASE Crash
  BY <1>0, <1>3 DEF Crash
<1>4. CASE \E h \in Digest : Touch(h)
  BY <1>0, <1>4 DEF Touch
<1>5. ASSUME NEW r \in Req, NEW t \in Token, Mint(r, t)
      PROVE  Stopped
  <2>1. CASE r = q
    BY <1>5, <2>1 DEF Mint, TypeOK
  <2>2. CASE r # q
    BY <1>0, <1>a, <1>5, <2>2 DEF Mint, TypeOK
  <2> QED
    BY <2>1, <2>2
<1>6. ASSUME NEW r \in Req, NEW t \in Token, Arrive(r, t)
      PROVE  Stopped
  BY <1>0, <1>6 DEF Arrive, Over, TypeOK
<1>7. ASSUME NEW r \in Req, Insert(r) \/ InsertFails(r)
      PROVE  Stopped
  BY <1>0, <1>7 DEF Insert, InsertFails, TypeOK
<1>8. ASSUME NEW r \in Req, Find(r)
      PROVE  Stopped
  <2>1. CASE r = q
    <3>1. q \in late /\ phase[q] = "find"
      BY <1>8, <2>1 DEF Find
    <3>2. CASE tok[q] \in ended
      BY <1>8, <2>1, <3>2 DEF Find, TypeOK, LateInv, GoneInv, RevokedStaysGone
    <3>3. CASE left[tok[q]] = 0
      BY <1>8, <2>1, <3>3 DEF Find, TypeOK
    <3> QED
      BY <1>0, <3>1, <3>2, <3>3
  <2>2. CASE r # q
    BY <1>0, <1>8, <2>2 DEF Find, TypeOK
  <2> QED
    BY <2>1, <2>2
<1>9. ASSUME NEW r \in Req, Check(r)
      PROVE  Stopped
  BY <1>0, <1>9 DEF Check, Expired, TypeOK
<1>10. ASSUME NEW r \in Req,
              FindFails(r) \/ Answer(r) \/ BeginRevoke(r) \/ RevokeFails(r)
       PROVE  Stopped
  BY <1>0, <1>10 DEF FindFails, Answer, BeginRevoke, RevokeFails, TypeOK
<1>11. ASSUME NEW r \in Req, Purge(r) \/ Revoke(r)
       PROVE  Stopped
  BY <1>0, <1>11 DEF Purge, Revoke, TypeOK
<1> QED
  BY <1>1, <1>2, <1>3, <1>4, <1>5, <1>6, <1>7, <1>8, <1>9, <1>10, <1>11 DEF Next, Step

(* A request that arrives after its session was revoked or has expired is never
   granted the session.                                                     *)
THEOREM LateNeverGranted == Spec => []NoGrantAfterEnd
<1>1. Init => LateInv
  BY DEF Init, LateInv, LateStopped, GoneInv, RevokedStaysGone, FreshInsert
<1>2. TypeOK /\ LateInv /\ [Next]_vars => LateInv'
  BY GoneInductive, LateInductive DEF LateInv
<1>3. LateInv => NoGrantAfterEnd
  BY DEF LateInv, LateStopped, NoGrantAfterEnd
<1> QED
  BY <1>1, <1>2, <1>3, TypeCorrect, PTL DEF Spec

-----------------------------------------------------------------------------

(* What a read of an expired row leads to: only a session whose time is up is
   ever waiting to be purged.                                               *)
PurgeExpired == \A r \in Req : phase[r] = "purge" => left[tok[r]] = 0

LEMMA PurgeInductive == TypeOK /\ PurgeExpired /\ [Next]_vars => PurgeExpired'
<1> SUFFICES ASSUME TypeOK, PurgeExpired, [Next]_vars,
                    NEW q \in Req, phase'[q] = "purge"
             PROVE  left'[tok'[q]] = 0
  BY DEF PurgeExpired
<1>1. CASE phase[q] = "purge"
  <2>1. left[tok[q]] = 0 /\ tok[q] \in given /\ tok[q] \in minted /\ tok[q] \in Token
    BY <1>1 DEF PurgeExpired, TypeOK
  <2>2. tok'[q] = tok[q]
    BY <1>1 DEF Next, Step, vars, Tick, Crash, Touch, Mint, Arrive, Insert, InsertFails,
       Find, FindFails, Check, Purge, Answer, BeginRevoke, Revoke, RevokeFails, TypeOK
  <2>3. CASE Tick
    BY <2>1, <2>2, <2>3 DEF Tick, TypeOK
  <2>4. CASE \E r \in Req, t \in Token : Mint(r, t)
    BY <2>1, <2>2, <2>4 DEF Mint, TypeOK
  <2>5. CASE UNCHANGED left
    BY <2>1, <2>2, <2>5
  <2> QED
    BY <2>3, <2>4, <2>5 DEF Next, Step, vars, Crash, Touch, Arrive, Insert, InsertFails,
       Find, FindFails, Check, Purge, Answer, BeginRevoke, Revoke, RevokeFails
<1>2. CASE phase[q] # "purge"
  <2>1. Check(q) /\ Expired(tok[q])
    BY <1>2 DEF Next, Step, vars, Tick, Crash, Touch, Mint, Arrive, Insert, InsertFails,
       Find, FindFails, Check, Purge, Answer, BeginRevoke, Revoke, RevokeFails, TypeOK
  <2> QED
    BY <2>1 DEF Check, Expired
<1> QED
  BY <1>1, <1>2

(* A session with time left loses its row only to the logout of a request that
   was granted that session: the step the property is about, from any state
   the invariants allow.                                                    *)
THEOREM OnlyOwnLogout == Spec => OnlyOwnLogoutRevokes
<1> DEFINE Own == \A t \in minted : Hash[t] \in rows \ rows' /\ left[t] > 0 =>
                      \E r \in Req : tok[r] = t /\ phase[r] = "revoke"
<1>1. Init => PurgeExpired
  BY DEF Init, PurgeExpired
<1>2. TypeOK /\ PurgeExpired /\ [Next]_vars => [Own]_vars
  <2> SUFFICES ASSUME TypeOK, PurgeExpired, Next,
                      NEW t \in minted, Hash[t] \in rows, Hash[t] \notin rows', left[t] > 0
               PROVE  \E r \in Req : tok[r] = t /\ phase[r] = "revoke"
    OBVIOUS
  <2>1. t \in Token
    BY DEF TypeOK
  <2>2. ASSUME NEW r \in Req, Purge(r)
        PROVE  FALSE
    <3>1. tok[r] \in Token /\ left[tok[r]] = 0 /\ left[t] \in Int /\ left[tok[r]] \in Int
      BY <2>1, <2>2, SessionTtlAssumption DEF Purge, PurgeExpired, TypeOK
    <3>2. Hash[t] = Hash[tok[r]]
      BY <2>2 DEF Purge
    <3>3. t = tok[r]
      BY <2>1, <3>1, <3>2, HashAssumption
    <3> QED
      BY <3>1, <3>3
  <2>3. ASSUME NEW r \in Req, Revoke(r)
        PROVE  tok[r] = t /\ phase[r] = "revoke"
    <3>1. tok[r] \in Token
      BY <2>3 DEF Revoke, TypeOK
    <3> QED
      BY <2>1, <2>3, <3>1, HashAssumption DEF Revoke
  <2> QED
    BY <2>2, <2>3 DEF Next, Step, Tick, Crash, Touch, Mint, Arrive, Insert, InsertFails,
       Find, FindFails, Check, Answer, BeginRevoke, RevokeFails
<1> QED
  BY <1>1, <1>2, TypeCorrect, PurgeInductive, PTL DEF Spec, OnlyOwnLogoutRevokes

-----------------------------------------------------------------------------

LEMMA InInserting ==
    ASSUME NEW t
    PROVE  t \in Inserting <=> \E r \in Req : phase[r] = "insert" /\ tok[r] = t
  BY DEF Inserting

LEMMA InInsertingNext ==
    ASSUME NEW t
    PROVE  t \in Inserting' <=> \E r \in Req : phase'[r] = "insert" /\ tok'[r] = t
  BY DEF Inserting

(* Neither the life of a session nor what a request holds changes in a step that
   keeps the rows and the half-made sessions.                               *)
LEMMA LifeStutters ==
    ASSUME rows' = rows,
           \A t \in Token : t \in minted' \ Inserting' <=> t \in minted \ Inserting,
           \A r \in Req : SeenBy(r)' = SeenBy(r)
    PROVE  UNCHANGED Life!vars
<1>1. \A t \in Token : LifeOf(t)' = LifeOf(t)
  BY DEF LifeOf
<1> QED
  BY <1>1 DEF Life!vars

LEMMA LifeStep ==
    ASSUME TypeOK, FreshInsert, [Next]_vars
    PROVE  [Life!Next]_(Life!vars)
<1> USE DEF SeenBy
<1> DEFINE L == [t \in Token |-> LifeOf(t)]
           N == [r \in Req |-> SeenBy(r)]
<1>0. /\ phase \in [Req -> Phases] /\ tok \in [Req -> Token \cup {NoToken}]
      /\ \A r \in Req : phase[r] = "insert" => tok[r] \in minted /\ tok[r] \in Token
      /\ \A r \in Req : phase[r] \notin {"idle", "insert"} => tok[r] \in given /\ tok[r] \in Token
      /\ minted \subseteq Token /\ given \subseteq minted
  BY DEF TypeOK
<1>a. ASSUME NEW u \in Token, rows' \in {rows, rows \ {Hash[u]}},
             minted' = minted, u \in minted,
             \A t \in Token : t \in Inserting' <=> t \in Inserting,
             u \notin Inserting
      PROVE  L' \in {L, [L EXCEPT ![u] = "gone"]}
  <2>1. ASSUME NEW t \in Token, t # u
        PROVE  LifeOf(t)' = LifeOf(t)
    BY <1>a, <2>1, HashAssumption DEF LifeOf
  <2>2. LifeOf(u)' \in {LifeOf(u), "gone"}
    BY <1>a DEF LifeOf
  <2> QED
    BY <2>1, <2>2, <1>a
<1>1. CASE UNCHANGED vars \/ Tick \/ \E h \in Digest : Touch(h)
  <2>1. UNCHANGED <<rows, minted, phase, tok>>
    BY <1>1 DEF vars, Tick, Touch
  <2> QED
    BY <2>1, LifeStutters, InInserting, InInsertingNext
<1>2. ASSUME NEW r \in Req, NEW u \in Token, Mint(r, u)
      PROVE  UNCHANGED Life!vars
  <2>1. \A t \in Token : t \in Inserting' <=> t \in Inserting \/ t = u
    BY <1>0, <1>2, InInserting, InInsertingNext DEF Mint
  <2>2. u \notin minted /\ minted' = minted \cup {u} /\ rows' = rows
    BY <1>2 DEF Mint
  <2>3. \A q \in Req : SeenBy(q)' = SeenBy(q)
    BY <1>0, <1>2 DEF Mint
  <2> QED
    BY <2>1, <2>2, <2>3, LifeStutters
<1>3. ASSUME NEW r \in Req,
             \/ \E t \in Token : Arrive(r, t)
             \/ Find(r) /\ Hash[tok[r]] \notin rows
             \/ FindFails(r) \/ Check(r) \/ BeginRevoke(r)
      PROVE  UNCHANGED Life!vars
  <2>1. rows' = rows /\ minted' = minted
    BY <1>3 DEF Arrive, Find, FindFails, Check, BeginRevoke
  <2>2. \A t \in Token : t \in Inserting' <=> t \in Inserting
    BY <1>0, <1>3, InInserting, InInsertingNext DEF Arrive, Find, FindFails, Check, BeginRevoke
  <2>3. \A q \in Req : SeenBy(q)' = SeenBy(q)
    BY <1>0, <1>3 DEF Arrive, Find, FindFails, Check, BeginRevoke
  <2> QED
    BY <2>1, <2>2, <2>3, LifeStutters
<1>4. ASSUME NEW r \in Req, Find(r), Hash[tok[r]] \in rows
      PROVE  Life!See(r, tok[r]) /\ tok[r] \in Token
  <2>1. rows' = rows /\ minted' = minted /\ tok' = tok
    BY <1>4 DEF Find
  <2>2. \A t \in Token : t \in Inserting' <=> t \in Inserting
    BY <1>0, <1>4, InInserting, InInsertingNext DEF Find
  <2>3. L' = L
    BY <2>1, <2>2 DEF LifeOf
  <2>4. N' = [N EXCEPT ![r] = tok[r]] /\ N[r] = NoToken /\ tok[r] \in Token
    BY <1>0, <1>4 DEF Find
  <2>5. L[tok[r]] = "live"
    BY <1>4, <2>4 DEF LifeOf
  <2> QED
    BY <2>3, <2>4, <2>5 DEF Life!See
<1>5. ASSUME NEW r \in Req, Answer(r) \/ RevokeFails(r) \/ Purge(r) \/ Revoke(r)
      PROVE  Life!Release(r)
  <2>1. /\ rows' \in {rows, rows \ {Hash[tok[r]]}} /\ minted' = minted
        /\ tok[r] \in given /\ tok[r] \in minted /\ tok[r] \in Token
    BY <1>0, <1>5 DEF Answer, RevokeFails, Purge, Revoke
  <2>2. \A t \in Token : t \in Inserting' <=> t \in Inserting
    BY <1>0, <1>5, InInserting, InInsertingNext DEF Answer, RevokeFails, Purge, Revoke
  <2>3. tok[r] \notin Inserting
    BY <2>1, InInserting DEF FreshInsert
  <2>4. L' \in {L, [L EXCEPT ![tok[r]] = "gone"]}
    BY <1>a, <2>1, <2>2, <2>3
  <2>5. N' = [N EXCEPT ![r] = NoToken] /\ N[r] = tok[r] /\ N[r] # NoToken
    BY <1>0, <1>5, <2>1, NoTokenAssumption DEF Answer, RevokeFails, Purge, Revoke
  <2> QED
    BY <2>4, <2>5 DEF Life!Release
<1>6. ASSUME NEW r \in Req, NEW u \in Token, u = tok[r], Insert(r) \/ InsertFails(r)
      PROVE  UNCHANGED Life!vars \/ Life!Settle(u)
  <2>1. rows' \in {rows, rows \cup {Hash[u]}} /\ minted' = minted /\ u \in minted
    BY <1>0, <1>6 DEF Insert, InsertFails
  <2>2. \A t \in Token : t \in Inserting' <=> t \in Inserting /\ t # u
    BY <1>0, <1>6, InInserting, InInsertingNext DEF Insert, InsertFails, FreshInsert
  <2>3. N' = N
    BY <1>0, <1>6 DEF Insert, InsertFails
  <2>4. ASSUME NEW t \in Token, t # u
        PROVE  LifeOf(t)' = LifeOf(t)
    BY <2>1, <2>2, <2>4, HashAssumption DEF LifeOf
  <2>5. u \in Inserting
    BY <1>6, InInserting DEF Insert, InsertFails
  <2>6. LifeOf(u) \in {"new", "live"} /\ LifeOf(u)' \in {"live", "gone"}
    BY <2>1, <2>2, <2>5 DEF LifeOf
  <2>7. LifeOf(u) = "live" => LifeOf(u)' = "live"
    BY <2>1 DEF LifeOf
  <2>8. L' = [L EXCEPT ![u] = LifeOf(u)']
    BY <2>1, <2>4
  <2>9. CASE LifeOf(u) = "live"
    BY <2>1, <2>3, <2>7, <2>8, <2>9 DEF Life!vars
  <2>10. CASE LifeOf(u) = "new"
    BY <2>1, <2>3, <2>6, <2>8, <2>10 DEF Life!Settle
  <2> QED
    BY <2>6, <2>9, <2>10
<1>7. CASE Crash
  <2>1. rows' = rows /\ minted' = minted /\ \A t \in Token : t \notin Inserting'
    BY <1>7, InInsertingNext DEF Crash
  <2>2. \A t \in Inserting : t \in minted
    BY <1>0, InInserting
  <2> DEFINE lost == {t \in Token : Hash[t] \notin rows /\ t \in Inserting}
  <2>3. \A t \in Token : LifeOf(t)' = IF t \in lost THEN "gone" ELSE LifeOf(t)
    BY <2>1, <2>2 DEF LifeOf
  <2>4. lost \in SUBSET {t \in Token : L[t] = "new"}
    BY DEF LifeOf
  <2>5. L' = [t \in Token |-> IF t \in lost THEN "gone" ELSE L[t]]
    BY <2>3
  <2>6. N' = [r \in Req |-> NoToken]
    BY <1>7 DEF Crash
  <2> HIDE DEF L, N, lost
  <2>7. Life!Restart
    BY <2>4, <2>5, <2>6 DEF Life!Restart, L, N
  <2> QED
    BY <2>7 DEF Life!Next
<1>8. \A r \in Req : phase[r] = "insert" => tok[r] \in Token
  BY <1>0
<1>9. ASSUME NEW r \in Req, Insert(r) \/ InsertFails(r)
      PROVE  UNCHANGED Life!vars \/ \E u \in Token : Life!Settle(u)
  BY <1>6, <1>8, <1>9 DEF Insert, InsertFails
<1> HIDE DEF L, N, SeenBy
<1> QED
  BY <1>1, <1>2, <1>3, <1>4, <1>5, <1>7, <1>9 DEF Next, Step, Life!Next

(* The session service implements the promise of SessionLife, for any number of
   requests and sessions: sessions only move from new to live to gone, and each
   ends by a request that holds it.                                         *)
THEOREM ImplementsLife == Spec => LifeRespected
<1>1. Init => Life!Init
  BY DEF Init, Life!Init, LifeOf, SeenBy
<1>2. Init => FreshInsert
  BY DEF Init, FreshInsert
<1> QED
  BY <1>1, <1>2, TypeCorrect, FreshInductive, LifeStep, PTL DEF Spec, LifeRespected, Life!Spec
=============================================================================
