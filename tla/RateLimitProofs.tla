--------------------------- MODULE RateLimitProofs ---------------------------
(***************************************************************************)
(* Proofs about the login rate limiter, for any set of requests and of     *)
(* identifiers, any MAX_ATTEMPTS and any window.                           *)
(***************************************************************************)
EXTENDS RateLimit, TLAPS

USE DEF CountCap, NoExpiry, Stages

(* The counter a request sees in a reply is one the key can hold, and a request
   that gets past the reply saw at most MAX_ATTEMPTS.                       *)
LEMMA ReplyRange ==
    ASSUME NEW n \in 0 .. CountCap
    PROVE  /\ Incremented(n) \in 1 .. CountCap
           /\ AfterIncr(Incremented(n)) \in {"idle", "expire", "admitted"}
           /\ AfterIncr(Incremented(n)) # "idle" =>
                  Incremented(n) = n + 1 /\ n + 1 <= MaxAttempts
           /\ n = 0 => AfterIncr(Incremented(n)) = "expire"
  BY MaxAttemptsAssumption DEF Incremented, AfterIncr

(* What a command whose reply is lost leaves in Redis. *)
LEMMA ExecutedTypes ==
    ASSUME TypeOK, NEW r \in Req, Executed(r)
    PROVE  /\ count' \in [Ident -> 0 .. CountCap]
           /\ ttl' \in [Ident -> {NoExpiry} \cup 1 .. Window]
           /\ passes' \in [Ident -> Nat]
<1> USE DEF TypeOK
<1>1. CASE at[r] = "incr"
  BY <1>1, ReplyRange DEF Executed
<1>2. CASE at[r] = "expire"
  BY <1>2, WindowAssumption DEF Executed
<1>3. CASE at[r] = "clear"
  BY <1>3, MaxAttemptsAssumption DEF Executed, Del
<1> QED
  BY <1>1, <1>2, <1>3 DEF Executed

LEMMA TypeInductive == TypeOK /\ [Next]_vars => TypeOK'
<1> SUFFICES ASSUME TypeOK, [Next]_vars
             PROVE  TypeOK'
  OBVIOUS
<1> USE DEF TypeOK
<1>1. CASE UNCHANGED vars
  BY <1>1 DEF vars
<1>2. CASE Tick
  <2>1. count' \in [Ident -> 0 .. CountCap] /\ passes' \in [Ident -> Nat]
    BY <1>2, MaxAttemptsAssumption DEF Tick
  <2>2. ttl' \in [Ident -> {NoExpiry} \cup 1 .. Window]
    BY <1>2, WindowAssumption DEF Tick, Survives
  <2> QED
    BY <1>2, <2>1, <2>2 DEF Tick
<1>3. CASE Crash
  BY <1>3 DEF Crash
<1>4. ASSUME NEW r \in Req, NEW i \in Ident, Arrive(r, i)
      PROVE  TypeOK'
  BY <1>4 DEF Arrive
<1>5. ASSUME NEW r \in Req, Incr(r)
      PROVE  TypeOK'
  <2>1. who[r] \in Ident /\ count[who[r]] \in 0 .. CountCap
    OBVIOUS
  <2> QED
    BY <1>5, <2>1, ReplyRange DEF Incr
<1>6. ASSUME NEW r \in Req, Expire(r)
      PROVE  TypeOK'
  BY <1>6, WindowAssumption DEF Expire
<1>7. ASSUME NEW r \in Req, Fail(r) \/ BeginClear(r)
      PROVE  TypeOK'
  BY <1>7 DEF Fail, BeginClear
<1>8. ASSUME NEW r \in Req, Clear(r)
      PROVE  TypeOK'
  BY <1>8, MaxAttemptsAssumption DEF Clear, Del
<1>9. ASSUME NEW r \in Req, Resend(r)
      PROVE  TypeOK'
  BY <1>9, ExecutedTypes DEF Resend
<1>10. ASSUME NEW r \in Req, CommandFails(r)
       PROVE  TypeOK'
  BY <1>10, ExecutedTypes DEF CommandFails
<1> QED
  BY <1>1, <1>2, <1>3, <1>4, <1>5, <1>6, <1>7, <1>8, <1>9, <1>10 DEF Next, Step

(* Every state of the rate limiter has the declared types: counters stay within
   the range the code distinguishes, and an expiry never outlasts the window. *)
THEOREM TypeCorrect == Spec => []TypeOK
<1>1. Init => TypeOK
  <2> SUFFICES ASSUME Init
               PROVE  TypeOK
    OBVIOUS
  <2>1. count \in [Ident -> 0 .. CountCap]
    BY MaxAttemptsAssumption DEF Init
  <2>2. ttl \in [Ident -> {NoExpiry} \cup 1 .. Window]
    BY DEF Init
  <2>3. at \in [Req -> Stages] /\ passes \in [Ident -> Nat]
    BY DEF Init
  <2> QED
    BY <2>1, <2>2, <2>3 DEF Init, TypeOK
<1> QED
  BY <1>1, TypeInductive, PTL DEF Spec

-----------------------------------------------------------------------------

(* An attempt let through is one the counter has counted: what makes the budget
   inductive.                                                               *)
PassesCounted == \A i \in Ident : passes[i] <= count[i]

BudgetInv == AdmitBudget /\ PassesCounted

LEMMA BudgetInductive == TypeOK /\ BudgetInv /\ [Next]_vars => BudgetInv'
<1> SUFFICES ASSUME TypeOK, BudgetInv, [Next]_vars,
                    NEW j \in Ident
             PROVE  passes'[j] <= MaxAttempts /\ passes'[j] <= count'[j]
  BY DEF BudgetInv, AdmitBudget, PassesCounted
<1>0. /\ passes[j] \in Nat /\ count[j] \in 0 .. CountCap
      /\ passes[j] <= MaxAttempts /\ passes[j] <= count[j]
  BY DEF TypeOK, BudgetInv, AdmitBudget, PassesCounted
<1>1. CASE UNCHANGED <<count, passes>>
  BY <1>0, <1>1
<1>2. CASE Tick
  BY <1>0, <1>2, MaxAttemptsAssumption DEF Tick, TypeOK
<1>3. ASSUME NEW r \in Req, Incr(r)
      PROVE  passes'[j] <= MaxAttempts /\ passes'[j] <= count'[j]
  <2> DEFINE reply == Incremented(count[who[r]])
  <2>1. CASE j = who[r]
    <3>1. /\ count'[j] = reply
          /\ passes'[j] = IF AfterIncr(reply) = "idle" THEN passes[j] ELSE passes[j] + 1
      BY <1>3, <2>1 DEF Incr, TypeOK
    <3>2. reply = Incremented(count[j])
      BY <2>1
    <3>3. AfterIncr(reply) # "idle" => reply = count[j] + 1 /\ reply <= MaxAttempts
      BY <1>0, <3>2, ReplyRange
    <3>4. reply \in 1 .. CountCap /\ reply >= count[j]
      BY <1>0, <3>2, MaxAttemptsAssumption DEF Incremented
    <3> HIDE DEF reply
    <3> QED
      BY <1>0, <3>1, <3>3, <3>4, MaxAttemptsAssumption
  <2>2. CASE j # who[r]
    BY <1>0, <1>3, <2>2 DEF Incr, TypeOK
  <2> QED
    BY <2>1, <2>2
<1>4. ASSUME NEW r \in Req, Clear(r)
      PROVE  passes'[j] <= MaxAttempts /\ passes'[j] <= count'[j]
  BY <1>0, <1>4, MaxAttemptsAssumption DEF Clear, Del, TypeOK
<1>5. ASSUME NEW r \in Req, Executed(r)
      PROVE  passes'[j] <= MaxAttempts /\ passes'[j] <= count'[j]
  <2>1. CASE at[r] = "incr"
    <3>1. passes' = passes /\ (count'[j] = count[j] \/ count'[j] = Incremented(count[j]))
      BY <1>5, <2>1 DEF Executed, TypeOK
    <3> QED
      BY <1>0, <3>1, MaxAttemptsAssumption DEF Incremented
  <2>2. CASE at[r] = "expire"
    BY <1>0, <1>5, <2>2 DEF Executed
  <2>3. CASE at[r] = "clear"
    BY <1>0, <1>5, <2>3, MaxAttemptsAssumption DEF Executed, Del, TypeOK
  <2> QED
    BY <1>5, <2>1, <2>2, <2>3 DEF Executed
<1>6. CASE \E r \in Req : \/ \E i \in Ident : Arrive(r, i)
                          \/ Expire(r) \/ Fail(r) \/ BeginClear(r)
  BY <1>1, <1>6 DEF Arrive, Expire, Fail, BeginClear
<1>7. CASE Crash
  BY <1>1, <1>7 DEF Crash
<1>8. CASE UNCHANGED vars
  BY <1>1, <1>8 DEF vars
<1>9. CASE \E r \in Req : Resend(r) \/ CommandFails(r)
  BY <1>1, <1>5, <1>9 DEF Resend, CommandFails
<1> QED
  BY <1>2, <1>3, <1>4, <1>6, <1>7, <1>8, <1>9 DEF Next, Step

(* In the life of a key at most MAX_ATTEMPTS attempts get past
   assertLoginAllowed, for any number of concurrent requests, crashes, and
   commands that fail or are sent twice.                                                     *)
THEOREM BudgetKept == Spec => []AdmitBudget
<1>1. Init => BudgetInv
  BY MaxAttemptsAssumption DEF Init, BudgetInv, AdmitBudget, PassesCounted
<1>2. BudgetInv => AdmitBudget
  BY DEF BudgetInv
<1> QED
  BY <1>1, <1>2, TypeCorrect, BudgetInductive, PTL DEF Spec

-----------------------------------------------------------------------------

LEMMA CoveredInductive == TypeOK /\ TtlCovered /\ [Next]_vars => TtlCovered'
<1> SUFFICES ASSUME TypeOK, TtlCovered, [Next]_vars,
                    ~faulted',
                    NEW j \in Ident, count'[j] > 0, ttl'[j] = NoExpiry
             PROVE  \E q \in Req : at'[q] = "expire" /\ who'[q] = j
  BY DEF TtlCovered
<1> DEFINE Bare == count[j] > 0 /\ ttl[j] = NoExpiry
           Pending(q) == at[q] = "expire" /\ who[q] = j
<1>0. ~faulted => (Bare => \E q \in Req : Pending(q))
  BY DEF TtlCovered
<1>1. CASE UNCHANGED vars
  BY <1>0, <1>1 DEF vars
<1>2. CASE Tick
  <2>1. Bare /\ ~faulted /\ UNCHANGED <<at, who>>
    BY <1>2, WindowAssumption DEF Tick, Survives, TypeOK
  <2> QED
    BY <1>0, <2>1
<1>3. CASE Crash \/ \E r \in Req : Resend(r) \/ CommandFails(r)
  BY <1>3 DEF Crash, Resend, CommandFails
<1>4. ASSUME NEW r \in Req, NEW i \in Ident, Arrive(r, i)
      PROVE  \E q \in Req : at'[q] = "expire" /\ who'[q] = j
  <2>1. PICK q \in Req : Pending(q)
    BY <1>0, <1>4 DEF Arrive
  <2> QED
    BY <1>4, <2>1 DEF Arrive, TypeOK
<1>5. ASSUME NEW r \in Req, Incr(r)
      PROVE  \E q \in Req : at'[q] = "expire" /\ who'[q] = j
  <2>1. CASE Bare
    <3>1. PICK q \in Req : Pending(q)
      BY <1>0, <1>5, <2>1 DEF Incr
    <3> QED
      BY <1>5, <3>1 DEF Incr, TypeOK
  <2>2. CASE ~Bare
    <3>1. j = who[r] /\ count[j] = 0
      BY <1>5, <2>2 DEF Incr, TypeOK
    <3>2. at'[r] = "expire" /\ who'[r] = j
      BY <1>5, <3>1, MaxAttemptsAssumption, ReplyRange DEF Incr, TypeOK
    <3> QED
      BY <3>2
  <2> QED
    BY <2>1, <2>2
<1>6. ASSUME NEW r \in Req, Expire(r)
      PROVE  \E q \in Req : at'[q] = "expire" /\ who'[q] = j
  <2>1. j # who[r] /\ Bare
    BY <1>6, WindowAssumption DEF Expire, TypeOK
  <2>2. PICK q \in Req : Pending(q)
    BY <1>0, <1>6, <2>1 DEF Expire
  <2> QED
    BY <1>6, <2>1, <2>2 DEF Expire, TypeOK
<1>7. ASSUME NEW r \in Req, Fail(r) \/ BeginClear(r)
      PROVE  \E q \in Req : at'[q] = "expire" /\ who'[q] = j
  <2>1. PICK q \in Req : Pending(q)
    BY <1>0, <1>7 DEF Fail, BeginClear
  <2> QED
    BY <1>7, <2>1 DEF Fail, BeginClear, TypeOK
<1>8. ASSUME NEW r \in Req, Clear(r)
      PROVE  \E q \in Req : at'[q] = "expire" /\ who'[q] = j
  <2>1. Bare /\ ~faulted
    BY <1>8 DEF Clear, Del, TypeOK
  <2>2. PICK q \in Req : Pending(q)
    BY <1>0, <2>1
  <2> QED
    BY <1>8, <2>2 DEF Clear, TypeOK
<1> QED
  BY <1>1, <1>2, <1>3, <1>4, <1>5, <1>6, <1>7, <1>8 DEF Next, Step

(* While nothing has failed, every key that has no expiry has a request on its
   way to set one.                                                          *)
THEOREM ExpiryCovered == Spec => []TtlCovered
<1>1. Init => TtlCovered
  BY DEF Init, TtlCovered
<1> QED
  BY <1>1, TypeCorrect, CoveredInductive, PTL DEF Spec
=============================================================================
