------------------------------ MODULE RateLimit ------------------------------
(***************************************************************************)
(* The login rate limiter of the API (RateLimitService) together with the  *)
(* Redis keys it counts in.                                                *)
(*                                                                         *)
(* A login request increments the key of its identifier (IP and email),    *)
(* gives the key an expiry when the increment created it, and is refused   *)
(* when the counter is past MAX_ATTEMPTS; a login whose credentials are    *)
(* right deletes the key.  Every command is an await: other requests run   *)
(* between any two of them, the API process can die there, and the Redis   *)
(* client sends a command again when the connection breaks before its      *)
(* reply (maxRetriesPerRequest is null, so a command is never given up).   *)
(*                                                                         *)
(* Time is counted in ticks; WINDOW_SECONDS is Window ticks.               *)
(***************************************************************************)
EXTENDS Integers

CONSTANTS
    Req,            \* login requests (slots: one serves again when it is idle)
    Ident,          \* identifiers a key is named after
    MaxAttempts,    \* MAX_ATTEMPTS
    Window          \* WINDOW_SECONDS, in ticks

ASSUME MaxAttemptsAssumption == MaxAttempts \in Nat \ {0}
ASSUME WindowAssumption == Window \in Nat \ {0}

VARIABLES
    count,      \* the counter under each key; 0 is a key that does not exist
    ttl,        \* remaining ticks of each key, NoExpiry without an EXPIRE
    at,         \* the command each request is about to have executed
    who,        \* the identifier each request was made with
    passes,     \* history: attempts let through in the present life of a key
    faulted     \* history: a crash, a broken connection or a failed command

vars == <<count, ttl, at, who, passes, faulted>>

NoExpiry == -1

(* The code compares a reply with 1 and with MAX_ATTEMPTS only, so counters
   above MaxAttempts are all alike and the model stops at the first.        *)
CountCap == MaxAttempts + 1

Stages == {"idle", "incr", "expire", "admitted", "clear"}

TypeOK ==
    /\ count \in [Ident -> 0 .. CountCap]
    /\ ttl \in [Ident -> {NoExpiry} \cup 1 .. Window]
    /\ at \in [Req -> Stages]
    /\ who \in [Req -> Ident]
    /\ passes \in [Ident -> Nat]
    /\ faulted \in BOOLEAN

Init ==
    /\ count = [i \in Ident |-> 0]
    /\ ttl = [i \in Ident |-> NoExpiry]
    /\ at = [r \in Req |-> "idle"]
    /\ who \in [Req -> Ident]
    /\ passes = [i \in Ident |-> 0]
    /\ faulted = FALSE

-----------------------------------------------------------------------------
(* Redis *)

(* INCR: an absent key counts from 0, and a key keeps its expiry. *)
Incremented(n) == IF n = CountCap THEN CountCap ELSE n + 1

(* MUTANT: a key lingers one tick after its time is up. *)
SurvivesOneMore(i) == count[i] > 0

(* The keys that outlive the next tick. *)
Survives(i) == count[i] > 0 /\ ttl[i] # 1

(* One tick: a key whose time is up is gone, with its counter. *)
Tick ==
    /\ \E i \in Ident : ttl[i] # NoExpiry
    /\ count' = [i \in Ident |-> IF Survives(i) THEN count[i] ELSE 0]
    /\ ttl' = [i \in Ident |-> IF Survives(i) /\ ttl[i] # NoExpiry
                                   THEN ttl[i] - 1 ELSE NoExpiry]
    /\ passes' = [i \in Ident |-> IF Survives(i) THEN passes[i] ELSE 0]
    /\ UNCHANGED <<at, who, faulted>>

-----------------------------------------------------------------------------
(* assertLoginAllowed *)

Arrive(r, i) ==
    /\ at[r] = "idle"
    /\ at' = [at EXCEPT ![r] = "incr"]
    /\ who' = [who EXCEPT ![r] = i]
    /\ UNCHANGED <<count, ttl, passes, faulted>>

(* MUTANT: the comparison lets one attempt too many through. *)
AfterIncrOffByOne(reply) ==
    IF reply = 1 THEN "expire" ELSE IF reply > MaxAttempts + 1 THEN "idle" ELSE "admitted"

(* MUTANT: the reply is taken for the value before the increment. *)
AfterIncrOldValue(reply) ==
    IF reply = 0 THEN "expire" ELSE IF reply > MaxAttempts THEN "idle" ELSE "admitted"

(* What follows the reply of INCR: the first attempt of a key goes on to EXPIRE,
   an attempt past the maximum is answered 429, any other is let through.  *)
AfterIncr(reply) ==
    IF reply = 1 THEN "expire" ELSE IF reply > MaxAttempts THEN "idle" ELSE "admitted"

(* MUTANT: every attempt, refused ones too, starts the window again. *)
IncrSliding(r) ==
    LET i == who[r]
        reply == Incremented(count[i])
    IN  /\ at[r] = "incr"
        /\ count' = [count EXCEPT ![i] = reply]
        /\ ttl' = [ttl EXCEPT ![i] = Window]
        /\ at' = [at EXCEPT ![r] = AfterIncr(reply)]
        /\ passes' = [passes EXCEPT ![i] = IF AfterIncr(reply) = "idle" THEN @ ELSE @ + 1]
        /\ UNCHANGED <<who, faulted>>

Incr(r) ==
    LET i == who[r]
        reply == Incremented(count[i])
    IN  /\ at[r] = "incr"
        /\ count' = [count EXCEPT ![i] = reply]
        /\ at' = [at EXCEPT ![r] = AfterIncr(reply)]
        /\ passes' = [passes EXCEPT ![i] = IF AfterIncr(reply) = "idle" THEN @ ELSE @ + 1]
        /\ UNCHANGED <<ttl, who, faulted>>

(* EXPIRE does nothing to a key that is gone by then. *)
Expire(r) ==
    /\ at[r] = "expire"
    /\ ttl' = [ttl EXCEPT ![who[r]] = IF count[who[r]] > 0 THEN Window ELSE @]
    /\ at' = [at EXCEPT ![r] = "admitted"]
    /\ UNCHANGED <<count, who, passes, faulted>>

-----------------------------------------------------------------------------
(* The rest of a login that was let through *)

(* verifyCredentials throws: the handler ends and the counter stays. *)
Fail(r) ==
    /\ at[r] = "admitted"
    /\ at' = [at EXCEPT ![r] = "idle"]
    /\ UNCHANGED <<count, ttl, who, passes, faulted>>

(* verifyCredentials returns: the handler goes on to clear. *)
BeginClear(r) ==
    /\ at[r] = "admitted"
    /\ at' = [at EXCEPT ![r] = "clear"]
    /\ UNCHANGED <<count, ttl, who, passes, faulted>>

(* DEL, whoever counted in the key since. *)
Del(i) ==
    /\ count' = [count EXCEPT ![i] = 0]
    /\ ttl' = [ttl EXCEPT ![i] = NoExpiry]
    /\ passes' = [passes EXCEPT ![i] = 0]

Clear(r) ==
    /\ at[r] = "clear"
    /\ Del(who[r])
    /\ at' = [at EXCEPT ![r] = "idle"]
    /\ UNCHANGED <<who, faulted>>

-----------------------------------------------------------------------------
(* Faults *)

(* Redis ran the command that r waits for, and r does not get this reply. *)
Executed(r) ==
    \/ /\ at[r] = "incr"
       /\ count' = [count EXCEPT ![who[r]] = Incremented(@)]
       /\ UNCHANGED <<ttl, passes>>
    \/ /\ at[r] = "expire"
       /\ ttl' = [ttl EXCEPT ![who[r]] = IF count[who[r]] > 0 THEN Window ELSE @]
       /\ UNCHANGED <<count, passes>>
    \/ /\ at[r] = "clear"
       /\ Del(who[r])

(* The connection breaks after Redis ran the command and before its reply
   arrives: the client connects again and sends the command once more, the
   request still waiting.                                                  *)
Resend(r) ==
    /\ Executed(r)
    /\ faulted' = TRUE
    /\ UNCHANGED <<at, who>>

(* The command throws, refused by Redis or by a client that was told to quit, with
   or without effect: the request ends with an error, and an attempt that waited
   for EXPIRE leaves its key without one.                                  *)
CommandFails(r) ==
    /\ at[r] \in {"incr", "expire", "clear"}
    /\ Executed(r) \/ UNCHANGED <<count, ttl, passes>>
    /\ at' = [at EXCEPT ![r] = "idle"]
    /\ faulted' = TRUE
    /\ UNCHANGED who

(* The API process dies and starts again: its requests are gone, the keys stay. *)
Crash ==
    /\ \E r \in Req : at[r] # "idle"
    /\ at' = [r \in Req |-> "idle"]
    /\ faulted' = TRUE
    /\ UNCHANGED <<count, ttl, who, passes>>

-----------------------------------------------------------------------------

Step(r) == Incr(r) \/ Expire(r) \/ Fail(r) \/ BeginClear(r) \/ Clear(r)

Next ==
    \/ \E r \in Req : \/ \E i \in Ident : Arrive(r, i)
                      \/ Step(r)
                      \/ Resend(r) \/ CommandFails(r)
    \/ Crash
    \/ Tick

Spec == Init /\ [][Next]_vars

(* A request that was received is served to its end, and time passes; nobody
   has to make a request, and nothing has to fail.                         *)
Fairness == WF_vars(Tick) /\ \A r \in Req : WF_vars(Step(r))

FairSpec == Spec /\ Fairness

-----------------------------------------------------------------------------
(* Properties *)

Locked(i) == count[i] > MaxAttempts

(* In the life of a key, from the INCR that creates it to its expiry or its DEL,
   at most MAX_ATTEMPTS attempts get past assertLoginAllowed, however many
   requests run at once and whatever crashes, fails or is sent twice.      *)
AdmitBudget == \A i \in Ident : passes[i] <= MaxAttempts

(* While nothing has failed, a key without an expiry is one whose first attempt
   has still to run its EXPIRE: concurrent attempts, and deletes by logins that
   succeed meanwhile, never leave a counter that nothing will remove.      *)
TtlCovered ==
    ~faulted => \A i \in Ident :
        count[i] > 0 /\ ttl[i] = NoExpiry => \E r \in Req : at[r] = "expire" /\ who[r] = i

(* While nothing fails, a lockout ends: a key past MAX_ATTEMPTS is gone one day,
   even when the refused client keeps trying (an attempt past the first does
   not start the window again).                                            *)
LockoutEnds == [](~faulted) => \A i \in Ident : Locked(i) ~> count[i] = 0

(* What "Too many login attempts. Try again later." tells the user: a lockout
   ends, always.                                                           *)
LaterComes == \A i \in Ident : Locked(i) ~> count[i] = 0
=============================================================================
