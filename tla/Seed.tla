-------------------------------- MODULE Seed ---------------------------------
(***************************************************************************)
(* The administrator seed (packages/database/prisma/seed.ts), which the    *)
(* migrate container runs on every start of the stack.                     *)
(*                                                                         *)
(* A run looks the administrator up by email; when there is none it takes  *)
(* ADMIN_PASSWORD or generates a password, creates the account and, if it  *)
(* generated the password, prints it.  The queries are awaits: a second    *)
(* run (another deployment, a manual one) can pass through them, a query   *)
(* can throw, and the container can be stopped between any two steps.      *)
(*                                                                         *)
(* A password stands for its Argon2 hash too: hashing draws a salt, but    *)
(* whether a password opens an account is all that is told apart.          *)
(***************************************************************************)
CONSTANTS
    Run,            \* seed processes (slots: one starts again when it is over)
    Email,          \* values of ADMIN_EMAIL
    Password,       \* passwords
    None            \* no account, no password

ASSUME NoneAssumption == None \notin Password

VARIABLES
    users,      \* the password of the account of each email, or None
    step,       \* what each run waits for
    email,      \* ADMIN_EMAIL of each run
    provided,   \* ADMIN_PASSWORD of each run, None when it is unset or blank
    password,   \* the password a run means to store, None before it has one
    drawn,      \* passwords that exist: provided by someone or generated
    generated,  \* passwords that were generated
    printed     \* what the logs show: <<email, password>> pairs

vars == <<users, step, email, provided, password, drawn, generated, printed>>

Steps == {"over", "find", "create", "print"}

TypeOK ==
    /\ users \in [Email -> Password \cup {None}]
    /\ step \in [Run -> Steps]
    /\ email \in [Run -> Email]
    /\ provided \in [Run -> Password \cup {None}]
    /\ password \in [Run -> Password \cup {None}]
    /\ drawn \subseteq Password
    /\ generated \subseteq drawn
    /\ printed \subseteq Email \X Password
    /\ \A p \in Run : step[p] \in {"create", "print"} => password[p] \in drawn

Init ==
    /\ users = [e \in Email |-> None]
    /\ step = [p \in Run |-> "over"]
    /\ email \in [Run -> Email]
    /\ provided = [p \in Run |-> None]
    /\ password = [p \in Run |-> None]
    /\ drawn = {}
    /\ generated = {}
    /\ printed = {}

-----------------------------------------------------------------------------

Goto(p, s) == step' = [step EXCEPT ![p] = s]

(* The run is over, successfully or not, and its password forgotten. *)
Exit(p) ==
    /\ Goto(p, "over")
    /\ password' = [password EXCEPT ![p] = None]
    /\ provided' = [provided EXCEPT ![p] = None]

(* The container starts with an ADMIN_EMAIL (a run without one ends at once) and
   with or without an ADMIN_PASSWORD the operator made up.                  *)
Start(p, e, w) ==
    /\ step[p] = "over"
    /\ w \notin generated
    /\ email' = [email EXCEPT ![p] = e]
    /\ provided' = [provided EXCEPT ![p] = w]
    /\ drawn' = IF w = None THEN drawn ELSE drawn \cup {w}
    /\ Goto(p, "find")
    /\ UNCHANGED <<users, password, generated, printed>>

(* findUnique finds the account: it is left unchanged. *)
FindExisting(p) ==
    /\ step[p] = "find"
    /\ users[email[p]] # None
    /\ Exit(p)
    /\ UNCHANGED <<users, email, drawn, generated, printed>>

(* What the run is to store: the password provided, or one nobody has seen. *)
Chosen(p, w) == IF provided[p] = None THEN w \notin drawn ELSE w = provided[p]

(* MUTANT: the generated password is printed before the account is created. *)
FindNobodyPrinting(p, w) ==
    /\ step[p] = "find"
    /\ users[email[p]] = None
    /\ Chosen(p, w)
    /\ password' = [password EXCEPT ![p] = w]
    /\ drawn' = drawn \cup {w}
    /\ generated' = IF provided[p] = None THEN generated \cup {w} ELSE generated
    /\ printed' = IF provided[p] = None THEN printed \cup {<<email[p], w>>} ELSE printed
    /\ Goto(p, "create")
    /\ UNCHANGED <<users, email, provided>>

(* findUnique returns null: the password is chosen and hashed. *)
FindNobody(p, w) ==
    /\ step[p] = "find"
    /\ users[email[p]] = None
    /\ Chosen(p, w)
    /\ password' = [password EXCEPT ![p] = w]
    /\ drawn' = drawn \cup {w}
    /\ generated' = IF provided[p] = None THEN generated \cup {w} ELSE generated
    /\ Goto(p, "create")
    /\ UNCHANGED <<users, email, provided, printed>>

(* MUTANT: the account is upserted, password included. *)
CreateOverwriting(p) ==
    /\ step[p] = "create"
    /\ users' = [users EXCEPT ![email[p]] = password[p]]
    /\ IF provided[p] = None
       THEN Goto(p, "print") /\ UNCHANGED <<password, provided>>
       ELSE Exit(p)
    /\ UNCHANGED <<email, drawn, generated, printed>>

Create(p) ==
    /\ step[p] = "create"
    /\ users[email[p]] = None
    /\ users' = [users EXCEPT ![email[p]] = password[p]]
    /\ IF provided[p] = None
       THEN Goto(p, "print") /\ UNCHANGED <<password, provided>>
       ELSE Exit(p)
    /\ UNCHANGED <<email, drawn, generated, printed>>

(* Another run created the account meanwhile: a unique violation, exit code 1. *)
CreateConflicts(p) ==
    /\ step[p] = "create"
    /\ users[email[p]] # None
    /\ Exit(p)
    /\ UNCHANGED <<users, email, drawn, generated, printed>>

Show(p) ==
    /\ step[p] = "print"
    /\ printed' = printed \cup {<<email[p], password[p]>>}
    /\ Exit(p)
    /\ UNCHANGED <<users, email, drawn, generated>>

(* A query throws, the account written or not, or the container is stopped. *)
Die(p) ==
    /\ step[p] # "over"
    /\ \/ UNCHANGED users
       \/ /\ step[p] = "create"
          /\ users[email[p]] = None
          /\ users' = [users EXCEPT ![email[p]] = password[p]]
    /\ Exit(p)
    /\ UNCHANGED <<email, drawn, generated, printed>>

-----------------------------------------------------------------------------

Next == \E p \in Run :
    \/ \E e \in Email, w \in Password \cup {None} : Start(p, e, w)
    \/ FindExisting(p)
    \/ \E w \in Password : FindNobody(p, w)
    \/ Create(p) \/ CreateConflicts(p) \/ Show(p) \/ Die(p)

Spec == Init /\ [][Next]_vars

-----------------------------------------------------------------------------
(* Properties *)

(* "never overwrites an existing password": runs that overlap, rerun or come with
   another ADMIN_PASSWORD leave an account that exists as it is.            *)
NeverOverwritten == [][\A e \in Email : users[e] # None => users'[e] = users[e]]_vars

(* A password the logs show opens the account they show it for, also when two
   runs generated one each for the same email.                              *)
PrintedWorks == \A e \in Email, w \in Password : <<e, w>> \in printed => users[e] = w

(* "If ADMIN_PASSWORD is not provided, a strong random password is generated and
   printed ONCE": when no run is under way, the generated password of every
   account has been printed.                                                *)
GeneratedIsPrinted ==
    (\A p \in Run : step[p] = "over") =>
        \A e \in Email : users[e] \in generated => <<e, users[e]>> \in printed
=============================================================================
