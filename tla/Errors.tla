-------------------------------- MODULE Errors --------------------------------
(***************************************************************************)
(* The way of an error from where it is thrown to the login page: the      *)
(* typed domain errors, the exception filter that turns whatever a handler *)
(* throws into a response, and the page that shows its message.            *)
(*                                                                         *)
(* A message is told apart only by where it may be seen: it is written for *)
(* the client, or internal (a stack, the text of a database error).        *)
(***************************************************************************)
CONSTANTS
    Safe,       \* messages written for the client
    Internal    \* messages of anything else that is thrown

VARIABLES
    sent,       \* what the fetch of the page came to, NoRequest before and after
    page        \* the state of the login page

errorVars == <<sent, page>>

Generic == "Internal server error"
LoginFailed == "Login failed"
FetchFailed == "Failed to fetch"
NoMessage == "no message"

ASSUME MessagesAssumption ==
    (Safe \cup {Generic, LoginFailed, FetchFailed, NoMessage}) \cap Internal = {}

-----------------------------------------------------------------------------
(* What is thrown *)

HttpStatus ==
    [VALIDATION |-> 400, UNAUTHORIZED |-> 401, FORBIDDEN |-> 403, NOT_FOUND |-> 404,
     CONFLICT |-> 409, RATE_LIMITED |-> 429, INVALID_STATE_TRANSITION |-> 409,
     CONFIGURATION |-> 500, INTERNAL |-> 500]

DomainErrorCode == DOMAIN HttpStatus

(* Details are told by the keys of the optional object. *)
DomainError(code, message, details) ==
    [kind |-> "domain", code |-> code, message |-> message, details |-> details]

(* The validation pipe: the fields at fault and what is wrong with them. *)
InvalidPayload(message) == DomainError("VALIDATION", message, {"issues"})

InvalidStateTransition(message) ==
    DomainError("INVALID_STATE_TRANSITION", message, {"from", "to"})

(* An exception of the framework carries a status and a body, a text or an object
   with a message; anything else that is thrown carries its own text.       *)
HttpException(status, message, asObject) ==
    [kind |-> "http", status |-> status, message |-> message, asObject |-> asObject]
Other(message) == [kind |-> "other", message |-> message]

Exceptions ==
    {DomainError(c, m, {}) : c \in DomainErrorCode, m \in Safe}
    \cup {InvalidPayload(m) : m \in Safe} \cup {InvalidStateTransition(m) : m \in Safe}
    \cup {HttpException(s, m, o) : s \in {400, 404}, m \in Safe, o \in BOOLEAN}
    \cup {Other(m) : m \in Internal}

-----------------------------------------------------------------------------
(* The exception filter *)

Reply(status, code, message, details) ==
    [from |-> "filter", status |-> status, code |-> code, message |-> message,
     details |-> details]

(* MUTANT: the message of an unknown error is passed on. *)
CatchTelling(e) ==
    IF e.kind = "domain" THEN Reply(HttpStatus[e.code], e.code, e.message, e.details)
    ELSE IF e.kind = "http" THEN
        Reply(e.status, "HTTP", e.message, IF e.asObject THEN {"statusCode", "error"} ELSE {})
    ELSE Reply(500, "INTERNAL", e.message, {})

(* An object body is spread beside the code, so its other keys come along. *)
Catch(e) ==
    IF e.kind = "domain" THEN Reply(HttpStatus[e.code], e.code, e.message, e.details)
    ELSE IF e.kind = "http" THEN
        Reply(e.status, "HTTP", e.message, IF e.asObject THEN {"statusCode", "error"} ELSE {})
    ELSE Reply(500, "INTERNAL", Generic, {})

-----------------------------------------------------------------------------
(* The login page *)

(* What a fetch comes to besides: no response at all, a refusal that is not of the
   API (a proxy's page), a session.                                         *)
NoRequest == [from |-> "nowhere"]
Pending == [from |-> "pending"]
NoResponse == [from |-> "nobody"]
Foreign == [from |-> "proxy"]
LoggedIn == [from |-> "login"]

ErrorInit ==
    /\ sent = NoRequest
    /\ page = [error |-> NoMessage, loading |-> FALSE, signedIn |-> FALSE]

(* The button is disabled while a request is out, the form is gone once signed in. *)
Submit ==
    /\ ~page.loading /\ ~page.signedIn
    /\ page' = [page EXCEPT !.error = NoMessage, !.loading = TRUE]
    /\ sent' = Pending

Answer ==
    /\ sent = Pending
    /\ sent' \in {NoResponse, Foreign, LoggedIn} \cup {Catch(e) : e \in Exceptions}
    /\ UNCHANGED page

Shown ==
    IF sent.from = "filter" THEN sent.message
    ELSE IF sent.from = "proxy" THEN LoginFailed ELSE FetchFailed

(* Whatever came of it, loading ends. *)
Settle ==
    /\ sent \notin {NoRequest, Pending}
    /\ page' = IF sent = LoggedIn
               THEN [page EXCEPT !.signedIn = TRUE, !.loading = FALSE]
               ELSE [page EXCEPT !.error = Shown, !.loading = FALSE]
    /\ sent' = NoRequest

ErrorNext == Submit \/ Answer \/ Settle

ErrorSpec == ErrorInit /\ [][ErrorNext]_errorVars

-----------------------------------------------------------------------------
(* Correctness *)

(* The text of an unknown error reaches neither a response nor the page; a domain
   error answers with the status of its code; the page shows an error or a session,
   never both, and loads exactly while a request is out.                    *)
RepliesSafe ==
    /\ sent.from = "filter" =>
           /\ sent.message \notin Internal
           /\ sent.code \in DomainErrorCode => sent.status = HttpStatus[sent.code]
    /\ page.error \notin Internal
    /\ page.signedIn => page.error = NoMessage
    /\ page.loading <=> sent # NoRequest
=============================================================================
