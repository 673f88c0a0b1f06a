------------------------------- MODULE Library --------------------------------
(***************************************************************************)
(* The shared libraries, side by side.  They share no state: a behaviour   *)
(* exercises one of them and leaves the others as they started.            *)
(***************************************************************************)
EXTENDS Credentials, Redaction, Errors

CONSTANT IdleCipher     \* the parameters of the cipher nobody uses

(* What is idle started as a behaviour of its own could have. *)
ASSUME IdleAssumption == IdleCipher \in Parameters /\ <<{}, <<>>>> \in Redactions

VARIABLE library    \* the one that is exercised

vars == <<library, credVars, redactVars, errorVars>>

IdleCredentials == cipher = IdleCipher /\ stored = {}

Init ==
    /\ ErrorInit
    /\ \/ library = "credentials" /\ CredInit /\ RedactStart({}, <<>>)
       \/ library = "redaction" /\ IdleCredentials /\ RedactInit
       \/ library = "errors" /\ IdleCredentials /\ RedactStart({}, <<>>)

CredStep == library = "credentials" /\ CredNext /\ UNCHANGED <<redactVars, errorVars>>
RedactStep == library = "redaction" /\ Redact /\ UNCHANGED <<credVars, errorVars>>
ErrorStep == library = "errors" /\ ErrorNext /\ UNCHANGED <<credVars, redactVars>>

Next == (CredStep \/ RedactStep \/ ErrorStep) /\ UNCHANGED library

Spec == Init /\ [][Next]_vars
=============================================================================
