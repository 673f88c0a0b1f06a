------------------------------- MODULE MCLibrary ------------------------------
EXTENDS Library

(* The two characters that are told apart: one that is encoded and one that is not. *)
Strings(n) == UNION {[1 .. k -> {Char("a"), Char("/")}] : k \in 0 .. n}

MCSecretSets ==
    {{s, t} : s \in Strings(3) \ Strings(1), t \in Strings(3) \ Strings(1)}

(* Every short text, and two patterns one behind the other or overlapping. *)
MCTextsFor(secrets) ==
    Strings(4) \cup
    {p \o SubSeq(q, 1 + cut, Len(q)) :
        p \in Patterns(secrets), q \in Patterns(secrets), cut \in 0 .. 1}

MCRedactions ==
    {<<{}, <<>>>>} \cup
    UNION {{<<secrets, t>> : t \in MCTextsFor(secrets)} : secrets \in MCSecretSets}

MCIdleCipher == [masterKey |-> "k1", keyVersion |-> 1, previousKeys |-> <<>>]
=============================================================================
