------------------------------ MODULE Redaction -------------------------------
(***************************************************************************)
(* Redaction of secrets from outgoing text (Redactor): every known secret  *)
(* and its encodings, if long enough, replaced longest first, one pattern  *)
(* after the other and each from left to right.                            *)
(*                                                                         *)
(* A text is a sequence of symbols.  What is left of it is the sequence of *)
(* the positions that are left, 0 standing for [REDACTED], so that every   *)
(* symbol is traced to where it came from; no secret is a part of the word *)
(* [REDACTED] itself.                                                      *)
(***************************************************************************)
EXTENDS Naturals, Sequences, FiniteSets

CONSTANTS
    MinLength,      \* the length below which a value is not redacted (6)
    Redactions      \* the pairs of a set of secrets and a text that are redacted

(* Secrets and texts are sequences, and an empty value is no pattern. *)
ASSUME RedactionsAssumption ==
    /\ MinLength \in Nat \ {0}
    /\ \A r \in Redactions : Len(r[2]) \in Nat /\ \A s \in r[1] : Len(s) \in Nat

VARIABLES
    text,       \* the text given to redact()
    patterns,   \* what the constructor made of the secrets
    todo,       \* the patterns still to be applied
    pattern,    \* the one that is being applied
    lastIndex,  \* where its next occurrence is looked for
    left        \* what is left of the text

redactVars == <<text, patterns, todo, pattern, lastIndex, left>>

NoPattern == <<>>

-----------------------------------------------------------------------------
(* The patterns *)

(* A symbol is a character of its own, or one that base64 wrote. *)
Char(c) == <<"char", <<c>>>>

(* base64 writes four symbols for three, filling up with zeros: each is told by its
   place among the four and by the bytes its six bits lie in, 6k-5 to 6k of the
   bits for the k-th.  base64url leaves the padding away.                   *)
Base64Url(s) ==
    LET bytes == Append(s, Char("zero"))
        place == <<"first", "second", "third", "fourth">>
    IN  [k \in 1 .. (4 * Len(s) + 2) \div 3 |->
            <<place[((k - 1) % 4) + 1],
              SubSeq(bytes, ((6 * k - 6) \div 8) + 1, ((6 * k - 1) \div 8) + 1)>>]
Base64(s) == Base64Url(s) \o [k \in 1 .. (2 * Len(s)) % 3 |-> Char("=")]

(* encodeURIComponent writes a reserved symbol as three: the first n take this many. *)
Width(s, n) == n + 2 * Cardinality({i \in 1 .. n : s[i] = Char("/")})
UriSymbol(s, k) ==
    LET i == CHOOSE n \in 1 .. Len(s) : Width(s, n - 1) < k /\ k <= Width(s, n)
    IN  IF s[i] = Char("/") THEN <<Char("%"), Char("2"), Char("F")>>[k - Width(s, i - 1)]
        ELSE s[i]
UriComponent(s) == [k \in 1 .. Width(s, Len(s)) |-> UriSymbol(s, k)]

EncodedVariants(s) ==
    {v \in {s, Base64(s), Base64Url(s), UriComponent(s)} : Len(v) >= MinLength}

Patterns(secrets) == UNION {EncodedVariants(s) : s \in secrets}

(* MUTANT: the patterns are sorted the other way. *)
ShortestFirst == {p \in todo : \A q \in todo : Len(q) >= Len(p)}

(* Patterns of one length come in the order of the secrets, which can be any. *)
NextPatterns == {p \in todo : \A q \in todo : Len(q) <= Len(p)}

-----------------------------------------------------------------------------
(* Replacement *)

(* p is at place j of the positions s of the text. *)
OccursAt(p, s, j) ==
    /\ j + Len(p) - 1 <= Len(s)
    /\ \A k \in 1 .. Len(p) : s[j + k - 1] # 0 /\ text[s[j + k - 1]] = p[k]

(* MUTANT: without the g flag only the first occurrence is replaced. *)
MatchesOnce ==
    {j \in 1 .. Len(left) : lastIndex = 1 /\ OccursAt(pattern, left, j)}

Matches == {j \in lastIndex .. Len(left) : OccursAt(pattern, left, j)}

(* s with [REDACTED] for the n symbols from place j on. *)
Cut(s, j, n) ==
    [k \in 1 .. Len(s) - n + 1 |->
        IF k < j THEN s[k] ELSE IF k = j THEN 0 ELSE s[k + n - 1]]

Whole == [i \in 1 .. Len(text) |-> i]

RedactStart(secrets, given) ==
    /\ text = given /\ patterns = Patterns(secrets)
    /\ todo = patterns /\ left = Whole
    /\ pattern = NoPattern /\ lastIndex = 1

RedactInit == \E r \in Redactions : RedactStart(r[1], r[2])

NextPattern ==
    /\ pattern = NoPattern
    /\ pattern' \in NextPatterns
    /\ todo' = todo \ {pattern'}
    /\ lastIndex' = 1
    /\ UNCHANGED <<text, patterns, left>>

(* String.replace with a global pattern: the occurrences from left to right, none
   overlapping the one before.                                              *)
ReplaceMatch ==
    /\ pattern # NoPattern
    /\ \E j \in Matches :
        /\ \A k \in Matches : j <= k
        /\ left' = Cut(left, j, Len(pattern))
        /\ lastIndex' = j + 1
    /\ UNCHANGED <<text, patterns, todo, pattern>>

PatternDone ==
    /\ pattern # NoPattern
    /\ Matches = {}
    /\ pattern' = NoPattern /\ lastIndex' = 1
    /\ UNCHANGED <<text, patterns, todo, left>>

Redact == NextPattern \/ ReplaceMatch \/ PatternDone

RedactSpec == RedactInit /\ [][Redact]_redactVars

-----------------------------------------------------------------------------
(* Correctness *)

(* redact() has returned. *)
Redacted == todo = {} /\ pattern = NoPattern

Occurrences ==
    {o \in patterns \X (1 .. Len(text)) : OccursAt(o[1], Whole, o[2])}
Covered(o) == o[2] .. o[2] + Len(o[1]) - 1
Left == {left[j] : j \in 1 .. Len(left)} \ {0}

(* It overlaps shorter ones only. *)
Largest(o) ==
    \A q \in Occurrences \ {o} : Covered(q) \cap Covered(o) # {} => Len(q[1]) < Len(o[1])

(* What leaves holds no secret and no encoding of one, although each pattern was
   looked for in what the others had left; and what was taken out was part of one:
   the rest of the text comes through as it was and in its order.           *)
NoSecretLeft ==
    Redacted =>
        /\ \A p \in patterns, j \in 1 .. Len(left) : ~OccursAt(p, left, j)
        /\ \A i \in 1 .. Len(text) : i \notin Left => \E o \in Occurrences : i \in Covered(o)
        /\ \A j, k \in 1 .. Len(left) : j < k /\ left[k] # 0 => left[j] < left[k]

(* "Longest first so overlapping values redact the largest match": an occurrence
   that overlaps shorter ones only goes as a whole, no end of it stays.     *)
LargestMatchGone ==
    Redacted => \A o \in Occurrences : Largest(o) => Covered(o) \cap Left = {}
=============================================================================
