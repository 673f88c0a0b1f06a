----------------------------- MODULE LibraryProofs -----------------------------
(***************************************************************************)
(* Stored credentials stay readable through any number of rotations, and   *)
(* nobody reads a text that was not sealed, for any sets of keys, versions,*)
(* nonces and texts; a redacted text holds no secret, for any secrets and  *)
(* texts of any length; and what is internal of an error is never shown,   *)
(* for any messages.                                                       *)
(***************************************************************************)
EXTENDS Library, SequenceTheorems, FiniteSetTheorems, TLAPS

-----------------------------------------------------------------------------
(* Credentials *)

(* A stored value is exactly what encrypt() made of its text, and the current
   cipher holds, for its version, the key it was made with.  The second part is
   what a rotation must not disturb; readability alone is not inductive, for
   nothing in it says that the version belongs to the cipher's keys.        *)
Sealed(v) ==
    /\ v.keyVersion \in Version
    /\ v.nonce \in Nonce
    /\ v.ciphertext \in [key : Key, nonce : Nonce, text : Text]
    /\ v.ciphertext.nonce = v.nonce
    /\ v.authTag = [whole |-> TRUE, of |-> v.ciphertext]

Held(v) ==
    /\ v.keyVersion \in {cipher.keyVersion} \cup DOMAIN cipher.previousKeys
    /\ KeyForVersion(cipher, v.keyVersion) = v.ciphertext.key

CredInv ==
    /\ cipher \in Parameters
    /\ \A v \in stored : Sealed(v) /\ Held(v)

(* What Parameters says of the fields of a cipher. *)
LEMMA ParametersFields ==
    ASSUME NEW c \in Parameters
    PROVE  /\ c.masterKey \in Key /\ c.keyVersion \in Version
           /\ DOMAIN c.previousKeys \subseteq Version
           /\ \A v \in DOMAIN c.previousKeys : c.previousKeys[v] \in Key
  BY DEF Parameters

(* A known version has a key, and only a known one. *)
LEMMA KeyForVersionType ==
    ASSUME NEW c \in Parameters, NEW v
    PROVE  /\ v \in {c.keyVersion} \cup DOMAIN c.previousKeys => KeyForVersion(c, v) \in Key
           /\ v \notin {c.keyVersion} \cup DOMAIN c.previousKeys => KeyForVersion(c, v) = NoKey
  BY ParametersFields DEF KeyForVersion

(* encrypt() makes a sealed value of the current key. *)
LEMMA EncryptedSealed ==
    ASSUME NEW nonce \in Nonce, NEW t \in Text, cipher \in Parameters
    PROVE  Sealed(Encrypted(cipher, nonce, t)) /\ Held(Encrypted(cipher, nonce, t))
  BY ParametersFields DEF Sealed, Held, Encrypted, KeyForVersion

(* A rotation yields parameters the constructor takes. *)
LEMMA RotateType ==
    ASSUME NEW key \in Key, NEW version \in Version, cipher \in Parameters, Rotate(key, version)
    PROVE  cipher' \in Parameters
<1> DEFINE vs == DOMAIN cipher.previousKeys \cup {cipher.keyVersion}
           ks == [v \in vs |-> IF v = cipher.keyVersion THEN cipher.masterKey
                               ELSE cipher.previousKeys[v]]
<1>1. vs \in SUBSET Version /\ ks \in [vs -> Key]
  BY ParametersFields
<1>2. ks \in UNION {[ws -> Key] : ws \in SUBSET Version}
  BY <1>1
<1>3. cipher' = [masterKey |-> key, keyVersion |-> version, previousKeys |-> ks]
  BY DEF Rotate
<1> QED
  BY <1>2, <1>3 DEF Parameters

(* A rotation keeps the key of every version that was known. *)
LEMMA RotateKeeps ==
    ASSUME NEW key \in Key, NEW version \in Version, Rotate(key, version),
           NEW v \in {cipher.keyVersion} \cup DOMAIN cipher.previousKeys
    PROVE  /\ v \in {cipher'.keyVersion} \cup DOMAIN cipher'.previousKeys
           /\ KeyForVersion(cipher', v) = KeyForVersion(cipher, v)
<1>1. v # version
  BY DEF Rotate
<1>2. /\ cipher'.keyVersion = version
      /\ DOMAIN cipher'.previousKeys = DOMAIN cipher.previousKeys \cup {cipher.keyVersion}
      /\ cipher'.previousKeys[v] = IF v = cipher.keyVersion THEN cipher.masterKey
                                   ELSE cipher.previousKeys[v]
  BY DEF Rotate
<1> QED
  BY <1>1, <1>2 DEF KeyForVersion

LEMMA InitCredInv == CredInit => CredInv
  BY DEF CredInit, CredInv

LEMMA NextCredInv == CredInv /\ [CredNext]_credVars => CredInv'
<1> SUFFICES ASSUME CredInv, [CredNext]_credVars PROVE CredInv'
  OBVIOUS
<1>1. ASSUME NEW nonce \in Nonce, NEW t \in Text, Seal(nonce, t) PROVE CredInv'
  <2>1. cipher' = cipher /\ stored' = stored \cup {Encrypted(cipher, nonce, t)}
    BY <1>1 DEF Seal
  <2>2. ASSUME NEW v \in stored' PROVE Sealed(v) /\ Held(v)
    BY <2>1, EncryptedSealed DEF CredInv
  <2> QED
    BY <2>1, <2>2 DEF CredInv, Held
<1>2. ASSUME NEW key \in Key, NEW version \in Version, Rotate(key, version) PROVE CredInv'
  <2>1. stored' = stored /\ cipher' \in Parameters
    BY <1>2, RotateType DEF CredInv, Rotate
  <2>2. ASSUME NEW v \in stored PROVE Sealed(v) /\ Held(v)'
    BY <1>2, RotateKeeps DEF CredInv, Held
  <2> QED
    BY <2>1, <2>2 DEF CredInv
<1>3. CASE UNCHANGED credVars
  BY <1>3 DEF CredInv, Held, credVars
<1> QED
  BY <1>1, <1>2, <1>3 DEF CredNext

LEMMA AlwaysCredInv == CredSpec => []CredInv
  BY InitCredInv, NextCredInv, PTL DEF CredSpec

(* Whatever was sealed before, the current cipher opens it to its text, however
   often the keys were rotated.                                             *)
THEOREM RotationKeepsReadable == CredSpec => []StoredReadable
<1>1. CredInv => StoredReadable
  <2> SUFFICES ASSUME CredInv, NEW v \in stored
               PROVE  Decrypt(cipher, v) = Opened(v.ciphertext.text)
    BY DEF StoredReadable
  <2>1. Sealed(v) /\ Held(v)
    BY DEF CredInv
  <2>2. KeyForVersion(cipher, v.keyVersion) # NoKey
    BY <2>1, KeyForVersionType, NoKeyAssumption DEF CredInv, Held
  <2> QED
    BY <2>1, <2>2 DEF Sealed, Held, Decrypt
<1> QED
  BY <1>1, AlwaysCredInv, PTL

(* A text comes only out of the nonce, the ciphertext and the tag of one stored
   value, for a reader who holds its key under the version given.           *)
THEOREM NothingForged == CredSpec => []OnlyWhatWasSealed
<1>1. CredInv => OnlyWhatWasSealed
  <2> SUFFICES ASSUME CredInv, NEW c \in Parameters, NEW v \in Readable, Decrypt(c, v).ok
               PROVE  \E u \in stored :
                          /\ v.authTag = u.authTag /\ v.nonce = u.nonce
                          /\ v.ciphertext = u.ciphertext
                          /\ Decrypt(c, v) = Opened(u.ciphertext.text)
                          /\ KeyForVersion(c, v.keyVersion) = u.ciphertext.key
    BY DEF OnlyWhatWasSealed
  <2>1. PICK n \in Version, a \in stored, b \in stored, d \in stored, w \in BOOLEAN :
            v = [keyVersion |-> n, nonce |-> a.nonce, ciphertext |-> b.ciphertext,
                 authTag |-> [whole |-> w, of |-> d.ciphertext]]
    BY DEF Readable
  <2>2. /\ v.keyVersion = n /\ v.nonce = a.nonce /\ v.ciphertext = b.ciphertext
        /\ v.authTag.whole = w /\ v.authTag.of = d.ciphertext
        /\ v.authTag = [whole |-> w, of |-> d.ciphertext]
    BY <2>1
  <2>3. /\ w = TRUE
        /\ d.ciphertext = b.ciphertext /\ b.ciphertext.nonce = a.nonce
        /\ b.ciphertext.key = KeyForVersion(c, n)
        /\ Decrypt(c, v) = Opened(b.ciphertext.text)
    BY <2>2, NoKeyAssumption DEF Decrypt, Opened, Failed
  <2>4. Sealed(b)
    BY DEF CredInv
  <2> QED
    BY <2>2, <2>3, <2>4 DEF Sealed
<1> QED
  BY <1>1, AlwaysCredInv, PTL

-----------------------------------------------------------------------------
(* Redaction *)

(* Every pattern is a sequence of at least one symbol, and none is the empty one
   that stands for no pattern.                                              *)
RedactTypes ==
    /\ Len(text) \in Nat
    /\ \A p \in patterns : Len(p) \in Nat \ {0}
    /\ todo \subseteq patterns
    /\ pattern # NoPattern => pattern \in patterns \ todo
    /\ lastIndex \in Nat \ {0}
    /\ left \in Seq(0 .. Len(text))

(* The symbols that are left are in their order. *)
InOrder == \A j, k \in 1 .. Len(left) : j < k /\ left[k] # 0 => left[j] < left[k]

(* Where no [REDACTED] is between two symbols, none is missing between them. *)
Contiguous ==
    \A j, k \in 1 .. Len(left) :
        j <= k /\ (\A m \in j .. k : left[m] # 0) => left[k] = left[j] + (k - j)

(* What is not left was part of an occurrence. *)
OnlyCoveredGone ==
    \A i \in 1 .. Len(text) : i \notin Left => \E o \in Occurrences : i \in Covered(o)

(* A pattern that was applied occurs nowhere, the current one nowhere before lastIndex. *)
AppliedGone ==
    \A p \in patterns, j \in 1 .. Len(left) :
        p \notin todo /\ (p = pattern => j < lastIndex) => ~OccursAt(p, left, j)

LongestFirst == pattern # NoPattern => \A q \in todo : Len(q) <= Len(pattern)

(* Until it goes as a whole, a largest occurrence is left as a whole and its pattern
   is still to come, or has not come to it yet.                             *)
LeftAt(o, j) ==
    /\ j + Len(o[1]) - 1 <= Len(left)
    /\ \A k \in 1 .. Len(o[1]) : left[j + k - 1] = o[2] + k - 1
StillToCome(o) ==
    /\ o[1] \in todo \/ o[1] = pattern
    /\ \E j \in 1 .. Len(left) : (o[1] = pattern => j >= lastIndex) /\ LeftAt(o, j)
LargestWhole ==
    \A o \in Occurrences : Largest(o) => Covered(o) \cap Left = {} \/ StillToCome(o)

RedactInv ==
    /\ RedactTypes /\ InOrder /\ Contiguous /\ OnlyCoveredGone
    /\ AppliedGone /\ LongestFirst /\ LargestWhole

(* A function on 1 .. n is a sequence of n members. *)
LEMMA FunctionIsSequence ==
    ASSUME NEW n \in Nat, NEW f, DOMAIN f = 1 .. n, f = [k \in 1 .. n |-> f[k]]
    PROVE  f \in Seq({f[k] : k \in 1 .. n}) /\ Len(f) = n
<1>1. f \in [1 .. n -> {f[k] : k \in 1 .. n}]
  OBVIOUS
<1>2. f \in Seq({f[k] : k \in 1 .. n})
  BY <1>1, SeqDef
<1> QED
  BY <1>1, <1>2, LenProperties

(* How long an encoded variant is. *)
LEMMA VariantLengths ==
    ASSUME NEW s, Len(s) \in Nat
    PROVE  /\ Len(Base64Url(s)) \in Nat /\ Len(Base64(s)) \in Nat
           /\ Len(UriComponent(s)) \in Nat
<1> DEFINE n == (4 * Len(s) + 2) \div 3
           pad == [k \in 1 .. (2 * Len(s)) % 3 |-> Char("=")]
           b == Base64Url(s)
           S == {b[k] : k \in 1 .. n} \cup {Char("=")}
<1>1. n \in Nat /\ (2 * Len(s)) % 3 \in Nat
  OBVIOUS
<1>2. DOMAIN b = 1 .. n /\ b = [k \in 1 .. n |-> b[k]]
  BY Zenon DEF Base64Url
<1>3. b \in Seq({b[k] : k \in 1 .. n}) /\ Len(b) = n
  <2> HIDE DEF n, b
  <2> QED
    BY <1>1, <1>2, FunctionIsSequence
<1>4. pad \in Seq(S)
  BY <1>1, SeqDef
<1>5. b \in Seq(S)
  BY <1>1, <1>2, SeqDef
<1>6. Len(Base64(s)) \in Nat
  BY <1>4, <1>5, ConcatProperties, LenProperties DEF Base64
<1>7. Width(s, Len(s)) \in Nat
  <2>1. IsFiniteSet(1 .. Len(s))
    BY FS_Interval
  <2>2. Cardinality({i \in 1 .. Len(s) : s[i] = Char("/")}) \in Nat
    BY <2>1, FS_Subset, FS_CardinalityType
  <2> QED
    BY <2>2 DEF Width
<1>8. Len(UriComponent(s)) \in Nat
  <2> DEFINE u == UriComponent(s)
             w == Width(s, Len(s))
  <2>1. DOMAIN u = 1 .. w /\ u = [k \in 1 .. w |-> u[k]]
    BY Zenon DEF UriComponent
  <2> HIDE DEF u, w
  <2> QED
    BY <1>7, <2>1, FunctionIsSequence DEF u, w
<1> QED
  BY <1>1, <1>3, <1>6, <1>8

LEMMA PatternLengths ==
    ASSUME NEW secrets, \A s \in secrets : Len(s) \in Nat
    PROVE  \A p \in Patterns(secrets) : Len(p) \in Nat \ {0}
<1> SUFFICES ASSUME NEW s \in secrets, NEW p \in EncodedVariants(s)
             PROVE  Len(p) \in Nat \ {0}
  BY DEF Patterns
<1>1. p \in {s, Base64(s), Base64Url(s), UriComponent(s)} /\ Len(p) >= MinLength
  BY DEF EncodedVariants
<1>2. Len(p) \in Nat
  BY <1>1, VariantLengths
<1> QED
  BY <1>1, <1>2, RedactionsAssumption

(* What Cut leaves. *)
LEMMA CutType ==
    ASSUME NEW N \in Nat, NEW s \in Seq(0 .. N), NEW j \in Nat \ {0}, NEW n \in Nat \ {0},
           j + n - 1 <= Len(s)
    PROVE  /\ Cut(s, j, n) \in Seq(0 .. N)
           /\ Len(Cut(s, j, n)) = Len(s) - n + 1
           /\ \A k \in 1 .. Len(s) - n + 1 :
                Cut(s, j, n)[k] = IF k < j THEN s[k] ELSE IF k = j THEN 0 ELSE s[k + n - 1]
<1> DEFINE m == Len(s) - n + 1
           c == Cut(s, j, n)
<1>1. Len(s) \in Nat /\ s \in [1 .. Len(s) -> 0 .. N]
  BY LenProperties
<1>2. m \in Nat
  BY <1>1
<1>3. c = [k \in 1 .. m |-> IF k < j THEN s[k] ELSE IF k = j THEN 0 ELSE s[k + n - 1]]
  BY DEF Cut
<1>4. ASSUME NEW k \in 1 .. m
      PROVE  (IF k < j THEN s[k] ELSE IF k = j THEN 0 ELSE s[k + n - 1]) \in 0 .. N
  BY <1>1
<1>5. c \in [1 .. m -> 0 .. N]
  <2> HIDE DEF m
  <2> QED
    BY <1>3, <1>4
<1>6. c \in Seq(0 .. N)
  BY <1>2, <1>5, SeqDef
<1> QED
  BY <1>2, <1>3, <1>5, <1>6, LenProperties

(* The m places of s from i on hold no [REDACTED], or what those of t from h on hold. *)
Unbroken(s, i, m) == \A k \in 1 .. m : s[i + k - 1] # 0
SameAt(s, i, t, h, m) == \A k \in 1 .. m : s[i + k - 1] = t[h + k - 1]

(* A stretch without [REDACTED] after a cut was one before it, on one side of what
   was cut out.                                                             *)
LEMMA CutWindow ==
    ASSUME NEW N \in Nat, NEW s \in Seq(0 .. N), NEW j \in Nat \ {0}, NEW n \in Nat \ {0},
           j + n - 1 <= Len(s),
           NEW i \in Nat \ {0}, NEW m \in Nat \ {0}, i + m - 1 <= Len(Cut(s, j, n)),
           Unbroken(Cut(s, j, n), i, m)
    PROVE  \/ i + m - 1 < j /\ SameAt(Cut(s, j, n), i, s, i, m)
           \/ i > j /\ SameAt(Cut(s, j, n), i, s, i + n - 1, m)
<1> DEFINE c == Cut(s, j, n)
<1>1. Len(s) \in Nat /\ Len(c) = Len(s) - n + 1
  BY CutType, LenProperties
<1>2. \A k \in 1 .. Len(s) - n + 1 :
         c[k] = IF k < j THEN s[k] ELSE IF k = j THEN 0 ELSE s[k + n - 1]
  BY CutType
<1>3. \A k \in 1 .. m : c[i + k - 1] # 0 /\ i + k - 1 \in 1 .. Len(s) - n + 1
  <2> TAKE k \in 1 .. m
  <2>1. c[i + k - 1] # 0
    BY DEF Unbroken
  <2> HIDE DEF c
  <2>2. i + m - 1 <= Len(c)
    BY DEF c
  <2> QED
    BY <1>1, <2>1, <2>2
<1> HIDE DEF c
<1>4. ~(i <= j /\ j <= i + m - 1)
  <2> SUFFICES ASSUME i <= j, j <= i + m - 1 PROVE FALSE
    OBVIOUS
  <2>1. j - i + 1 \in 1 .. m /\ i + (j - i + 1) - 1 = j
    OBVIOUS
  <2>2. c[j] # 0 /\ j \in 1 .. Len(s) - n + 1
    BY <2>1, <1>3
  <2> QED
    BY <2>2, <1>2
<1>5. CASE i + m - 1 < j
  <2>1. ASSUME NEW k \in 1 .. m PROVE c[i + k - 1] = s[i + k - 1]
    <3>1. i + k - 1 < j /\ i + k - 1 \in 1 .. Len(s) - n + 1
      BY <1>3, <1>5
    <3> QED
      BY <1>2, <3>1
  <2> QED
    BY <1>5, <2>1 DEF c, SameAt
<1>6. CASE i > j
  <2>1. ASSUME NEW k \in 1 .. m PROVE c[i + k - 1] = s[(i + n - 1) + k - 1]
    <3> DEFINE x == i + k - 1
    <3>1. x > j /\ x \in 1 .. Len(s) - n + 1 /\ x + n - 1 = (i + n - 1) + k - 1
      <4>1. x \in 1 .. Len(s) - n + 1
        BY <1>3
      <4>2. x > j /\ x + n - 1 = (i + n - 1) + k - 1
        BY <1>6
      <4> QED
        BY <4>1, <4>2
    <3> HIDE DEF x
    <3>2. c[x] = s[x + n - 1]
      BY <1>2, <3>1
    <3> QED
      BY <3>1, <3>2 DEF x
  <2> QED
    BY <1>6, <2>1 DEF c, SameAt
<1> QED
  BY <1>4, <1>5, <1>6

(* A pattern that occurs in what is left occurs in the text, where its symbols come
   from.                                                                    *)
LEMMA LeftOccurrence ==
    ASSUME RedactTypes, Contiguous,
           NEW p \in patterns, NEW j \in 1 .. Len(left), OccursAt(p, left, j)
    PROVE  /\ left[j] \in 1 .. Len(text)
           /\ \A k \in 1 .. Len(p) : left[j + k - 1] = left[j] + k - 1
           /\ <<p, left[j]>> \in Occurrences
<1> DEFINE n == Len(p)
           N == Len(text)
<1>1. n \in Nat \ {0} /\ N \in Nat /\ left \in Seq(0 .. N)
  BY DEF RedactTypes
<1>2. Len(left) \in Nat /\ \A k \in 1 .. Len(left) : left[k] \in 0 .. N
  BY <1>1, LenProperties
<1>3. /\ j + n - 1 <= Len(left)
      /\ \A k \in 1 .. n : left[j + k - 1] # 0 /\ text[left[j + k - 1]] = p[k]
  BY DEF OccursAt
<1> HIDE DEF n, N
<1>4. \A m \in j .. j + n - 1 : left[m] # 0 /\ m \in 1 .. Len(left)
  <2> TAKE m \in j .. j + n - 1
  <2> DEFINE k == m - j + 1
  <2>1. k \in 1 .. n /\ j + k - 1 = m
    BY <1>1
  <2>2. m \in 1 .. Len(left)
    BY <1>1, <1>2, <1>3
  <2> HIDE DEF k
  <2>3. left[j + k - 1] # 0
    BY <1>3, <2>1
  <2> QED
    BY <2>1, <2>2, <2>3
<1>5. \A k \in 1 .. n : left[j + k - 1] = left[j] + k - 1
  <2> TAKE k \in 1 .. n
  <2> DEFINE x == j + k - 1
  <2>1. x \in j .. j + n - 1 /\ j \in 1 .. Len(left) /\ x \in 1 .. Len(left) /\ j <= x
    BY <1>1, <1>2, <1>3
  <2>2. x - j = k - 1
    BY <1>1
  <2> HIDE DEF x
  <2>3. \A m \in j .. x : left[m] # 0
    BY <1>1, <1>4, <2>1
  <2>4. left[x] = left[j] + (x - j)
    BY <2>1, <2>3 DEF Contiguous
  <2>5. left[j] \in Int
    BY <1>2
  <2>6. left[x] = left[j] + k - 1
    BY <2>2, <2>4, <2>5
  <2> QED
    BY <2>6 DEF x
<1>6. left[j] \in 1 .. N
  BY <1>1, <1>2, <1>4
<1>7. left[j] + n - 1 <= N
  <2>1. n \in 1 .. n /\ j + n - 1 \in 1 .. Len(left)
    BY <1>1, <1>4
  <2>2. left[j + n - 1] = left[j] + n - 1 /\ left[j + n - 1] \in 0 .. N
    BY <1>2, <1>5, <2>1
  <2> QED
    BY <2>2
<1>8. OccursAt(p, Whole, left[j])
  <2>1. Len(Whole) = N /\ \A i \in 1 .. N : Whole[i] = i
    BY <1>1 DEF Whole, N
  <2>2. ASSUME NEW k \in 1 .. n
        PROVE  Whole[left[j] + k - 1] # 0 /\ text[Whole[left[j] + k - 1]] = p[k]
    <3>1. left[j] + k - 1 \in 1 .. N
      BY <1>1, <1>6, <1>7
    <3>2. Whole[left[j] + k - 1] = left[j + k - 1]
      BY <2>1, <3>1, <1>5
    <3> QED
      BY <1>3, <3>2
  <2> QED
    BY <1>7, <2>1, <2>2 DEF OccursAt, n
<1> QED
  BY <1>5, <1>6, <1>8 DEF Occurrences, n, N

(* An occurrence in what a replacement leaves was there before, on one side of what
   was replaced.                                                            *)
LEMMA CutOccurrence ==
    ASSUME RedactTypes, NEW j \in Nat \ {0}, NEW n \in Nat \ {0}, j + n - 1 <= Len(left),
           NEW p, Len(p) \in Nat \ {0}, NEW i \in Nat \ {0},
           OccursAt(p, Cut(left, j, n), i)
    PROVE  \/ i + Len(p) - 1 < j /\ OccursAt(p, left, i)
           \/ i > j /\ OccursAt(p, left, i + n - 1)
<1> DEFINE c == Cut(left, j, n)
           m == Len(p)
           N == Len(text)
<1>1. N \in Nat /\ left \in Seq(0 .. N) /\ m \in Nat \ {0}
  BY DEF RedactTypes
<1>2. Len(left) \in Nat /\ Len(c) = Len(left) - n + 1
  BY <1>1, CutType, LenProperties
<1>3. /\ i + m - 1 <= Len(c)
      /\ \A k \in 1 .. m : c[i + k - 1] # 0 /\ text[c[i + k - 1]] = p[k]
  BY DEF OccursAt
<1> HIDE DEF N, m
<1>4. \/ i + m - 1 < j /\ SameAt(c, i, left, i, m)
      \/ i > j /\ SameAt(c, i, left, i + n - 1, m)
  <2>1. Unbroken(c, i, m)
    BY <1>3 DEF Unbroken
  <2> QED
    BY <1>1, <1>3, <2>1, CutWindow
<1> HIDE DEF c
<1>5. CASE i + m - 1 < j /\ SameAt(c, i, left, i, m)
  <2>1. i + m - 1 <= Len(left)
    BY <1>1, <1>2, <1>3
  <2>2. \A k \in 1 .. m : left[i + k - 1] # 0 /\ text[left[i + k - 1]] = p[k]
    BY <1>3, <1>5 DEF SameAt
  <2> QED
    BY <1>5, <2>1, <2>2 DEF OccursAt, m
<1>6. CASE i > j /\ SameAt(c, i, left, i + n - 1, m)
  <2>1. (i + n - 1) + m - 1 <= Len(left)
    BY <1>1, <1>2, <1>3
  <2>2. \A k \in 1 .. m : left[(i + n - 1) + k - 1] # 0 /\ text[left[(i + n - 1) + k - 1]] = p[k]
    BY <1>3, <1>6 DEF SameAt
  <2> QED
    BY <1>6, <2>1, <2>2 DEF OccursAt, m
<1> QED
  BY <1>4, <1>5, <1>6

(* Where a match is. *)
LEMMA MatchPlace ==
    ASSUME RedactTypes, pattern # NoPattern, NEW j \in Matches
    PROVE  /\ j \in Nat \ {0} /\ j \in 1 .. Len(left) /\ j >= lastIndex
           /\ Len(pattern) \in Nat \ {0} /\ j + Len(pattern) - 1 <= Len(left)
           /\ OccursAt(pattern, left, j) /\ pattern \in patterns
  BY LenProperties DEF RedactTypes, Matches, OccursAt

LEMMA LeftType ==
    ASSUME RedactTypes
    PROVE  /\ Len(text) \in Nat /\ Len(left) \in Nat /\ left \in Seq(0 .. Len(text))
           /\ \A k \in 1 .. Len(left) : left[k] \in 0 .. Len(text)
  BY LenProperties DEF RedactTypes

(* What is cut out goes and nothing else, for no position is left twice. *)
SymbolsOf(s) == {s[k] : k \in 1 .. Len(s)} \ {0}

LEMMA CutLeaves ==
    ASSUME RedactTypes, InOrder, NEW j \in Nat \ {0}, NEW n \in Nat \ {0}, j + n - 1 <= Len(left)
    PROVE  /\ SymbolsOf(Cut(left, j, n)) \subseteq Left
           /\ \A x \in Left \ SymbolsOf(Cut(left, j, n)) : \E k \in j .. j + n - 1 : left[k] = x
           /\ \A k \in j .. j + n - 1 : left[k] \notin SymbolsOf(Cut(left, j, n))
<1> DEFINE c == Cut(left, j, n)
           L == Len(left)
<1>1. L \in Nat /\ left \in Seq(0 .. Len(text)) /\ Len(text) \in Nat
  BY LeftType
<1>2. /\ Len(c) = L - n + 1
      /\ \A k \in 1 .. L - n + 1 : c[k] = IF k < j THEN left[k] ELSE IF k = j THEN 0 ELSE left[k + n - 1]
  BY <1>1, CutType
<1> HIDE DEF c
<1>3. ASSUME NEW x \in SymbolsOf(c)
      PROVE  \E i \in 1 .. L : (i < j \/ i > j + n - 1) /\ left[i] = x /\ x # 0
  <2>1. PICK k \in 1 .. L - n + 1 : c[k] = x /\ x # 0
    BY <1>2 DEF SymbolsOf
  <2>2. CASE k < j
    <3>1. k \in 1 .. L /\ c[k] = left[k]
      BY <1>1, <1>2, <2>2
    <3> QED
      BY <2>1, <2>2, <3>1
  <2>3. CASE k > j
    <3>1. k + n - 1 \in 1 .. L /\ k + n - 1 > j + n - 1 /\ left[k + n - 1] = x
      BY <1>1, <1>2, <2>1, <2>3
    <3> QED
      BY <2>1, <3>1
  <2> QED
    BY <1>2, <2>1, <2>2, <2>3
<1>4. SymbolsOf(c) \subseteq Left
  BY <1>3 DEF Left
<1>5. ASSUME NEW x \in Left, x \notin SymbolsOf(c)
      PROVE  \E k \in j .. j + n - 1 : left[k] = x
  <2>1. PICK k \in 1 .. L : left[k] = x /\ x # 0
    BY DEF Left
  <2>2. CASE k < j
    <3>1. k \in 1 .. L - n + 1 /\ c[k] = x
      BY <1>1, <1>2, <2>1, <2>2
    <3> QED
      BY <1>2, <1>5, <2>1, <3>1 DEF SymbolsOf
  <2>3. CASE k > j + n - 1
    <3> DEFINE h == k - n + 1
    <3>1. h \in 1 .. L - n + 1 /\ h > j /\ h + n - 1 = k
      BY <1>1, <2>3
    <3> HIDE DEF h
    <3>2. c[h] = x
      BY <1>2, <2>1, <3>1
    <3> QED
      BY <1>2, <1>5, <2>1, <3>1, <3>2 DEF SymbolsOf
  <2> QED
    BY <1>1, <2>1, <2>2, <2>3
<1>6. ASSUME NEW k \in j .. j + n - 1, left[k] \in SymbolsOf(c)
      PROVE  FALSE
  <2>1. PICK i \in 1 .. L : (i < j \/ i > j + n - 1) /\ left[i] = left[k] /\ left[k] # 0
    BY <1>3, <1>6
  <2>2. k \in 1 .. L
    BY <1>1
  <2>3. left[i] \in Nat /\ left[k] \in Nat
    BY <2>2, LeftType
  <2>4. (i < k => left[i] < left[k]) /\ (k < i => left[k] < left[i])
    BY <2>1, <2>2 DEF InOrder
  <2> QED
    BY <2>1, <2>3, <2>4
<1> QED
  BY <1>4, <1>5, <1>6 DEF c

(* The texts and the patterns stay, so the occurrences do. *)
LEMMA SameOccurrences ==
    ASSUME UNCHANGED <<text, patterns>>
    PROVE  /\ Occurrences' = Occurrences
           /\ \A o : Largest(o)' <=> Largest(o)
<1>1. Occurrences' = Occurrences
  BY DEF Occurrences, OccursAt, Whole
<1> QED
  BY <1>1 DEF Largest, Covered

ReplaceAt(j) ==
    /\ pattern # NoPattern /\ j \in Matches
    /\ \A k \in Matches : j <= k
    /\ left' = Cut(left, j, Len(pattern)) /\ lastIndex' = j + 1
    /\ UNCHANGED <<text, patterns, todo, pattern>>

(* What is left then: the places before the match stay, those behind move up. *)
LEMMA ReplacedShape ==
    ASSUME RedactTypes, NEW j, ReplaceAt(j)
    PROVE  /\ Len(left') = Len(left) - Len(pattern) + 1
           /\ \A k \in 1 .. Len(left) - Len(pattern) + 1 :
                left'[k] = IF k < j THEN left[k]
                           ELSE IF k = j THEN 0 ELSE left[k + Len(pattern) - 1]
<1>1. /\ j \in Nat \ {0} /\ Len(pattern) \in Nat \ {0} /\ j + Len(pattern) - 1 <= Len(left)
      /\ Len(text) \in Nat /\ left \in Seq(0 .. Len(text))
  BY MatchPlace, LeftType DEF ReplaceAt
<1>2. left' = Cut(left, j, Len(pattern))
  BY DEF ReplaceAt
<1> DEFINE n == Len(pattern)
           c == Cut(left, j, n)
<1>3. /\ Len(c) = Len(left) - n + 1
      /\ \A k \in 1 .. Len(left) - n + 1 :
           c[k] = IF k < j THEN left[k] ELSE IF k = j THEN 0 ELSE left[k + n - 1]
  <2> HIDE DEF n
  <2> QED
    BY <1>1, CutType DEF n
<1> QED
  BY <1>2, <1>3

LEMMA ReplaceTypes ==
    ASSUME RedactInv, NEW j, ReplaceAt(j)
    PROVE  RedactTypes'
<1>1. /\ j \in Nat \ {0} /\ Len(pattern) \in Nat \ {0} /\ j + Len(pattern) - 1 <= Len(left)
      /\ Len(text) \in Nat /\ left \in Seq(0 .. Len(text))
  BY MatchPlace, LeftType DEF RedactInv, ReplaceAt
<1>2. left' \in Seq(0 .. Len(text))
  BY <1>1, CutType DEF ReplaceAt
<1> QED
  BY <1>1, <1>2 DEF RedactInv, RedactTypes, ReplaceAt

LEMMA ReplaceInOrder ==
    ASSUME RedactInv, NEW j, ReplaceAt(j)
    PROVE  InOrder' /\ Contiguous'
<1> DEFINE n == Len(pattern)
           L == Len(left)
<1>1. /\ L \in Nat /\ j \in Nat \ {0} /\ n \in Nat \ {0} /\ j + n - 1 <= L
      /\ Len(text) \in Nat /\ left \in Seq(0 .. Len(text))
  BY MatchPlace, LeftType DEF RedactInv, ReplaceAt
<1>2. \A k \in 1 .. L : left[k] \in Nat
  BY LeftType DEF RedactInv
<1>3. /\ Len(left') = L - n + 1
      /\ \A k \in 1 .. L - n + 1 :
           left'[k] = IF k < j THEN left[k] ELSE IF k = j THEN 0 ELSE left[k + n - 1]
  BY ReplacedShape DEF RedactInv
<1> HIDE DEF n, L
<1>4. ASSUME NEW h \in 1 .. L - n + 1, NEW k \in 1 .. L - n + 1, h < k, left'[k] # 0
      PROVE  left'[h] < left'[k]
  <2>1. \A a, b \in 1 .. L : a < b /\ left[b] # 0 => left[a] < left[b]
    BY DEF RedactInv, InOrder, L
  <2>2. CASE k < j
    BY <1>1, <1>3, <1>4, <2>1, <2>2
  <2>3. CASE k > j
    <3>1. k + n - 1 \in 1 .. L /\ left'[k] = left[k + n - 1] /\ left[k + n - 1] # 0
      BY <1>1, <1>3, <1>4, <2>3
    <3>2. CASE h < j
      <4>1. h \in 1 .. L /\ h < k + n - 1 /\ left'[h] = left[h]
        BY <1>1, <1>3, <2>3, <3>2
      <4> QED
        BY <2>1, <3>1, <4>1
    <3>3. CASE h = j
      BY <1>1, <1>2, <1>3, <3>1, <3>3
    <3>4. CASE h > j
      <4>1. h + n - 1 \in 1 .. L /\ h + n - 1 < k + n - 1 /\ left'[h] = left[h + n - 1]
        BY <1>1, <1>3, <1>4, <3>4
      <4> QED
        BY <2>1, <3>1, <4>1
    <3> QED
      BY <1>1, <3>2, <3>3, <3>4
  <2> QED
    BY <1>1, <1>3, <1>4, <2>2, <2>3
<1>5. ASSUME NEW h \in 1 .. L - n + 1, NEW k \in 1 .. L - n + 1, h <= k,
             \A m \in h .. k : left'[m] # 0
      PROVE  left'[k] = left'[h] + (k - h)
  <2>1. \A a, b \in 1 .. L : a <= b /\ (\A m \in a .. b : left[m] # 0) => left[b] = left[a] + (b - a)
    BY DEF RedactInv, Contiguous, L
  <2>2. ~(h <= j /\ j <= k)
    BY <1>1, <1>3, <1>5
  <2>3. CASE k < j
    <3>1. \A m \in h .. k : left[m] # 0 /\ left'[m] = left[m]
      BY <1>1, <1>3, <1>5, <2>3
    <3>2. h \in 1 .. L /\ k \in 1 .. L /\ left'[h] = left[h] /\ left'[k] = left[k]
      BY <1>1, <1>3, <1>5, <2>3
    <3> QED
      BY <1>5, <2>1, <3>1, <3>2
  <2>4. CASE h > j
    <3> DEFINE a == h + n - 1
               b == k + n - 1
    <3>1. a \in 1 .. L /\ b \in 1 .. L /\ a <= b /\ left'[h] = left[a] /\ left'[k] = left[b] /\ b - a = k - h
      BY <1>1, <1>3, <1>5, <2>4
    <3>2. ASSUME NEW m \in a .. b PROVE left[m] # 0
      <4> DEFINE i == m - n + 1
      <4>1. i \in h .. k /\ i \in 1 .. L - n + 1 /\ i > j /\ i + n - 1 = m
        BY <1>1, <2>4
      <4> HIDE DEF i
      <4>2. left'[i] = left[i + n - 1] /\ left'[i] # 0
        BY <1>1, <1>3, <1>5, <4>1
      <4> QED
        BY <4>1, <4>2
    <3> HIDE DEF a, b
    <3> QED
      BY <2>1, <3>1, <3>2
  <2> QED
    BY <1>1, <2>2, <2>3, <2>4
<1> QED
  BY <1>3, <1>4, <1>5 DEF InOrder, Contiguous

LEMMA ReplaceCovered ==
    ASSUME RedactInv, NEW j, ReplaceAt(j)
    PROVE  OnlyCoveredGone'
<1> DEFINE n == Len(pattern)
<1>1. /\ RedactTypes /\ InOrder /\ Contiguous /\ OnlyCoveredGone
      /\ j \in Nat \ {0} /\ n \in Nat \ {0} /\ j + n - 1 <= Len(left) /\ j \in 1 .. Len(left)
      /\ OccursAt(pattern, left, j) /\ pattern \in patterns
  BY MatchPlace DEF RedactInv, ReplaceAt
<1>2. Left' = SymbolsOf(Cut(left, j, n))
  BY DEF ReplaceAt, Left, SymbolsOf
<1>3. Occurrences' = Occurrences /\ text' = text
  BY SameOccurrences DEF ReplaceAt
<1>4. ASSUME NEW i \in 1 .. Len(text), i \notin Left'
      PROVE  \E o \in Occurrences : i \in Covered(o)
  <2>1. CASE i \notin Left
    BY <1>1, <2>1 DEF OnlyCoveredGone
  <2>2. CASE i \in Left
    <3>1. PICK k \in j .. j + n - 1 : left[k] = i
      BY <1>1, <1>2, <1>4, <2>2, CutLeaves
    <3>2. /\ left[j] \in 1 .. Len(text) /\ <<pattern, left[j]>> \in Occurrences
          /\ \A m \in 1 .. n : left[j + m - 1] = left[j] + m - 1
      BY <1>1, LeftOccurrence
    <3>3. k - j + 1 \in 1 .. n /\ j + (k - j + 1) - 1 = k
      BY <1>1
    <3>4. i = left[j] + (k - j + 1) - 1
      BY <3>1, <3>2, <3>3
    <3>5. left[j] \in Nat
      BY <3>2
    <3>6. i \in Covered(<<pattern, left[j]>>)
      BY <3>3, <3>4, <3>5 DEF Covered
    <3> QED
      BY <3>2, <3>6
  <2> QED
    BY <2>1, <2>2
<1> QED
  BY <1>3, <1>4 DEF OnlyCoveredGone, Covered

LEMMA ReplaceApplied ==
    ASSUME RedactInv, NEW j, ReplaceAt(j)
    PROVE  AppliedGone' /\ LongestFirst'
<1> DEFINE n == Len(pattern)
<1>1. /\ RedactTypes /\ AppliedGone /\ LongestFirst
      /\ j \in Nat \ {0} /\ n \in Nat \ {0} /\ j + n - 1 <= Len(left) /\ j >= lastIndex
      /\ Len(left) \in Nat /\ lastIndex \in Nat \ {0}
      /\ left' = Cut(left, j, n) /\ lastIndex' = j + 1
      /\ UNCHANGED <<text, patterns, todo, pattern>>
  BY MatchPlace, LeftType DEF RedactInv, ReplaceAt, RedactTypes
<1>2. Len(left') \in Nat
  BY ReplaceTypes, LenProperties DEF RedactTypes
<1>3. ASSUME NEW p \in patterns, NEW i \in 1 .. Len(left'),
             p \notin todo, p = pattern => i < lastIndex', OccursAt(p, left', i)
      PROVE  FALSE
  <2>1. Len(p) \in Nat \ {0} /\ i \in Nat \ {0}
    BY <1>1, <1>2 DEF RedactTypes
  <2>2. \/ i + Len(p) - 1 < j /\ OccursAt(p, left, i)
        \/ i > j /\ OccursAt(p, left, i + n - 1)
    <3> HIDE DEF n
    <3> QED
      BY <1>1, <1>3, <2>1, CutOccurrence
  <2>3. CASE i + Len(p) - 1 < j /\ OccursAt(p, left, i)
    <3>1. i \in 1 .. Len(left) /\ i < j
      BY <1>1, <2>1, <2>3
    <3>2. p = pattern /\ i >= lastIndex
      BY <1>1, <1>3, <2>1, <2>3, <3>1 DEF AppliedGone
    <3>3. i \in Matches
      BY <1>1, <2>1, <2>3, <3>1, <3>2 DEF Matches
    <3> QED
      BY <1>1, <2>1, <3>1, <3>3 DEF ReplaceAt
  <2>4. CASE i > j /\ OccursAt(p, left, i + n - 1)
    <3>1. p # pattern
      BY <1>1, <1>3, <2>1, <2>4
    <3>2. i + n - 1 \in 1 .. Len(left)
      <4>1. (i + n - 1) + Len(p) - 1 <= Len(left)
        BY <2>4 DEF OccursAt
      <4> QED
        BY <1>1, <2>1, <4>1
    <3> QED
      BY <1>1, <1>3, <2>4, <3>1, <3>2 DEF AppliedGone
  <2> QED
    BY <2>2, <2>3, <2>4
<1>4. \A p, i : OccursAt(p, left, i)' <=> OccursAt(p, left', i)
  BY <1>1 DEF OccursAt
<1> QED
  BY <1>1, <1>3, <1>4 DEF AppliedGone, LongestFirst

(* A pattern that is being replaced spares every largest occurrence whose turn has
   not come, and takes that whose turn it is as a whole.                    *)
LEMMA ReplaceLargest ==
    ASSUME RedactInv, NEW j, ReplaceAt(j)
    PROVE  LargestWhole'
<1> DEFINE n == Len(pattern)
           L == Len(left)
<1>1. /\ RedactTypes /\ InOrder /\ Contiguous /\ LargestWhole /\ LongestFirst
      /\ j \in Nat \ {0} /\ n \in Nat \ {0} /\ j + n - 1 <= L /\ j \in 1 .. L
      /\ OccursAt(pattern, left, j) /\ pattern \in patterns \ todo /\ pattern # NoPattern
  BY MatchPlace DEF RedactInv, ReplaceAt, RedactTypes
<1>2. L \in Nat /\ left \in Seq(0 .. Len(text)) /\ Len(text) \in Nat
  BY <1>1, LeftType
<1>3. /\ left' = Cut(left, j, n) /\ lastIndex' = j + 1
      /\ UNCHANGED <<text, patterns, todo, pattern>> /\ \A k \in Matches : j <= k
  BY DEF ReplaceAt
<1>4. Left' = SymbolsOf(Cut(left, j, n))
  BY DEF ReplaceAt, Left, SymbolsOf
<1>5. Left' \subseteq Left /\ \A k \in j .. j + n - 1 : left[k] \notin Left'
  BY <1>1, <1>4, CutLeaves
<1>6. /\ Len(left') = L - n + 1
      /\ \A k \in 1 .. L - n + 1 :
           left'[k] = IF k < j THEN left[k] ELSE IF k = j THEN 0 ELSE left[k + n - 1]
  BY <1>1, ReplacedShape
<1>7. /\ left[j] \in 1 .. Len(text) /\ <<pattern, left[j]>> \in Occurrences
      /\ \A m \in 1 .. n : left[j + m - 1] = left[j] + m - 1
  BY <1>1, LeftOccurrence
<1>8. ASSUME NEW o \in Occurrences, Largest(o) PROVE Covered(o) \cap Left' = {} \/ StillToCome(o)'
  <2> DEFINE q == o[1]
             b == o[2]
             m == Len(q)
  <2>1. o = <<q, b>> /\ q \in patterns /\ b \in 1 .. Len(text)
    BY DEF Occurrences
  <2>2. m \in Nat \ {0}
    BY <1>1, <2>1 DEF RedactTypes
  <2>3. CASE Covered(o) \cap Left = {}
    BY <1>5, <2>3
  <2>4. CASE StillToCome(o)
    <3>1. PICK i \in 1 .. L : (q = pattern => i >= lastIndex) /\ LeftAt(o, i)
      BY <2>4 DEF StillToCome
    <3>2. i + m - 1 <= L /\ \A k \in 1 .. m : left[i + k - 1] = b + k - 1
      BY <3>1 DEF LeftAt
    <3>3. q \in todo \/ q = pattern
      BY <2>4 DEF StillToCome
    <3> HIDE DEF n, L, q, b, m
    <3>4. left[i] = b
      <4>1. 1 \in 1 .. m /\ i + 1 - 1 = i /\ b + 1 - 1 = b
        BY <1>2, <2>1, <2>2
      <4> QED
        BY <3>2, <4>1
    \* What is replaced overlaps it only if the two are the same.
    <3>5. \/ q = pattern /\ i = j
          \/ i + m - 1 < j
          \/ i > j + n - 1
      <4> SUFFICES ASSUME ~(i + m - 1 < j), ~(i > j + n - 1), ~(q = pattern /\ i = j)
                   PROVE  FALSE
        OBVIOUS
      <4> DEFINE x == IF i < j THEN j ELSE i
      <4>1. /\ x - i + 1 \in 1 .. m /\ i + (x - i + 1) - 1 = x
            /\ x - j + 1 \in 1 .. n /\ j + (x - j + 1) - 1 = x
        BY <1>1, <1>2, <2>2
      <4>2. /\ left[x] = b + (x - i + 1) - 1
            /\ left[x] = left[j] + (x - j + 1) - 1
        BY <1>7, <3>2, <4>1
      <4>3. b \in Nat /\ left[j] \in Nat /\ x \in Nat
        BY <1>1, <1>2, <1>7, <2>1
      <4> HIDE DEF x
      <4>4. left[x] \in b .. b + m - 1 /\ left[x] \in left[j] .. left[j] + n - 1
        BY <1>1, <2>2, <4>1, <4>2, <4>3
      <4>5. left[x] \in Covered(o) \cap Covered(<<pattern, left[j]>>)
        BY <4>4 DEF Covered, q, b, m, n
      <4>6. <<pattern, left[j]>> # o
        <5> SUFFICES ASSUME <<pattern, left[j]>> = o PROVE FALSE
          OBVIOUS
        <5>1. q = pattern /\ b = left[j]
          BY DEF q, b
        <5>2. i = j
          BY <1>1, <1>2, <4>1, <4>2, <4>3, <5>1
        <5> QED
          BY <5>1, <5>2
      <4>7. n < m
        BY <1>7, <1>8, <4>5, <4>6 DEF Largest, n, m, q
      <4>8. m <= n
        BY <1>1, <1>2, <2>2, <3>3 DEF LongestFirst, m, n
      <4> QED
        BY <1>1, <2>2, <4>7, <4>8
    <3>6. CASE q = pattern /\ i = j
      <4>1. m = n
        BY <3>6 DEF m, n
      <4>2. ASSUME NEW x \in Covered(o) PROVE x \notin Left'
        <5>1. x \in b .. b + m - 1
          BY <4>2 DEF Covered, q, b, m
        <5>2. x - b + 1 \in 1 .. m /\ b + (x - b + 1) - 1 = x
          BY <2>1, <2>2, <5>1
        <5>3. left[i + (x - b + 1) - 1] = x
          BY <3>2, <5>2
        <5>4. i + (x - b + 1) - 1 \in j .. j + n - 1
          BY <1>1, <1>2, <2>1, <2>2, <3>6, <4>1, <5>1
        <5> QED
          BY <1>5, <5>3, <5>4
      <4> QED
        BY <4>2
    <3>7. CASE i + m - 1 < j
      <4>1. q # pattern
        <5> SUFFICES ASSUME q = pattern PROVE FALSE
          OBVIOUS
        <5>1. OccursAt(pattern, left, i)
          <6>1. \A k \in 1 .. m : left[i + k - 1] # 0 /\ text[left[i + k - 1]] = q[k]
            <7> TAKE k \in 1 .. m
            <7>1. left[i + k - 1] = b + k - 1 /\ b + k - 1 \in 1 .. Len(text)
              <8>1. b + m - 1 <= Len(text)
                BY <1>2 DEF Occurrences, OccursAt, Whole, b, m, q
              <8> QED
                BY <1>2, <2>1, <2>2, <3>2, <8>1
            <7>2. text[Whole[b + k - 1]] = q[k]
              BY <2>1 DEF Occurrences, OccursAt, b, m, q
            <7> QED
              BY <1>2, <7>1, <7>2 DEF Whole
          <6> QED
            BY <3>2, <6>1 DEF OccursAt, m, L
        <5>2. i \in Matches
          BY <1>1, <1>2, <3>1, <5>1 DEF Matches, RedactTypes, L
        <5> QED
          BY <1>1, <1>2, <1>3, <2>2, <3>7, <5>2
      <4>2. i \in 1 .. Len(left') /\ i + m - 1 <= Len(left')
        BY <1>1, <1>2, <1>6, <2>2, <3>7
      <4>3. ASSUME NEW k \in 1 .. m PROVE left'[i + k - 1] = b + k - 1
        <5>1. i + k - 1 \in 1 .. L - n + 1 /\ i + k - 1 < j
          BY <1>1, <1>2, <2>2, <3>7
        <5> QED
          BY <1>6, <3>2, <5>1
      <4> QED
        BY <1>3, <3>3, <4>1, <4>2, <4>3 DEF StillToCome, LeftAt, q, b, m
    <3>8. CASE i > j + n - 1
      <4>0. PICK h \in Int : h = i - n + 1
        BY <1>1
      <4>1. h \in 1 .. L - n + 1 /\ h + m - 1 <= L - n + 1 /\ h > j /\ h \in Nat
        BY <1>1, <1>2, <2>2, <3>2, <3>8, <4>0
      <4>2. ASSUME NEW k \in 1 .. m PROVE left'[h + k - 1] = b + k - 1
        <5> DEFINE y == h + k - 1
        <5>1. y \in 1 .. L - n + 1 /\ y > j /\ y + n - 1 = i + k - 1
          BY <1>1, <1>2, <2>2, <3>2, <3>8, <4>0, <4>1
        <5> HIDE DEF y
        <5>2. left'[y] = left[y + n - 1]
          BY <1>1, <1>6, <5>1
        <5> QED
          BY <3>2, <5>1, <5>2 DEF y
      <4>3. h \in 1 .. Len(left') /\ LeftAt(o, h)' /\ h >= lastIndex'
        BY <1>1, <1>3, <1>6, <4>1, <4>2 DEF LeftAt, q, b, m
      <4> QED
        BY <1>3, <3>3, <4>3 DEF StillToCome, q
    <3> QED
      BY <3>5, <3>6, <3>7, <3>8
  <2> QED
    BY <1>1, <1>8, <2>3, <2>4 DEF LargestWhole
<1> QED
  BY <1>3, <1>8, SameOccurrences DEF LargestWhole, Covered

LEMMA RedactInitInv == RedactInit => RedactInv
<1> SUFFICES ASSUME NEW r \in Redactions, RedactStart(r[1], r[2]) PROVE RedactInv
  BY DEF RedactInit
<1> DEFINE N == Len(text)
<1>1. /\ N \in Nat /\ \A p \in patterns : Len(p) \in Nat \ {0}
      /\ todo = patterns /\ left = [i \in 1 .. N |-> i] /\ pattern = NoPattern /\ lastIndex = 1
  BY RedactionsAssumption, PatternLengths DEF RedactStart, Whole
<1>2. NoPattern \notin patterns
  BY <1>1 DEF NoPattern
<1> HIDE DEF N
<1>3. left \in [1 .. N -> 0 .. N]
  BY <1>1
<1>4. left \in Seq(0 .. N) /\ Len(left) = N /\ \A i \in 1 .. N : left[i] = i
  BY <1>1, <1>3, SeqDef, LenProperties
<1>5. RedactTypes
  BY <1>1, <1>4 DEF RedactTypes, N
<1>6. InOrder /\ Contiguous
  BY <1>1, <1>4 DEF InOrder, Contiguous
<1>7. OnlyCoveredGone
  BY <1>1, <1>4 DEF OnlyCoveredGone, Left, N
<1>8. AppliedGone /\ LongestFirst
  BY <1>1 DEF AppliedGone, LongestFirst
<1>9. ASSUME NEW o \in Occurrences PROVE StillToCome(o)
  <2>1. o[1] \in patterns /\ o[2] \in 1 .. N /\ o[2] + Len(o[1]) - 1 <= N
    BY <1>1, <1>4 DEF Occurrences, OccursAt, Whole, N
  <2>2. \A k \in 1 .. Len(o[1]) : left[o[2] + k - 1] = o[2] + k - 1
    BY <1>1, <1>4, <2>1
  <2>3. LeftAt(o, o[2]) /\ o[2] \in 1 .. Len(left) /\ o[2] >= lastIndex
    BY <1>1, <1>4, <2>1, <2>2 DEF LeftAt
  <2> QED
    BY <1>1, <2>1, <2>3 DEF StillToCome
<1> QED
  BY <1>5, <1>6, <1>7, <1>8, <1>9 DEF RedactInv, LargestWhole

LEMMA NextPatternInv == RedactInv /\ NextPattern => RedactInv'
<1> SUFFICES ASSUME RedactInv, NextPattern PROVE RedactInv'
  OBVIOUS
<1>1. /\ RedactTypes /\ InOrder /\ Contiguous /\ OnlyCoveredGone
      /\ AppliedGone /\ LargestWhole
      /\ pattern = NoPattern /\ pattern' \in todo /\ todo' = todo \ {pattern'}
      /\ \A q \in todo : Len(q) <= Len(pattern')
      /\ lastIndex' = 1 /\ UNCHANGED <<text, patterns, left>>
  BY DEF RedactInv, NextPattern, NextPatterns
<1>2. Left' = Left /\ Occurrences' = Occurrences /\ (\A o : Largest(o)' <=> Largest(o))
  BY <1>1, SameOccurrences DEF Left
<1>3. RedactTypes' /\ LongestFirst'
  BY <1>1 DEF RedactTypes, LongestFirst
<1>4. InOrder' /\ Contiguous' /\ OnlyCoveredGone'
  BY <1>1, <1>2 DEF InOrder, Contiguous, OnlyCoveredGone, Covered
<1>5. AppliedGone'
  <2>1. NoPattern \notin patterns
    BY <1>1 DEF RedactTypes, NoPattern
  <2>2. \A p, i : OccursAt(p, left, i)' <=> OccursAt(p, left, i)
    BY <1>1 DEF OccursAt
  <2>3. ASSUME NEW p \in patterns, NEW j \in 1 .. Len(left),
               p \notin todo', p = pattern' => j < 1
        PROVE  ~OccursAt(p, left, j)
    BY <1>1, <2>1, <2>3 DEF AppliedGone
  <2> QED
    BY <1>1, <2>2, <2>3 DEF AppliedGone
<1>6. ASSUME NEW o \in Occurrences, StillToCome(o) PROVE StillToCome(o)'
  <2>1. o[1] \in todo
    BY <1>1, <1>6 DEF StillToCome, Occurrences, RedactTypes, NoPattern
  <2>2. PICK j \in 1 .. Len(left) : LeftAt(o, j)
    BY <1>6 DEF StillToCome
  <2>3. LeftAt(o, j)'
    BY <1>1, <2>2 DEF LeftAt
  <2> QED
    BY <1>1, <2>1, <2>3 DEF StillToCome
<1>7. LargestWhole'
  BY <1>1, <1>2, <1>6 DEF LargestWhole, Covered
<1> QED
  BY <1>3, <1>4, <1>5, <1>7 DEF RedactInv

LEMMA PatternDoneInv == RedactInv /\ PatternDone => RedactInv'
<1> SUFFICES ASSUME RedactInv, PatternDone PROVE RedactInv'
  OBVIOUS
<1>1. /\ RedactTypes /\ InOrder /\ Contiguous /\ OnlyCoveredGone
      /\ AppliedGone /\ LargestWhole
      /\ pattern # NoPattern /\ pattern' = NoPattern /\ Matches = {}
      /\ lastIndex' = 1 /\ UNCHANGED <<text, patterns, todo, left>>
  BY DEF RedactInv, PatternDone
<1>2. Left' = Left /\ Occurrences' = Occurrences /\ (\A o : Largest(o)' <=> Largest(o))
  BY <1>1, SameOccurrences DEF Left
<1>3. RedactTypes' /\ LongestFirst'
  BY <1>1 DEF RedactTypes, LongestFirst
<1>4. InOrder' /\ Contiguous' /\ OnlyCoveredGone'
  BY <1>1, <1>2 DEF InOrder, Contiguous, OnlyCoveredGone, Covered
<1>5. \A j \in 1 .. Len(left) : j >= lastIndex => ~OccursAt(pattern, left, j)
  BY <1>1, LeftType DEF Matches, RedactTypes
<1>6. AppliedGone'
  <2>1. \A p, i : OccursAt(p, left, i)' <=> OccursAt(p, left, i)
    BY <1>1 DEF OccursAt
  <2>2. ASSUME NEW p \in patterns, NEW j \in 1 .. Len(left), p \notin todo
        PROVE  ~OccursAt(p, left, j)
    <3>1. j < lastIndex \/ j >= lastIndex
      BY <1>1, LeftType DEF RedactTypes
    <3> QED
      BY <1>1, <1>5, <2>2, <3>1 DEF AppliedGone
  <2> QED
    BY <1>1, <2>1, <2>2 DEF AppliedGone
<1>7. ASSUME NEW o \in Occurrences, StillToCome(o) PROVE StillToCome(o)'
  <2> DEFINE q == o[1]
             b == o[2]
  <2>1. PICK j \in 1 .. Len(left) : (q = pattern => j >= lastIndex) /\ LeftAt(o, j)
    BY <1>7 DEF StillToCome
  <2>2. q \in patterns /\ b \in 1 .. Len(text)
        /\ b + Len(q) - 1 <= Len(text) /\ \A k \in 1 .. Len(q) : text[Whole[b + k - 1]] = q[k]
    BY <1>1, LeftType DEF Occurrences, OccursAt, Whole
  <2>3. Len(q) \in Nat \ {0} /\ Len(text) \in Nat /\ q # NoPattern
    BY <1>1, <2>2 DEF RedactTypes, NoPattern
  <2> HIDE DEF q, b
  <2>4. OccursAt(q, left, j)
    <3>1. ASSUME NEW k \in 1 .. Len(q)
          PROVE  left[j + k - 1] # 0 /\ text[left[j + k - 1]] = q[k]
      <4>1. left[j + k - 1] = b + k - 1
        BY <2>1 DEF LeftAt, q, b
      <4>2. b + k - 1 \in 1 .. Len(text)
        BY <2>2, <2>3
      <4>3. Whole[b + k - 1] = b + k - 1
        BY <4>2 DEF Whole
      <4> QED
        BY <2>2, <4>1, <4>2, <4>3
    <3> QED
      BY <2>1, <3>1 DEF OccursAt, LeftAt, q
  <2>5. q # pattern
    BY <1>5, <2>1, <2>4
  <2>6. q \in todo
    BY <1>7, <2>5 DEF StillToCome, q
  <2>7. LeftAt(o, j)'
    BY <1>1, <2>1 DEF LeftAt
  <2> QED
    BY <1>1, <2>3, <2>6, <2>7 DEF StillToCome, q
<1>8. LargestWhole'
  BY <1>1, <1>2, <1>7 DEF LargestWhole, Covered
<1> QED
  BY <1>3, <1>4, <1>6, <1>8 DEF RedactInv

LEMMA RedactNextInv == RedactInv /\ [Redact]_redactVars => RedactInv'
<1> SUFFICES ASSUME RedactInv, [Redact]_redactVars PROVE RedactInv'
  OBVIOUS
<1>1. CASE ReplaceMatch
  <2>1. PICK j : ReplaceAt(j)
    BY <1>1 DEF ReplaceMatch, ReplaceAt
  <2> QED
    BY <2>1, ReplaceTypes, ReplaceInOrder, ReplaceCovered, ReplaceApplied, ReplaceLargest
    DEF RedactInv
<1>2. CASE UNCHANGED redactVars
  <2>1. /\ UNCHANGED <<text, patterns, todo, pattern, lastIndex, left>>
        /\ Left' = Left /\ Occurrences' = Occurrences /\ (\A o : Largest(o)' <=> Largest(o))
    BY <1>2, SameOccurrences DEF redactVars, Left
  <2>2. RedactTypes' /\ LongestFirst' /\ InOrder' /\ Contiguous' /\ OnlyCoveredGone'
    BY <2>1 DEF RedactInv, RedactTypes, LongestFirst, InOrder, Contiguous, OnlyCoveredGone, Covered
  <2>3. AppliedGone'
    <3>1. \A p, i : OccursAt(p, left, i)' <=> OccursAt(p, left, i)
      BY <2>1 DEF OccursAt
    <3> QED
      BY <2>1, <3>1 DEF RedactInv, AppliedGone
  <2>4. \A o : StillToCome(o)' <=> StillToCome(o)
    BY <2>1 DEF StillToCome, LeftAt
  <2>5. LargestWhole'
    BY <2>1, <2>4 DEF RedactInv, LargestWhole, Covered
  <2> QED
    BY <2>2, <2>3, <2>5 DEF RedactInv
<1> QED
  BY <1>1, <1>2, NextPatternInv, PatternDoneInv DEF Redact

LEMMA AlwaysRedactInv == RedactSpec => []RedactInv
  BY RedactInitInv, RedactNextInv, PTL DEF RedactSpec

LEMMA RedactedNoSecret == RedactInv => NoSecretLeft
<1> SUFFICES ASSUME RedactInv, Redacted PROVE NoSecretLeft
  BY DEF NoSecretLeft
<1>1. \A p \in patterns : p # pattern /\ p \notin todo
  BY DEF RedactInv, RedactTypes, Redacted, NoPattern
<1> QED
  BY <1>1 DEF RedactInv, AppliedGone, OnlyCoveredGone, InOrder, NoSecretLeft

LEMMA RedactedLargest == RedactInv => LargestMatchGone
<1> SUFFICES ASSUME RedactInv, Redacted, NEW o \in Occurrences, Largest(o)
             PROVE  Covered(o) \cap Left = {}
  BY DEF LargestMatchGone
<1>1. o[1] \in patterns
  BY DEF Occurrences
<1>2. o[1] # pattern /\ o[1] \notin todo
  BY <1>1 DEF RedactInv, RedactTypes, Redacted, NoPattern
<1> QED
  BY <1>2 DEF RedactInv, LargestWhole, StillToCome

(* For any secrets, text and least length: when redact() returns, no secret and no
   encoding of one is left, and nothing but occurrences of them was taken out.  *)
THEOREM NoSecretLeaves == RedactSpec => []NoSecretLeft
  BY AlwaysRedactInv, RedactedNoSecret, PTL

(* Longest first does what its comment says: an occurrence that overlaps shorter ones
   only never leaves an end of it in the text.                              *)
THEOREM LargestGoes == RedactSpec => []LargestMatchGone
  BY AlwaysRedactInv, RedactedLargest, PTL

(* What the current pattern has still to look at. *)
Remaining == Len(left) + 1 - lastIndex

RemainingInv == pattern # NoPattern => lastIndex <= Len(left) + 1

(* Nothing that was replaced is looked at again: a step takes a pattern from those to
   come, leaves less to look at for the current one, or is done with it.    *)
MovesOn ==
    \/ todo' \subseteq todo /\ todo' # todo
    \/ todo' = todo /\ pattern' = pattern /\ Remaining' \in Nat /\ Remaining' < Remaining
    \/ todo' = todo /\ pattern # NoPattern /\ pattern' = NoPattern

LEMMA RedactMovesOn ==
    ASSUME RedactInv, RemainingInv, Redact
    PROVE  RemainingInv' /\ MovesOn
<1>0. /\ Len(text) \in Nat /\ Len(left) \in Nat /\ lastIndex \in Nat \ {0}
      /\ left \in Seq(0 .. Len(text))
  BY LeftType DEF RedactInv, RedactTypes
<1>1. CASE NextPattern
  BY <1>0, <1>1 DEF NextPattern, NextPatterns, RemainingInv, MovesOn
<1>2. CASE ReplaceMatch
  <2>1. PICK j \in Matches : ReplaceAt(j)
    BY <1>2 DEF ReplaceMatch, ReplaceAt
  <2>2. /\ j \in lastIndex .. Len(left) /\ lastIndex' = j + 1
        /\ UNCHANGED <<todo, pattern>> /\ pattern # NoPattern
    BY <2>1 DEF Matches, ReplaceAt
  <2>3. /\ Len(pattern) \in Nat \ {0} /\ j + Len(pattern) - 1 <= Len(left)
        /\ Len(left') = Len(left) - Len(pattern) + 1
    BY <2>1, MatchPlace, ReplacedShape DEF RedactInv, ReplaceAt
  <2> QED
    BY <1>0, <2>2, <2>3 DEF RemainingInv, Remaining, MovesOn
<1>3. CASE PatternDone
  BY <1>3 DEF PatternDone, RemainingInv, MovesOn
<1> QED
  BY <1>1, <1>2, <1>3 DEF Redact

(* With finitely many patterns redact() cannot loop: its measure, the patterns to come
   and then what the current one has left to look at, goes down with every step, although
   the text changes under the loop.                                         *)
THEOREM RedactEnds == RedactSpec => [][MovesOn]_redactVars
<1>1. RedactInit => RemainingInv
  BY DEF RedactInit, RedactStart, RemainingInv
<1>2. RedactInv /\ RemainingInv /\ [Redact]_redactVars => RemainingInv' /\ [MovesOn]_redactVars
  BY RedactMovesOn DEF redactVars, RemainingInv
<1> QED
  BY <1>1, <1>2, AlwaysRedactInv, PTL DEF RedactSpec

-----------------------------------------------------------------------------
(* Errors *)

(* What the filter answers is safe to show, whatever was thrown. *)
LEMMA CatchSafe ==
    ASSUME NEW e \in Exceptions
    PROVE  /\ Catch(e).from = "filter" /\ Catch(e).message \notin Internal
           /\ Catch(e).code \in DomainErrorCode => Catch(e).status = HttpStatus[Catch(e).code]
<1>1. CASE e.kind = "domain"
  <2>1. e.code \in DomainErrorCode /\ e.message \in Safe
    BY <1>1 DEF Exceptions, DomainError, InvalidPayload, InvalidStateTransition,
                HttpException, Other, DomainErrorCode, HttpStatus
  <2> QED
    BY <1>1, <2>1, MessagesAssumption DEF Catch, Reply
<1>2. CASE e.kind = "http"
  <2>1. e.message \in Safe
    BY <1>2 DEF Exceptions, DomainError, InvalidPayload, InvalidStateTransition,
                HttpException, Other
  <2>2. "HTTP" \notin DomainErrorCode
    BY DEF DomainErrorCode, HttpStatus
  <2> QED
    BY <1>2, <2>1, <2>2, MessagesAssumption DEF Catch, Reply
<1>3. CASE e.kind \notin {"domain", "http"}
  <2>1. HttpStatus["INTERNAL"] = 500
    BY DEF HttpStatus
  <2> QED
    BY <1>3, <2>1, MessagesAssumption DEF Catch, Reply
<1> QED
  BY <1>1, <1>2, <1>3

(* Every answer the page can get is one of the four, and a reply of the filter comes
   from an exception: RepliesSafe alone does not say so.                    *)
AnswerInv ==
    /\ sent \in {NoRequest, Pending, NoResponse, Foreign, LoggedIn}
               \cup {Catch(e) : e \in Exceptions}
    /\ DOMAIN page = {"error", "loading", "signedIn"}
    /\ page = [f \in {"error", "loading", "signedIn"} |-> page[f]]
    /\ page.loading \in BOOLEAN
    /\ page.loading => ~page.signedIn /\ page.error = NoMessage
    /\ RepliesSafe

LEMMA InitAnswerInv == ErrorInit => AnswerInv
  BY MessagesAssumption DEF ErrorInit, AnswerInv, RepliesSafe, NoRequest

LEMMA NextAnswerInv == AnswerInv /\ [ErrorNext]_errorVars => AnswerInv'
<1> SUFFICES ASSUME AnswerInv, [ErrorNext]_errorVars PROVE AnswerInv'
  OBVIOUS
<1>1. CASE Submit
  BY <1>1, MessagesAssumption DEF Submit, AnswerInv, RepliesSafe, Pending, NoRequest
<1>2. CASE Answer
  <2>1. CASE sent' \in {NoResponse, Foreign, LoggedIn}
    BY <1>2, <2>1 DEF Answer, AnswerInv, RepliesSafe, NoRequest, Pending, NoResponse,
                     Foreign, LoggedIn
  <2>2. ASSUME NEW e \in Exceptions, sent' = Catch(e) PROVE AnswerInv'
    <3>1. sent' # NoRequest
      BY <2>2, CatchSafe DEF NoRequest
    <3> QED
      BY <1>2, <2>2, <3>1, CatchSafe DEF Answer, AnswerInv, RepliesSafe, NoRequest, Pending
  <2> QED
    BY <1>2, <2>1, <2>2 DEF Answer
<1>3. CASE Settle
  <2>1. page.loading /\ ~page.signedIn /\ page.error = NoMessage
    BY <1>3 DEF Settle, AnswerInv, RepliesSafe
  <2>2. Shown \notin Internal
    BY MessagesAssumption DEF Shown, AnswerInv, RepliesSafe
  <2> QED
    BY <1>3, <2>1, <2>2, MessagesAssumption
    DEF Settle, AnswerInv, RepliesSafe, NoRequest
<1>4. CASE UNCHANGED errorVars
  BY <1>4 DEF AnswerInv, RepliesSafe, errorVars
<1> QED
  BY <1>1, <1>2, <1>3, <1>4 DEF ErrorNext

(* The text of an unknown error reaches neither a response nor the page, a domain
   error keeps the status of its code, and the page is never left loading nor shows
   an error beside a session.                                               *)
THEOREM NothingInternalShown == ErrorSpec => []RepliesSafe
<1>1. AnswerInv => RepliesSafe
  BY DEF AnswerInv
<1> QED
  BY <1>1, InitAnswerInv, NextAnswerInv, PTL DEF ErrorSpec

-----------------------------------------------------------------------------
(* Side by side *)

LEMMA InitParts == Init => CredInit /\ RedactInit /\ ErrorInit
<1>1. RedactStart({}, <<>>) => RedactInit
  <2> DEFINE r == <<{}, <<>>>>
  <2>1. r \in Redactions /\ r[1] = {} /\ r[2] = <<>>
    BY IdleAssumption
  <2> HIDE DEF r
  <2> QED
    BY <2>1 DEF RedactInit
<1>2. IdleCredentials => CredInit
  BY IdleAssumption DEF IdleCredentials, CredInit
<1> QED
  BY <1>1, <1>2 DEF Init

LEMMA NextParts ==
    [Next]_vars => [CredNext]_credVars /\ [Redact]_redactVars /\ [ErrorNext]_errorVars
  BY DEF Next, CredStep, RedactStep, ErrorStep, vars, credVars, redactVars, errorVars

(* Whatever the libraries do one by one they do beside each other: what is proved of
   each holds of the behaviours the run enumerates.                         *)
THEOREM SideBySide ==
    /\ Spec => CredSpec /\ RedactSpec /\ ErrorSpec
    /\ Spec => [](StoredReadable /\ OnlyWhatWasSealed /\ NoSecretLeft /\ LargestMatchGone
                 /\ RepliesSafe)
<1>1. Spec => CredSpec /\ RedactSpec /\ ErrorSpec
  BY InitParts, NextParts, PTL DEF Spec, CredSpec, RedactSpec, ErrorSpec
<1> QED
  BY <1>1, RotationKeepsReadable, NothingForged, NoSecretLeaves, LargestGoes,
     NothingInternalShown, PTL
=============================================================================
