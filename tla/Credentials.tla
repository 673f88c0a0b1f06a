----------------------------- MODULE Credentials ------------------------------
(***************************************************************************)
(* Encryption of credentials at rest (CredentialCipher): values are sealed *)
(* under the current key, keys are rotated, and what was stored is read    *)
(* back by whoever holds some keys.                                        *)
(*                                                                         *)
(* AES-256-GCM is taken as an ideal cipher: a ciphertext is the key, the   *)
(* nonce and the text it came from, its tag is bound to it, and opening it *)
(* with anything else throws.                                              *)
(***************************************************************************)
CONSTANTS
    Key,            \* master keys of 64 hex characters
    Version,        \* versions of keys
    Nonce,          \* the nonces that are drawn, each once
    Text,           \* what is encrypted
    NoKey           \* no key at all

ASSUME NoKeyAssumption == NoKey \notin Key

VARIABLES
    cipher,         \* the parameters the current cipher was constructed with
    stored          \* the encrypted values in the database

credVars == <<cipher, stored>>

-----------------------------------------------------------------------------
(* The cipher *)

(* What the constructor takes: parseKey throws for a key that is not well formed,
   among the previous ones too.                                             *)
Parameters ==
    [masterKey : Key, keyVersion : Version,
     previousKeys : UNION {[vs -> Key] : vs \in SUBSET Version}]

(* MUTANT: the previous keys are looked at first. *)
KeyForVersionPreviousFirst(c, v) ==
    IF v \in DOMAIN c.previousKeys THEN c.previousKeys[v]
    ELSE IF v = c.keyVersion THEN c.masterKey ELSE NoKey

(* The current key serves its version whatever the previous keys say of it. *)
KeyForVersion(c, v) ==
    IF v = c.keyVersion THEN c.masterKey
    ELSE IF v \in DOMAIN c.previousKeys THEN c.previousKeys[v] ELSE NoKey

(* Version, nonce and tag are stored with the ciphertext. *)
Encrypted(c, nonce, text) ==
    LET sealed == [key |-> c.masterKey, nonce |-> nonce, text |-> text]
    IN  [keyVersion |-> c.keyVersion, nonce |-> nonce, ciphertext |-> sealed,
         authTag |-> [whole |-> TRUE, of |-> sealed]]

Opened(t) == [ok |-> TRUE, text |-> t]
Failed(e) == [ok |-> FALSE, error |-> e]

(* MUTANT: the tag is not given to the decipher, and what update() returns is used
   without final().                                                         *)
DecryptUnverified(c, value) ==
    LET key == KeyForVersion(c, value.keyVersion)
    IN  IF key = NoKey THEN Failed("CONFIGURATION")
        ELSE IF ~value.authTag.whole THEN Failed("VALIDATION")
        ELSE IF value.ciphertext.key = key THEN Opened(value.ciphertext.text)
        ELSE Failed("Error")

(* The key, then the length of the tag, then GCM itself. *)
Decrypt(c, value) ==
    LET key == KeyForVersion(c, value.keyVersion)
        sealed == value.ciphertext
    IN  IF key = NoKey THEN Failed("CONFIGURATION")
        ELSE IF ~value.authTag.whole THEN Failed("VALIDATION")
        ELSE IF value.authTag.of = sealed /\ sealed.key = key /\ sealed.nonce = value.nonce
        THEN Opened(sealed.text)
        ELSE Failed("Error")

-----------------------------------------------------------------------------
(* Storing and rotating *)

CredInit ==
    /\ cipher \in Parameters
    /\ stored = {}

(* encrypt(): a nonce is drawn for every value. *)
Seal(nonce, text) ==
    /\ \A v \in stored : v.nonce # nonce
    /\ stored' = stored \cup {Encrypted(cipher, nonce, text)}
    /\ UNCHANGED cipher

(* A new cipher for a new key: the version is bumped (.env.example) and the key
   that is replaced is passed on among the previous ones.  A key once under a
   version stays there, and what was passed for the old version is overruled. *)
Rotate(key, version) ==
    /\ version \notin {cipher.keyVersion} \cup DOMAIN cipher.previousKeys
    /\ cipher' = [masterKey |-> key, keyVersion |-> version,
                  previousKeys |->
                      [v \in DOMAIN cipher.previousKeys \cup {cipher.keyVersion} |->
                           IF v = cipher.keyVersion THEN cipher.masterKey
                           ELSE cipher.previousKeys[v]]]
    /\ UNCHANGED stored

CredNext ==
    \/ \E nonce \in Nonce, text \in Text : Seal(nonce, text)
    \/ \E key \in Key, version \in Version : Rotate(key, version)

CredSpec == CredInit /\ [][CredNext]_credVars

-----------------------------------------------------------------------------
(* Correctness *)

(* Rotation loses nothing: whatever was sealed before, and however often the keys
   were rotated since, the current cipher opens it to the very text ("without
   losing the ability to decrypt old records", packages/credentials). *)
StoredReadable ==
    \A v \in stored : Decrypt(cipher, v) = Opened(v.ciphertext.text)

(* Values a reader can be given: what is stored, columns of different rows mixed,
   tags cut short.                                                          *)
Readable ==
    {[keyVersion |-> n, nonce |-> a.nonce, ciphertext |-> b.ciphertext,
      authTag |-> [whole |-> w, of |-> d.ciphertext]] :
        n \in Version, a \in stored, b \in stored, d \in stored, w \in BOOLEAN}

(* Nobody reads what was not written: whatever keys a reader holds and whatever
   columns it is given, a text comes out only of the nonce, ciphertext and tag of
   one stored value, it is that value's text, and the reader's key for the version
   given is the one it was sealed under.  Otherwise decrypt() throws.       *)
OnlyWhatWasSealed ==
    \A c \in Parameters, v \in Readable :
        Decrypt(c, v).ok =>
            \E u \in stored :
                /\ v.authTag = u.authTag /\ v.nonce = u.nonce
                /\ v.ciphertext = u.ciphertext
                /\ Decrypt(c, v) = Opened(u.ciphertext.text)
                /\ KeyForVersion(c, v.keyVersion) = u.ciphertext.key
=============================================================================
