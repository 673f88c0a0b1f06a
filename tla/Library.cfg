SPECIFICATION Spec
CONSTANTS
    Key = {"k1", "k2"}
    Version = {1, 2, 3}
    Nonce = {"n1", "n2"}
    Text = {"t1", "t2"}
    NoKey = "none"
    MinLength = 2
    Redactions <- MCRedactions
    IdleCipher <- MCIdleCipher
    Safe = {"safe1", "safe2"}
    Internal = {"internal"}
INVARIANTS
    StoredReadable
    OnlyWhatWasSealed
    NoSecretLeft
    LargestMatchGone
    RepliesSafe
CHECK_DEADLOCK FALSE
