SPECIFICATION FairSpec
CONSTANTS
    Nonce = {n1, n2}
    Version = {v1, v2}
    Setting = {brightness}
    Value = {a, b}
    ConfirmTtl = 1
    None = None
INVARIANTS ThreadsCanGoOn PowerSerialized LockLeavesNothingBehind
PROPERTIES Contract ThreadsComeBack
