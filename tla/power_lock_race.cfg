SPECIFICATION Spec
CONSTANTS
    Nonce = {n1}
    Version = {v1}
    Setting = {brightness}
    Value = {a}
    ConfirmTtl = 1
    None = None
INVARIANT NothingWhileLocked
