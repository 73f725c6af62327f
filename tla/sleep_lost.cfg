SPECIFICATION Spec
CONSTANTS
    Command = {c1}
    MaxLines = 2
    None = None
PROPERTY StopLeavesNoSleep
