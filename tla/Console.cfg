SPECIFICATION Spec
CONSTANTS
    Keys = {"b", "e", "enter", "backspace"}
    Printing = {"b", "e"}
    Reported = {"e"}
    Back <- MCBack
    Fold <- MCFold
    PassMax = 2
    CmdMax = 2
    QueueMax = 2
    MaxBytes = 6
INVARIANTS
    TypeOK
    
    PasswordWasTyped
PROPERTIES
    BytesAreTaken
