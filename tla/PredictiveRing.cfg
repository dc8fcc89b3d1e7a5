SPECIFICATION Spec
CONSTANTS
    RingSize = 4
    MaxGuesses = 9
INVARIANTS
    RecordsAreWhole
    AcceptedInOrder
    NoGuessLost
\* After MaxGuesses guesses and their verification nothing more is asked.
CHECK_DEADLOCK FALSE
