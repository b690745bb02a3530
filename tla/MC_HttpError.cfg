CONSTANTS
    Digits <- MCDigits
    Letters <- MCLetters
    MaxReason = 3
SPECIFICATION Spec
INVARIANT TypeOK
PROPERTY TakeMatchesReference
