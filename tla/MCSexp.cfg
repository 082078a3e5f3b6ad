SPECIFICATION Spec
CONSTANTS
    Lexers <- BothLexers
    Texts <- ShortTexts
    MAX_TOKEN_LENGTH = 3
    MaxPieces = 5
INVARIANTS
    TokensCoverTheText PrintsWhatItReads
