\* Texts of up to five characters: space, identifier characters, operators.
CONSTANTS
    Chars = {" ", "a", ":", "&", "=", "<", "!", "("}
    MaxLen = 5
SPECIFICATION Spec
\* separate_text runs once; the words are then fixed.
CHECK_DEADLOCK FALSE
INVARIANT TextLossless
