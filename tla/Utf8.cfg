CONSTANTS
    CodePoint = {1, 127, 128, 169, 233, 2047, 2048, 4095, 4096, 20013, 65535, 65536, 131071, 1114111}
    MaxLength = 2
SPECIFICATION Spec
INVARIANTS
    ReadsWhatIsThere
CHECK_DEADLOCK FALSE
