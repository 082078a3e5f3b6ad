CONSTANTS
    Key = {0, 1, 5, 10}
    Value = {"a", "b"}
    Primes <- SmallPrimes
    Word = 8
    NoKey = NoKey
SPECIFICATION Spec
INVARIANTS
    LoadIsBounded
PROPERTY HashIsMap
