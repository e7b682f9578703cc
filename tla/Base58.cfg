SPECIFICATION Spec
CONSTANTS
    Calls <- MCCalls
    Primes <- MCPrimes
INVARIANTS
    ResultExact
    RefusesExactly
