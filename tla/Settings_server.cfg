SPECIFICATION Spec
INVARIANTS
    ServerOption
