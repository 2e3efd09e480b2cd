SPECIFICATION Spec
INVARIANT
    SwapAccountedFor
