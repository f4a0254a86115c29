\* The bound the documentation states, against the recency Map.
SPECIFICATION Spec
CONSTANTS
    Keys = {k1, k2, k3}
    MaxKeys = 2
INVARIANT RecencyBounded
