\* Two keys more than fit.
SPECIFICATION Spec
CONSTANTS
    Keys = {k1, k2, k3, k4, k5}
    MaxKeys = 3
PROPERTIES AlwaysAccepts ImplementsLRU
