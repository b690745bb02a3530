CONSTANTS
    k1 = k1
    k2 = k2
    m1 = m1
    m2 = m2
    Keys <- MCKeys
    Members <- MCMembers
    MaxArgs = 3
SPECIFICATION Spec
PROPERTY ScardArityAsTested
