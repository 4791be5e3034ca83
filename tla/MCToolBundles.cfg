CONSTANTS
    echo = echo
    find = find
    sum = sum
    post = post
    b1 = b1
    b2 = b2
    b3 = b3
    Operator = Operator
    None = None
    Tools = {echo, find, sum, post}
    Static = {echo}
    Bundles = {b1, b2, b3}
    Manifest <- MCManifest
SPECIFICATION Spec
INVARIANTS
    RegistryFollowsTable
    EnabledServes
