SPECIFICATION DdnsSpec
CONSTANTS
    NoAddress = NoAddress
    Own = own
    d1 = d1
    own = own
    nas = nas
    Unsplit = {nas}
    Worker = w
    Requests = {r}
    Names <- MCNames
    Addr4 = {a1, a2}
    Addr6 = {b1}
    Bodies <- MCBodies
    Initial <- MCInitial
    MaxDisturb = 2
INVARIANTS OneRecordIfAlone AcceptedIsServed
PROPERTIES OkIsPublished Converges
CHECK_DEADLOCK FALSE
