\* A factory and a sandbox; an account that the node has to be asked for, a slot of it, and
\* an account that is injected.
SPECIFICATION Spec
CONSTANTS
    a1 = a1
    s1 = s1
    Factory = f
    Client = {f, c1}
    Account = {a1, i1}
    Slot = {s1}
    Number = {}
    Owner <- SlotOwner
    Injected = {i1}
    Diffed = {}
    Chain = {v1, v2}
    FromDiff = FromDiff
    Mine = Mine
    Empty = Empty
    None = None
    Err = Err
INVARIANTS TypeOK NoOrphan OneFetchPerKey AgreedReads ClosedQuietly NoPhantomAccount
PROPERTIES EveryReadEnds ThreadEnds Implements
