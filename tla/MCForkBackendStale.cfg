\* Two sandboxes: is a local write ever undone?
SPECIFICATION Spec
CONSTANTS
    a1 = a1
    s1 = s1
    Factory = f
    Client = {f, c1}
    Account = {a1}
    Slot = {s1}
    Number = {}
    Owner <- SlotOwner
    Injected = {}
    Diffed = {}
    Chain = {v1, v2}
    FromDiff = FromDiff
    Mine = Mine
    Empty = Empty
    None = None
    Err = Err
PROPERTY LocalWritesStay
