\* Two calls, one stop of the worker or new sign-in, one reconnection at a time.
CONSTANTS
    Calls = {c1, c2}
    None = None
    MaxUpsets = 1
    MaxTimers = 1
    MaxInbox = 2
SPECIFICATION Spec
SYMMETRY Sym
INVARIANTS
    TypeOK
    StorageAgrees
    PanelAgrees
    WaitIsTimed
    WrapupKept
