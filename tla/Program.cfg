CONSTANTS
    Procs = {p1, p2, p3}
    None = None
    Stale = Stale
    Symlink = Symlink
SPECIFICATION Spec
INVARIANT StaleOnlyAfterCrash
PROPERTIES ElderKeepsPath StartsOverLeftover
