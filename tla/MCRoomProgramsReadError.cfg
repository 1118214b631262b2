SPECIFICATION Spec
CONSTANTS
    Rooms = {R1}
    Sockets = {s1, s2}
    Tasks = {t1, t2}
    Contents = {A, B}
    Faults = {"read"}
    MaxRevision = 2
    Empty = Empty
    NoRoom = NoRoom
    NoFile = NoFile
    NotLoaded = NotLoaded
    Nobody = Nobody
SYMMETRY Perms
INVARIANTS
    ToldIsDurable
