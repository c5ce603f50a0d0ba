SPECIFICATION Spec
CONSTANTS
    a = a
    b = b
    o1 = o1
    o2 = o2
    Chats = {a, b}
    Saved = {a}
    Openings = {o1, o2}
    None = None
    MaxVersion <- FewChanges
    MaxCrashes = 1
    Races = {"changeWhileOpening"}
SYMMETRY OpeningSymmetry
INVARIANTS NoStaleCopy

CHECK_DEADLOCK FALSE
