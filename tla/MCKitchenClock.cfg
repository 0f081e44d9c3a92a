SPECIFICATION KitchenSpec
CONSTANTS
    Orders = {o1, o2}
    Requests = {r1, r2}
    Instants = {0, 600, 1195, 6010}
    Slots = {0, 6}
    MaxEvents = 5
    None = None
CHECK_DEADLOCK FALSE
SYMMETRY Symmetry
INVARIANTS  QueueIsSound
PROPERTIES UndoReachesTwoWindows
