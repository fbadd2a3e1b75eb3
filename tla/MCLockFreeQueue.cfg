\* Three distinct items, four slots and an index type of eight values: the
\* counters wrap twice as often as the slots, and every slot is refilled with
\* different items across the wrap.
SPECIFICATION Spec
CONSTANTS
  Items = {a, b, c}
  NoItem = NoItem
  Capacity = 4
  IndexMod = 8
INVARIANTS
  TypeOK
  StoreHitsFreeSlot
  LoadedItemIsHead
PROPERTY
  ImplementsFifo
