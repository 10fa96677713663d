CONSTANTS
  Lock = {l1, l2, l3}
  NoLock = NoLock
  MaxNodes = 3
  MaxVersion = 2
  MaxPath = 2
SPECIFICATION PathSpec
INVARIANTS TypeOK StoreOK EdgesMirrored RanksPermute EdgesRanked SearchOK ReportShowsCycle
PROPERTIES OnlyRegionMoves Refines EveryCallReturns
