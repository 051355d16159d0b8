SPECIFICATION Spec
CONSTANTS
  Word = 65536
  Launches <- Walks
INVARIANTS StaysInGrid EveryTileOnce RoutedVisitsTheSlice OffGrid
