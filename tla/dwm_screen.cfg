SPECIFICATION MCSpec
CONSTANTS
    tiling = tiling  floats = floats
    NTags = 2
    Layout = {tiling, floats}
    Floating = floats  NoLayout = NoLayout
    Defaults <- MCDefaults
    MaxNmaster = 1  Mfacts = {0, 1}  MaxGap = 0  MaxChanged = 2  MaxRestarts = 1
    NBlocks = 3  Signals = {1, 2, 3}  MaxWidth = 2  Delimiter = 1
    Win = {"a", "b"}  Monitors = 2  Width = {8, 11}  Height = 11  GeoNmaster = 2  GeoGap = 1
    GeoUses = {{"tile", "bar"}, {"layout", "send"}, {"float", "full"}, {"screens", "full"},
               {"configure"}, {"move"}, {"view", "full"}}
    Tags = 2  TagWidth = 2  BarWidths = {7, 14, 20}  LtWidths = {2, 3}  StatusWidths = {2, 5}
    MaxClients = 3  BarUses = {{"widths", "clients"}, {"monitors", "clients"}}
INVARIANTS CurrentTagInForce ClickRunsItsBlock WindowsPlaced ClickHitsDrawn
PROPERTIES RestartKeeps
