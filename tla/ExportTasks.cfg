\* Two exports and one worker: one export waits while the other is made.
SPECIFICATION FairExportSpec
CONSTANTS
  Exports = {x1, x2}
  Workers = {w1}
  NoExport = NoExport
INVARIANTS ExportTypeOK DownloadableHasFile NoZombieRow
PROPERTIES EveryExportEnds
