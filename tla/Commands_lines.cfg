\* A line behind a placeholder that spans several lines.
SPECIFICATION CommandsSpec
CONSTANTS
  Literals <- MCLiterals
  Placeholders <- MCPlaceholders
  MaxPlaceholders = 2
  Documents <- MCDocuments
  Durations <- MCDurations
  RetentionDays <- MCRetentionDays
  Trimmed <- MCTrimmed
  Reading <- MCReading
  Syntax <- MCSyntax
  CheckLists <- MCCheckLists
  Numeral <- MCNumeral
  Labelled <- MCLabelled
  MaxInt = 15
  UnitOf <- MCUnitOf
  Memories <- MCMemories
  CPUs <- MCCPUs
  Bytes <- MCBytes
  NanosOfMilli = 10
  Largest = 500
  Environments <- MCEnvironments
INVARIANT
  LinesAreTheFiles
CHECK_DEADLOCK FALSE
