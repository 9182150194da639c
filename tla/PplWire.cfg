\* Files with up to two unusual options, and every packet with one unusual value.
CONSTANTS
  Absent = Absent
  BaseFile <- OptionsOfFile
  Edits <- EditsOfFile
  MaxEdits = 2
  Samples <- SamplesOf
  Seqs = {0, 255}
  EditedBytes = {0, 1, 255}
  Fields <- OtherFields
  Margin = 12
SPECIFICATION Spec
\* A message's life ends.
CHECK_DEADLOCK FALSE
INVARIANTS
  TypeOK
  RoundTrip
  Canonical
  OtherEndDropped
  OnlyTextEscapes
  NoOptionIsLost
  RulesArrive
  FitsOrRefused
