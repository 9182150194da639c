\* Every degree of reliability that the schema offers.
CONSTANTS
  Absent = Absent
  BaseFile <- OptionsOfFile
  Edits <- EditsOfFile
  MaxEdits = 1
  Samples <- NoSamples
  Seqs = {0, 255}
  EditedBytes = {0, 1, 255}
  Fields <- OtherFields
  Margin = 20
SPECIFICATION Spec
CHECK_DEADLOCK FALSE
INVARIANT MediumIsNotNone
