SPECIFICATION Spec
CONSTANTS
  Ids = {d1, d2, d3}
  NoId = NoId
  Keywords = {"tea"}
  OtherWords = {"of"}
  Top = 1
  MaxLength = 4
  Uploads <- MCUploads
INVARIANTS TypeOK HashStable SameMeasures TextTells
CHECK_DEADLOCK FALSE
