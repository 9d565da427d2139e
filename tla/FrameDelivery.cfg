\* Buffers of up to two parts, read through an SDK that may contradict itself.
CONSTANTS
  Word = 31
  MaxParts = 2
  PartKinds = {"Unknown", "Range", "Intensity", "Confidence"}
  DimensionVectors <- MCDimensionVectors
  DimensionBytes = {0, 8, 12, 16, 24, 31}
  DataBytes = {0, 8, 9, 16, 30}
  ForeignParts <- MCForeignParts
SPECIFICATION Spec
INVARIANTS
  TypeOK
  CopyIsSound
  NoPartDiscardsOthers
  CalibrationIsDeclared
  ConvertedDataFit
  NoPartHidesOthers
\* A frame is delivered once.
CHECK_DEADLOCK FALSE
