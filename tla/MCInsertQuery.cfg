SPECIFICATION Spec
CONSTANTS
  Values <- MCValues
  Digits <- MCDigits
  MaxValues = 3
  TableLengths = {1, 2, 3, 4, 5, 6, 7, 8, 9, 10, 11, 12, 13, 14, 15, 16}
  Word = 16
  Wide = 256
  InitialSpace = 2
  InitialString = 64
INVARIANTS
  TypeOK
  BuffersFit
  QueryHoldsValues
