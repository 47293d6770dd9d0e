SPECIFICATION FairSpec
CONSTANTS
  JobLines <- MCJobLines
  OtherLines <- MCOtherLines
  RecvMax = 3
  MaxLines = 2
  MaxBlank = 1
  NumThreads = 2
PROPERTY CloseNoticed
