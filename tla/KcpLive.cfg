CONSTANTS
  a = a
  b = b
  SeqMod = 24
  SndWnd = 1
  RcvWnd = 3
  Start = 23
  Lengths = {0, 2, 4}
  Messages <- OneSender
  Duplicates = FALSE
  MaxAcks = 1
  InFlight = 2
SPECIFICATION LiveSpec
PROPERTIES EverythingArrives
