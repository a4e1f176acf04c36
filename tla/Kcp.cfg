CONSTANTS
  a = a
  b = b
  SeqMod = 24
  SndWnd = 2
  RcvWnd = 3
  Start = 23
  Lengths = {0, 2, 4}
  Messages <- OneSender
  Duplicates = TRUE
  MaxAcks = 1
  InFlight = 2
SPECIFICATION Spec
INVARIANTS NothingForgotten ReceiveWindow
PROPERTIES ImplementsChannel
