SPECIFICATION FairSpec
CONSTANTS
  BufSize = 3
  FifoSize = 1
  SerialIn = {"CR"}
  Keys <- SomeKeys
  Modifiers = {"Shift", "Ctrl"}
VIEW RunView
PROPERTIES IsQueue KeystrokesAccounted ReadReturns
