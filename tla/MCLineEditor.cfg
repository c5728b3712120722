SPECIFICATION Spec
CONSTANTS
  LineMax = 4
  HistSize = 2
  Width = 6
  Height = 2
  Prompt <- APrompt
  Chars = {"a", " "}
  Builtins <- Commands
  Files <- Names
  Saved <- SavedFiles
  Outputs <- AText
  MaxCount = 4
INVARIANTS LineInv HistoryInOrder
PROPERTY TabKeepsMatches
VIEW Visible
