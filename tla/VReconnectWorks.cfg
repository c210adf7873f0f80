CONSTANTS
  Flow = {f1, f2}
  NoFlow = NoFlow
  Admin = {a1}
  Tester = {t1}
  Delegate = {w1}
  MaxTokens = 3
SPECIFICATION Spec

PROPERTY ReconnectWorks
