SPECIFICATION AnswerSpec
CONSTANTS
  Devices = {d1, d2}
  Accounts = {a, b}
  Unbound = Unbound
  Types <- MCOtherType
  MaxItems = 1
  Rebind = FALSE
PROPERTIES
  ExchangesEnd
CHECK_DEADLOCK FALSE
