SPECIFICATION Spec
CONSTANTS
  p1 = p1
  p2 = p2
  p3 = p3
  Progs = {p1, p2, p3}
  Sessions <- Sessions3
  Text <- Texts
  Prices = {1, 2}
  Home = 0
  Width = 2
  Zero = Zero
  Nil = Nil
  Key = Key
  NUL = "NUL"
  Code = Code
  NoCode = NoCode
  MaxUndone = 1
CHECK_DEADLOCK FALSE
PROPERTIES AllowanceIsReadable
