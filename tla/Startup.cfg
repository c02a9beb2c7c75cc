SPECIFICATION MCSpec
CONSTANTS
  D <- FieldTable
  repo = repo other = other win = win cwd = cwd
  r1 = r1 r2 = r2 l1 = l1 u = u v = v a = a b = b m1 = m1 m2 = m2
  OldKey = OldKey Nothing = Nothing
  Root = r1
  Children = {a, b}
  MaxAsked = 3
  MaxMessages = 4
INVARIANT OldRowsAreNumbered
PROPERTIES SettingsStay OldMessagesAreBound
CHECK_DEADLOCK FALSE
