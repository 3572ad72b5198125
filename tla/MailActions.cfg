CONSTANTS
  None = None
  a1 = a1
  a2 = a2
  r1 = r1
  r2 = r2
  Account = {a1, a2}
  Request = {r1, r2}
  Message = {1, 2, 3}
  Owner <- TwoAccounts
  First = {1, 2}
  PageSize = 1
  UnreadOnly = TRUE
  MaxChances = 2
SPECIFICATION MailFairSpec
INVARIANT OwnChangesShown
INVARIANT PagesInOrder
PROPERTY RowsSettle
PROPERTY ListSettles
