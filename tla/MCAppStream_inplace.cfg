SPECIFICATION Spec
CONSTANTS
  Messages <- TextMessages
  MaxMessages = 1
  ReadSizes = {4}
  InPlace = TRUE
  MaxPadding = 0
  MaxTickets = 0
  TicketPadding = 0
  CloseNotify = FALSE
  MaxTimeouts = 0
INVARIANTS
  DeliveredInOrder
