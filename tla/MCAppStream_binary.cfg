SPECIFICATION Spec
CONSTANTS
  Messages <- BinaryMessages
  MaxMessages = 2
  ReadSizes = {4}
  InPlace = FALSE
  MaxPadding = 0
  MaxTickets = 0
  TicketPadding = 0
  CloseNotify = FALSE
  MaxTimeouts = 0
INVARIANTS
  DeliveredInOrder
