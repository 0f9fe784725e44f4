SPECIFICATION Spec
CONSTANTS
  Messages <- TextMessages
  MaxMessages = 2
  ReadSizes = {1, 3}
  InPlace = FALSE
  MaxPadding = 1
  MaxTickets = 1
  TicketPadding = 0
  CloseNotify = TRUE
  MaxTimeouts = 1
INVARIANTS
  TypeOK
  NoSpuriousError
  TicketsKept
PROPERTIES
  ImplementsByteStream
  EventuallyRead
