SPECIFICATION HubOnlySpec
CONSTANTS
  Clients = {c1, c2}
  Capacity = 1
  MaxEvents = 3
PROPERTY
  DocEventsArePushed
CHECK_DEADLOCK FALSE
