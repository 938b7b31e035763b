SPECIFICATION Spec
CONSTANTS
  N = 3
  Queues = {q1, q2}
  Passengers = {p1, p2}
  Undeposited = {2}
  MaxSeats = 2
INVARIANT
  NoShowFlowIsOpen
