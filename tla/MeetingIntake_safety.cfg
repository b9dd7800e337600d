SPECIFICATION FairSpec
CONSTANTS
  d1 = d1
  d2 = d2
  m1 = m1
  m2 = m2
  m3 = m3
  m4 = m4
  call = call
  review = review
  ship = ship
  at1 = at1
  at2 = at2
  NoEvent = NoEvent
  Nobody = Nobody
  NoRef = NoRef
  Titles = {call, review, ship}
  Refs = {at1, at2}
  Meetings = {m1, m2, m3, m4}
  Agenda <- Agendas
  Requests = {d1, d2}
  Malformed = {m4}
  MaxFaults = 1
  MaxEdits = 2
  ByHand <- HandItems
  Envelopes <- Delivered
INVARIANTS
  AtMostOnce
  ConsentGate
  AnsweredIsStored
  EntryIsCovered
PROPERTIES
  ImplementsLedger
  FirstDeliveryStands
  EveryDeliveryEnds
CHECK_DEADLOCK FALSE
