\* A putter and a sender on one end, two clones of the other, four kinds of
\* channel; a put's closure may read either of two values.
CONSTANTS
  Putter = p
  Senders = {s}
  Receivers = {r1, r2}
  Makes <- MCMakes
  Value = {v1, v2}
  NoItem = NoItem
  MaxSent = 4
SPECIFICATION UnitSpec
INVARIANTS TypeOK InOrder Delivered NetlistView PutNeverRefused AxiSource UnitAgrees
PROPERTIES ChannelIsQueue PutReturns
