SPECIFICATION FairSpec
CONSTANTS
    Stream = Stream
    Poll = Poll
    Backfill = Backfill
    Tasks = {Stream, Poll, Backfill}
    NoTask = NoTask
    Interval = 2
    MaxRequests = 4
INVARIANTS
    TypeOK
    NoncesSingleUse
PROPERTIES
    ProbesSpaced
    ThrottlePasses
