CONSTANTS
    i1 = i1
    i2 = i2
    card = card
    oldCard = oldCard
    Id = {i1, i2, i3, i4}
    FreshId = {i3, i4}
    Data = {card}
    OwnEvent <- TwoEvents
    Foreign <- OtherReleases
    Worker = {w1, w2}
    NoMessage = NoMessage
    MaxCopies = 2
SPECIFICATION FairSpec
INVARIANTS ConsumerTypeOK NoEventIsLost
PROPERTIES ProvidesEffects EveryEventTakesEffect
CHECK_DEADLOCK FALSE
