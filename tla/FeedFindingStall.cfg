SPECIFICATION FeedSpec
CONSTANTS
    PLCs = {p1}
    FeedFaults = {"stall"}
    MaxFeedFaults = 1
    MaxChanges = 2
    MaxSaves = 0
PROPERTY StallReconnects
CHECK_DEADLOCK FALSE
