SPECIFICATION Spec
CONSTANTS
    MaxVersion = 3
    MaxCommits = 6
INVARIANTS PublishedTagIsReleased StampedOnce
