SPECIFICATION FairSpec
CONSTANTS
    Stanzas <- MCStanzas
    MaxStanzas = 3
    Sizes = {5, 9}
    Blocks = {0, 6}
    Enlarged = 9
INVARIANTS
    StreamKept
    HandedInOrder
    DiesOnlyOfLength
PROPERTY EveryStanzaTaken
