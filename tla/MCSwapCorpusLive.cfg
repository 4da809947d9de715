\* Two overlapping runs, one swap, one reorganisation: started again and again.
CONSTANTS
    s1 = s1
    s2 = s2
    corpus = corpus
    sample = sample
    Null = Null
    Swaps = {s1}
    Blocks <- MCBlocks
    Runs = {corpus, sample}
    From <- MCFrom
    To <- MCTo
    WindowSize <- MCWindowSize
    MaxTries = 2
    Limit = 1
    MaxReorgs = 1
SPECIFICATION FairSpec
PROPERTIES Converges
