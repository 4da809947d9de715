\* Two overlapping runs, two swaps, one reorganisation.
CONSTANTS
    s1 = s1
    s2 = s2
    corpus = corpus
    sample = sample
    Null = Null
    Swaps = {s1, s2}
    Blocks <- MCBlocks
    Runs = {corpus, sample}
    From <- MCFrom
    To <- MCTo
    WindowSize <- MCWindowSize
    MaxTries = 2
    Limit = 1
    MaxReorgs = 1
SYMMETRY SwapSymmetry
SPECIFICATION Spec
INVARIANTS TypeOK TablesTellChain CorpusComplete SampleStamped
PROPERTIES NothingTakenBack
