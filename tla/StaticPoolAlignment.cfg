\* An allocation from an empty pool fails its assertion and ends the program.
CHECK_DEADLOCK FALSE
SPECIFICATION MemorySpec
CONSTANTS
    t1 = t1
    t2 = t2
    pool1 = pool1
    pool2 = pool2
    e1 = e1
    e2 = e2
    e3 = e3
    SimpleTestEvent = SimpleTestEvent
    SimpleTestEvent2 = SimpleTestEvent2
    PayloadTestEvent = PayloadTestEvent
    TestEventWithBaseClass = TestEventWithBaseClass
    PooledSimpleTestEvent = PooledSimpleTestEvent
    PooledSimpleTestEvent2 = PooledSimpleTestEvent2
    Threads <- TwoThreads
    NumElements = 4
    Nobody = Nobody
    Junk = Junk
    ElementSizes <- SizesAsked
    Alignments <- AlignmentsAsked
    Before <- GccBefore
    After <- GccAfter
    kPrefix = "with T = "
    kSuffix = "]"
    npos = 255
    ClassName <- Names
    Classes <- TwoChains
    Previous <- ChainOf
    FirstId <- TestIds
    CustomClasses <- OnlyPooled
    Args <- PoolSizeCalculatorArgs
    Sizeof <- Sizes
    ControlBlock = 24
    Pools <- TwoPools
    Count = 2
    Events <- ThreeEvents
    NoClass = NoClass
    nullptr = nullptr
    Heap = Heap
INVARIANT AdmittedBlocksApart
