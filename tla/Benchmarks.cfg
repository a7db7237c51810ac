CONSTANTS
    Participants = {dsp, m3, host}
    NoOne = NoOne
    Nobody = Nobody
    Schedule <- FloydWarshallBarriers
    DSP = DSP
    Task0 = Task0
    Task1 = Task1
    Kernels <- Ordered
    NumIter = 3
    m3 = m3
    dsp = dsp
    t0 = t0
    t1 = t1
    d0 = d0
    Images = {m3, dsp}
    Tasks = {t0, t1, d0}
    ImageOf <- ImageOfTask
    Locks = {4, 5}
    Running = {"barrier", "kernel", "lock", "multiply"}
    Size = 2
    Products = 2
SPECIFICATION BenchSpec
INVARIANTS
    ReleaseIsNotMissed
    ResultsAreGood
    ProductIsWhole
    HandlesAreGood
PROPERTIES
    ImplementsRendezvous
    ImplementsMutex
    CallsReturn
CHECK_DEADLOCK FALSE
