CONSTANTS
    h1 = h1
    h2 = h2
    Worker = Worker
    Handlers = {h1, h2}
SPECIFICATION FairSpec
INVARIANTS
    TypeOK
    WorkerHasStore
PROPERTIES
    HandlersHaveStore
    Stops
