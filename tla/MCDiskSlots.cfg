SPECIFICATION Spec
CONSTANTS
    NumSlots = 7
    SlotsPerSection = 3
    NumSections = 3
    Users = {"user1", "user2"}
    MaxRequest = 3
INVARIANTS
    TypeOK
    AllocationNotShort
    CountersExact
PROPERTY
    ImplementsPool
