SPECIFICATION FairSpec
CONSTANTS
    Requests = {r1, r2}
    Events = {m1}
    NoMessage = NoMessage
    Endpoints = {e1}
    FlagInputs = {{"outbound"}}
    MaxAttempts = 3
    RetryBatch = 2
    MaxFaults = 1
INVARIANTS
    DeliveryInductive
    DeliveryBudget
    OutcomeHonest
PROPERTIES
    FinalDeliveriesStay
    KeepsDeliveryPromise
    RetriesEnd
