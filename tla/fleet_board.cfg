SPECIFICATION Spec
CONSTANTS
    None = None
    Fleets <- MCFleets
    Orders <- MCOrders
    Collected <- MCCollected
    MaxPolls = 2
CHECK_DEADLOCK FALSE
INVARIANTS
    CardsAreTheirPods
    FigureIsObserved
    PageFollowsFleet
PROPERTY
    BoardSettles
