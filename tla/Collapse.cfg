CONSTANTS
    Islands <- Islands_
SPECIFICATION Spec
INVARIANTS TypeOK GroupsAreComponents PhotonsConserved OneOutcomeEach EveryPacketAnswered
