SPECIFICATION Spec
CONSTANTS
    Nil = Nil
    s1 = s1
    s2 = s2
    me = me
    Server <- MCServers
    Me = me
    Base <- MCBase
    MaxTrouble = 1
CHECK_DEADLOCK FALSE
INVARIANTS IndexInBounds AddsOnlyProvisional DeadClientsHaveLeft
PROPERTIES MembershipSettles
