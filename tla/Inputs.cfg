SPECIFICATION MCSpec
CONSTANTS
    Nil = Nil
    None = None
    Adverts <- MCAdverts
    Damage <- MCDamage
    laddr <- MCladdr
    raddr <- MCraddr
    peer <- MCpeer
CHECK_DEADLOCK FALSE
INVARIANTS
    DeliveredIsSent
    UntouchedIsDelivered
    EndsInTime
    VerdictMatchesReply
    NoCheckLost

    
    
