CONSTANTS
    ann = ann
    bob = bob
    starterAnn = starterAnn
    starterBob = starterBob
    NoKey = NoKey
    NoTx = NoTx
    Users <- MCUsers
    Keys <- MCKeys
    Owner <- MCOwner
    Txs = {t1, t2, t3}
    Programs <- MCPrograms

SPECIFICATION FairSpec

INVARIANTS
    TypeOK
    CacheIsSum
    AuditTrail
    GrantedOnce

PROPERTIES
    SerializesRequests
    RequestsEnd
