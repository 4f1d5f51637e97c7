CONSTANTS
    d1 = d1
    d2 = d2
    c1 = c1
    c2 = c2
    t1 = t1
    t2 = t2
    Main = Main
    NoDomain = NoDomain
    Domains = {d1, d2}
    Active = {d1}
    Comps <- mcComps
    Interest <- mcInterest
    Late = {c2}
    Pool = {t1}
    MaxWork = 3
SPECIFICATION FairSpec
INVARIANTS TypeOK NoMissedRenewal RevokedWithdrawn
PROPERTIES CheckHeals
CHECK_DEADLOCK FALSE
