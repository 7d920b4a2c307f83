\* Two requests, and a thread that starts, stops, reconfigures and resets.
SPECIFICATION Spec
CONSTANTS
    u1 = u1
    u2 = u2
    Main = Main
    None = None
    Users = {u1, u2}
    MaxProviders = 4
SYMMETRY UserSymmetry
INVARIANTS
    TypeOK
    OneProviderUp
    WantedSpanIsExported
