\* Two callers.  As long as no calls overlap, five registrations grow the array four times
\* (1, 2, 4, 8) and fit once without growing; once calls overlap, there are three.
CONSTANTS
    Callers = {c1, c2}
    Manifests = {m1, m2}
    Nil = Nil
    Garbage = Garbage
    MaxAdds = 5
SPECIFICATION Spec
SYMMETRY Symmetry
CONSTRAINT Bound
INVARIANTS
    TypeOK
    EarlyRegistrationsListed
    NoListingTooLong
PROPERTY ImplementsRegistry
