\* Two handlers register at the same time.
CONSTANTS
    Callers = {c1, c2}
    Manifests = {m1}
    Nil = Nil
    Garbage = Garbage
    MaxAdds = 2
SPECIFICATION Spec
INVARIANT NothingLost
