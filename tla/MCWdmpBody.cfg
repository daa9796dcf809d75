\* One parameter is enough: a PATCH whose body is cut off.
CONSTANT MaxParams = 1
SPECIFICATION Spec
INVARIANT SentBodyWasRead
