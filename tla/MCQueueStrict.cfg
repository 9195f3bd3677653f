\* A high and then a normal item arrive after a get has passed the high lane.
SPECIFICATION Spec
CONSTANTS
    Priorities = {1, 5}
    MaxItems = 2
    MaxBatch = 1
PROPERTIES
    DrainIsStrict
