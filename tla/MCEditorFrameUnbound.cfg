SPECIFICATION Spec
CONSTANTS
    Sizes = {small, large}
    Absent = Absent
    MaxChanges = 5
CHECK_DEADLOCK FALSE
PROPERTIES
    ViewportShowsThisFrame
