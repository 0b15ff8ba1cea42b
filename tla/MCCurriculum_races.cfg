CONSTANTS
    Calls = {c1, c2}
    Sections = {s1, s2}
    Lessons = {l1, l2}
    TheCourse = TheCourse
    None = None
    MaxPosition = 3
SPECIFICATION CurriculumSpec
SYMMETRY Symmetry
CHECK_DEADLOCK FALSE
INVARIANTS OrderIsTotal ReordersQueue
PROPERTY ReorderIsWhole
