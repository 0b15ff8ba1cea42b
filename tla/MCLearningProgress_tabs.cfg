SPECIFICATION Spec
CONSTANTS
    a = a
    b = b
    c = c
    t1 = t1
    t2 = t2
    Lessons = {a, b}
    FirstLessons = {a}
    Tabs = {t1, t2}
    Durations = {2}
    Positions = {0, 1}
    Deltas = {3}
    MaxBeat = 1
    Percent = 50
    MaxWatched = 2
SYMMETRY TabSymmetry
INVARIANT DatedWhenFinished
PROPERTIES LessonStaysDone NoBeatIsLost
