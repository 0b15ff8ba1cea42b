SPECIFICATION Spec
CONSTANTS
    c1 = c1
    c2 = c2
    c3 = c3
    l1 = l1
    l2 = l2
    Courses = {c1, c2, c3}
    CreatedAt <- MCCreatedAt
    Labels <- MCLabels
    Queries = {"q"}
    Lessons = {l1, l2}
    CourseOf <- MCCourseOf
    WithMedia = {l1}
    Previews = {l2}
    Seconds <- MCSeconds
    PageSizes = {1, 2}
    SearchLimit = 2
    RelatedLimit = 1
CONSTRAINT OnlyWhatIsRead
INVARIANTS
    OnlyPublishedIsShown
    
    
    PaidBodiesArePaidFor
