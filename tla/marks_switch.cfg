SPECIFICATION CourseSpec
CONSTANTS
  Regattas = {r1, r2}
  Published = {r1}
  MarkPlaces = {1, 2}
  DefaultAt = 1
  MaxJobs = 2
  MaxChecks = 1
  MaxActs = 1
INVARIANT SelectedCourseOnly
