SPECIFICATION Spec
CONSTANTS
    i1 = i1  i2 = i2  s1 = s1
    Instructors = {i1, i2}
    Students = {s1}
    Slides = 3
    Scenes <- AllScenes
    None = None
INVARIANTS FollowersKeepUp InstructorsAgree
PROPERTIES SettlesDown
CHECK_DEADLOCK FALSE
