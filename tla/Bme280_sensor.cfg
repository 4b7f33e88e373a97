SPECIFICATION FairSpec
CONSTANT Tries = 3
INVARIANTS TypeOK PostsAreMeasured InitSurvivesTimeout
PROPERTY ReadingsResume
