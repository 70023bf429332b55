SPECIFICATION FairSpec
CONSTANT Calls = {c1}
PROPERTY DeadlineEndsCall
