\* Two revisions of the expert, one of the skill, two handlers at work, one report.
CONSTANTS
    Expert = Expert
    Skill = Skill
    MaxExpertRevs = 2
    MaxSkillRevs = 1
    MaxRequests = 2
    MaxReports = 1
SPECIFICATION Spec
INVARIANTS PointerMatches PublicRefsReviewed TasksRunReviewed
PROPERTIES PublishedAsRead DecisionsStand
CHECK_DEADLOCK FALSE
