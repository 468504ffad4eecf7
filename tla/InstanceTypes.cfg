SPECIFICATION MCSpec
CONSTANTS
    Profiles <- MCProfiles
    ProfileSpec <- MCProfileSpec
    Quote <- MCQuote
    Zones <- MCZones
    Classes <- MCClasses
    Claims <- MCClaims
    None = None
    SpotPercent = 60
    Steps = 2
    MaxEvents = 1
INVARIANTS AnswersAreRight
PROPERTIES MarksStay
