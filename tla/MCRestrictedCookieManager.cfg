\* Ages below, at and above a week, and one that deletes; twelve days pass.
SPECIFICATION Spec
CONSTANTS
    Name = {n1}
    MaxAge = {0, 2, 7, 30}
    MaxDays = 12
    NoCookie = NoCookie
INVARIANTS
    GoneInAWeek
    CookieExpirationTest
