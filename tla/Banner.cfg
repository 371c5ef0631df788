\* A dismissible banner that goes on watching linked workflows; two checks in flight.
\* Two pages of a user: two hellos and a poll in flight, three changes.
CONSTANTS
  Dismissible = TRUE
  Headless = FALSE
  Linked = TRUE
  Checks = {1, 2}
  Pages = {"p1", "p2"}
  HelloSlots = {"h1", "h2"}
  MaxTurns = 3
  Stores = {"memory", "redis"}
SPECIFICATION MCSpec
INVARIANTS BannerInv PresenceInv
PROPERTIES DecisionsStand KeepsHandle FirstCheckTells ReadinessIsLearnt
CHECK_DEADLOCK FALSE
