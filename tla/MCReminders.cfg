CONSTANTS
  Deadlines <- MCDeadlines
  MaxTime = 3
  MaxReminders = 3
  IsHeld = FALSE
SPECIFICATION Spec
INVARIANTS
  TypeOK
  FiresOnce
  ArmedForEarliest
  ComesInItsTurn
PROPERTIES
  EveryReminderComesBack
