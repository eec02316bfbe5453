SPECIFICATION AgentsSpec
CONSTANTS
  Users = {u1}
  Turns = {t1}
  Books = {"b1", "b2", "b3"}
  Works = {"w1", "w2"}
  WorkOf <- MCWorkOf
  Windows <- MCWindows
  MaxRounds = 1
  RecursionLimit = 5
  MaxHistory = 2
  MaxShown = 3
  SearchLimit = 1
  MaxStimuli = 2
  Nobody = Nobody
CHECK_DEADLOCK FALSE
INVARIANT SharedAnswersArePublic
