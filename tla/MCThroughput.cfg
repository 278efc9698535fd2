\* Two workers on the same or on different counters, on an entry that is NULL or
\* outside of the table; both programs and both kinds of build; initialisation
\* faster and slower than the first sleep.
SPECIFICATION FairSpec
CONSTANTS
  Workers = {w1, w2}
  Measurer = Measurer
  Nobody = Nobody
  MAXCOUNTERS = 3
  ncounters = 2
  MaxAdds = 2
INVARIANT Consistent
PROPERTY Reported
