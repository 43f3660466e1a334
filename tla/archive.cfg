\* Up to four faults: failed attempts and retries, or any mix of kills, held files and failures.
SPECIFICATION FairSpec
CONSTANTS
  MaxFaults = 4
INVARIANTS
  ArchivedIsCommitted
  SeenAsFixed
PROPERTIES
  Resumes
CHECK_DEADLOCK FALSE
