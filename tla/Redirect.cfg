\* Three redirections of 0 to 5; 6 and 7 are what 200 and 201 are in the code.
CONSTANTS
  NFds = 8
  Save = 6
  MaxRedirects = 3
SPECIFICATION Spec
INVARIANTS StandardRestored Applied
