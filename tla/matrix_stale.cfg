\* Two cases on a machine with the results file of an earlier job.
CONSTANTS
  Cases    = {c1, c2}
  Leftover <- MCEarlier
SPECIFICATION Spec
INVARIANT LogReconstructs
