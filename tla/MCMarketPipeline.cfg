\* Three ticks over two minutes in hours of one, batches of two, one restart.
SPECIFICATION PipelineSpec
CONSTANTS
  MaxTicks = 3
  MaxMinute = 2
  HourLength = 1
  Retained = 0
  Batch = 2
  MaxRestarts = 1
 
PROPERTIES BacklogDrains
\* The bounds on ticks and minutes stop the instance.
CHECK_DEADLOCK FALSE
