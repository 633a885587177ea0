CONSTANT Faults = {}
SPECIFICATION Spec
 
PROPERTIES  NeverStopsRunning
