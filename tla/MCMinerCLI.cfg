SPECIFICATION Spec
CONSTANTS
    Numbers <- MCNumbers
    Lower <- MCLower
    Addresses <- MCAddresses
    Cases <- MCCases
INVARIANTS
    PartsRecovered
    
    SensorsAreOwn
 
