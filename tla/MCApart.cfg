CONSTANTS
  s1 = s1
  s2 = s2
  s3 = s3
  Missing = Missing
  NoOutcome = NoOutcome
  Conditions <- MCConditions
  Nesting <- MCNesting
  Programs <- MCPrograms
  FactSets <- MCFactSets
  Definitions <- MCDefinitions
  OptionLists <- MCOptionLists
  Answers <- MCAnswers
  Blank = Blank
  Characters <- MCCharacters
  Scripts <- MCScripts
  NotSplit = NotSplit
  Servers = {s1, s2, s3}
  Directory <- MCDirectory
  Needs <- MCNeeds
  Repeatable = {2}
  MaxCrashes = 2
SPECIFICATION PartSpec
CHECK_DEADLOCK FALSE
INVARIANTS
    
    
    
    
    SchemaIsWhole
PROPERTIES
    ServersComeUp
