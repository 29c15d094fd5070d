SPECIFICATION MCSpec
CONSTANTS
  Byte = {0, 1, 2}
  MaxBytes = 2
  Width = 1
  Word <- MCWord
  Text <- MCText
  Prefix <- MCPrefix
  Label <- MCLabel
  CommandDomain <- MCCommandDomain
  Executable <- MCExecutable
  Argument <- MCArgument
  Directory <- MCDirectory
  Name <- MCName
  Value <- MCValue
  MaxArguments = 2
  MaxEntries = 2
  Timeout = {1, 2}
INVARIANTS
  KeysAreInjective
  BytesIdentifyCommands
