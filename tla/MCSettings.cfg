SPECIFICATION Spec
CONSTANTS
  NoBuffer = NoBuffer
  Images <- MCImages
  Inputs <- MCInputs
  Addresses <- MCAddresses
INVARIANTS
  TypeOK
  SettingsSurvive
PROPERTIES
  HostChangesAtOnce
