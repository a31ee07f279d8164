SPECIFICATION Spec
CONSTANTS
  Modules <- ABC
  Entry = "a"
  Libraries <- Lib
  Inner <- Scoped
  Parent <- ParentOf
  Names <- Sources
  Programs <- AllPrograms
  FirstChars <- First
  Chars <- Rest
  Keywords <- Reserved
INVARIANTS
  TypeOK
  RootNamesDistinct
  NamesKept
  LinksBound
  FinalExportsRight
  RejectsOnly
  NoVariableLost
PROPERTY LeadsOn
