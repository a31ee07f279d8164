SPECIFICATION Spec
CONSTANTS
  Modules <- ABC
  Entry = "a"
  Libraries <- Lib
  Inner <- Scoped
  Parent <- ParentOf
  Names <- Sources
  Programs <- WithLibraries
  FirstChars <- First
  Chars <- Rest
  Keywords <- Reserved
INVARIANT ExternalNamesBound
