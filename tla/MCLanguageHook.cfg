CONSTANTS
  Places = {p, q}
  Keys = {k, plain}
  Translated = {k}
  NoKey = NoKey
SPECIFICATION LanguageSpec
INVARIANT TransparentWhileLoading
