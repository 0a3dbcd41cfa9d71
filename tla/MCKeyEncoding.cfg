CONSTANTS
  Texts <- ShortTexts
SPECIFICATION Spec
INVARIANTS CharactersExact
