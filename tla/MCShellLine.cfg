CONSTANTS
  LineCap = 3
  HistCap = 2
  MatchCap = 4
  Letters <- MCLetters
  Roots <- MCRoots
  SubWords <- MCSubWords
  Spaced <- MCSpaced
SPECIFICATION ShellSpec
INVARIANTS
  ScreenShowsLine
  RecallIsSubmitted
PROPERTIES
  TabAddsCommon
