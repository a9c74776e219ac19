------------------------------ MODULE MCShellLine ------------------------------
(* Two letters, lines of three characters and a ring of two lines for TLC. *)
EXTENDS ShellLine

MCLetters == {"A", "B"}
MCRoots == << <<"A">>, <<"B", "B", "A">>, <<"B", "A">>, <<"B", "B", "B">> >>
\* One word more than complete() has room for, as FOC_SUB.
MCSubWords(word) ==
  IF word = <<"A">>
  THEN << <<"B", "B">>, <<"A">>, <<"A", "A">>, <<"A", "A", "A">>, <<"A", "A", "B">> >> ELSE <<>>
MCSpaced == {<<"A">>}
===============================================================================
