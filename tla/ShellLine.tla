-------------------------------- MODULE ShellLine --------------------------------
(***************************************************************************)
(* The line editor of src/app/shell.rs with the completion of              *)
(* src/app/shell/helpers.rs: keys that arrive byte by byte edit a line of  *)
(* bounded length, complete it, submit it and walk through a ring of       *)
(* submitted lines, while a terminal shows what the shell echoes.          *)
(*                                                                         *)
(* A line is a sequence of characters. The bytes A and B are characters as *)
(* well as the final bytes of the arrow keys, as on a real terminal. The   *)
(* terminal is one that ignores the erase sequence ESC [ K, so that what   *)
(* the shell paints over is all that goes away. What a submitted command   *)
(* does is in Control and Calibration.                                     *)
(***************************************************************************)
EXTENDS Integers, SequencesExt

CONSTANTS
  LineCap,    \* LINE_CAP
  HistCap,    \* HIST_CAP
  MatchCap,   \* length of the array of matches in complete()
  Letters,    \* printable bytes other than the space; with "A" and "B"
  Roots,      \* ROOT_CMDS: a sequence of words, as the next
  SubWords(_),\* the words after a command: FOC_SUB, LED_SUB, SYSTEM_SUB, CAL_SUB; or <<>>
  Spaced      \* words that a space follows

Space == " "

ASSUME ShellAssumption ==
  /\ {LineCap, HistCap, MatchCap} \subseteq Nat \ {0}
  /\ {"A", "B"} \subseteq Letters /\ Space \notin Letters

VARIABLES
  line,      \* line[..len]
  hist, head, count,   \* the ring: hist[..][..hist_len], hist_head, hist_count
  nav,       \* hist_nav; NoNav for None
  draft,     \* draft[..draft_len], while nav is not None
  esc, skipLf,
  painted,
  row,       \* what the terminal shows behind the prompt
  submitted,      \* history: the lines submitted, the last one first
  typed      \* history: the line when the walk through the history began

ring == <<hist, head, count, submitted>>
shellVars == <<line, ring, nav, draft, esc, skipLf, painted, row, typed>>

Chars == Letters \cup {Space}
NoNav == -1
Lines == UNION {[1 .. n -> Chars] : n \in 0 .. LineCap}
RingSlots == 0 .. HistCap - 1
Escapes == {"None", "Lead", "Csi", "Ss3"}

ShellTypeOK ==
  /\ Len(line) <= LineCap /\ Len(draft) <= LineCap
  /\ \A i \in RingSlots : Len(hist[i]) <= LineCap
  /\ head \in RingSlots /\ count \in 0 .. HistCap /\ nav \in {NoNav} \cup 0 .. count - 1
  /\ esc \in Escapes /\ skipLf \in BOOLEAN
  /\ painted \in 0 .. LineCap

-------------------------------------------------------------------------------
\* split_whitespace and trim, by the positions where tokens start and end.
Starts(l) == {i \in DOMAIN l : l[i] # Space /\ (i = 1 \/ l[i - 1] = Space)}
Ends(l) == {i \in DOMAIN l : l[i] # Space /\ (i = Len(l) \/ l[i + 1] = Space)}
Token(l, i) == SubSeq(l, i, Min({j \in Ends(l) : j >= i}))
Trim(l) == IF Starts(l) = {} THEN <<>> ELSE SubSeq(l, Min(Starts(l)), Max(Ends(l)))

\* completion_words: the prefix to complete and the words to complete it from.
NoWords == [prefix |-> <<>>, list |-> <<>>]
CompletionWords(l) ==
  LET starts == Starts(l)
      first == Min(starts)
      rest == starts \ {first}
      second == Min(rest)
      spaced == l # <<>> /\ l[Len(l)] = Space
  IN  CASE starts = {} -> [prefix |-> <<>>, list |-> Roots]
        [] starts # {} /\ rest = {} /\ ~spaced -> [prefix |-> Token(l, first), list |-> Roots]
        [] starts # {} /\ rest = {} /\ spaced -> [prefix |-> <<>>, list |-> SubWords(Token(l, first))]
        [] starts # {} /\ rest # {} /\ rest = {second} /\ ~spaced ->
             [prefix |-> Token(l, second), list |-> SubWords(Token(l, first))]
        [] OTHER -> NoWords

\* The matches by their positions in the list, as many as the array holds.
Hits(words) == {i \in DOMAIN words.list : IsPrefix(words.prefix, words.list[i])}
Matches(words) == {i \in Hits(words) : Cardinality({j \in Hits(words) : j <= i}) <= MatchCap}

\* longest_common_prefix. Faulty variant: looks at the last word only, as a loop that
\* forgets the shortest cut so far.
LastShared(list, at) == LongestCommonPrefix({list[Min(at)], list[Max(at)]})
CommonPrefix(list, at) == LongestCommonPrefix({list[i] : i \in at})

\* apply_completion: only as a whole. Faulty variant: one character too many fits.
FitsOver(l, added) == Len(l) + Len(added) <= LineCap + 1
Fits(l, added) == Len(l) + Len(added) <= LineCap
Applied(l, prefix, filled) ==
  LET added == SubSeq(filled, Len(prefix) + 1, Len(filled))
  IN  IF Fits(l, added) THEN l \o added ELSE l

\* maybe_space_after.
SpaceAfter(l, word) ==
  IF word \in Spaced /\ Len(l) < LineCap /\ (l = <<>> \/ l[Len(l)] # Space) THEN l \o <<Space>> ELSE l

\* complete(), up to its echo: the line after it, with a space behind a word that is
\* complete and alone.
Alone(at) == Cardinality(at) = 1
Completed(l) ==
  LET words == CompletionWords(l)
      matches == Matches(words)
      lcp == CommonPrefix(words.list, matches)
      longer == Applied(l, words.prefix, lcp)
  IN  CASE matches = {} -> l
        [] matches # {} /\ Len(lcp) > Len(words.prefix) ->
             IF Alone(matches) /\ longer # l THEN SpaceAfter(longer, lcp) ELSE longer
        [] OTHER -> IF Alone(matches) THEN SpaceAfter(l, words.list[Min(matches)]) ELSE l

\* The words the source lists, and the one of its lists that the array does not hold:
\* two of the words that it does hold begin differently.
Tokens == UNION {[1 .. n -> Letters] : n \in 1 .. LineCap}
ASSUME WordsAssumption ==
  /\ Roots \in Seq(Seq(Letters)) /\ \A w \in Tokens : SubWords(w) \in Seq(Seq(Letters))
  /\ \A list \in {Roots} \cup {SubWords(w) : w \in Tokens}, prefix \in Tokens \cup {<<>>} :
       LET words == [prefix |-> prefix, list |-> list]
       IN  Matches(words) # Hits(words) =>
             ~Alone(Matches(words)) /\ Len(CommonPrefix(list, Matches(words))) <= Len(prefix)

-------------------------------------------------------------------------------
\* The terminal. Blanks at the end of a row do not show.
Shown(cells, n) ==
  LET last == CHOOSE k \in n .. Len(cells) :
                /\ \A i \in k + 1 .. Len(cells) : cells[i] = Space
                /\ k = n \/ cells[k] # Space
  IN  SubSeq(cells, 1, last)

\* redraw_line on a row: the line, then blanks over what was painted beyond it.
\* Faulty variant: no blanks.
NeverOverpainted(l) == 0
Overpainted(l) == IF painted > Len(l) THEN painted - Len(l) ELSE 0
Redrawn(l, old) ==
  LET blanks == [i \in 1 .. Overpainted(l) |-> Space]
      over == l \o blanks
  IN  Shown(over \o SubSeq(old, Len(over) + 1, Len(old)), Len(l))
RedrawLine(l, old) == row' = Redrawn(l, old) /\ painted' = Len(l)

\* Any key that is not an arrow ends the walk; the draft is dead from then on.
EndWalk == nav' = NoNav /\ draft' = <<>> /\ typed' = <<>>

-------------------------------------------------------------------------------
\* The escape sequences of on_byte.
Escape ==
  /\ esc \in {"None", "Lead"}
  /\ esc' = "Lead" /\ skipLf' = FALSE
  /\ UNCHANGED <<line, ring, nav, draft, painted, row, typed>>

Introduce(b) ==
  /\ esc = "Lead" /\ b \in {"[", "O"}
  /\ esc' = IF b = "[" THEN "Csi" ELSE "Ss3"
  /\ UNCHANGED <<line, ring, nav, draft, skipLf, painted, row, typed>>

\* A digit, ; or ? goes on with a CSI sequence; any byte but A and B ends it, and the
\* other kind, without effect.
Swallow ==
  /\ esc \in {"Csi", "Ss3"}
  /\ \/ esc = "Csi" /\ UNCHANGED esc
     \/ esc' = "None"
  /\ UNCHANGED <<line, ring, nav, draft, skipLf, painted, row, typed>>

\* hist_index and load_hist. Faulty variant: the slot that is overwritten next.
NextSlot(n) == (head + n) % HistCap
HistIndex(n) == (head + HistCap - 1 - n) % HistCap
Load(n) == line' = hist[HistIndex(n)] /\ RedrawLine(hist[HistIndex(n)], row)

HistoryUp ==
  /\ esc \in {"Csi", "Ss3"} /\ esc' = "None"
  /\ CASE count > 0 /\ nav = NoNav ->
            draft' = line /\ typed' = line /\ nav' = 0 /\ Load(0)
       [] count > 0 /\ nav # NoNav /\ nav + 1 < count ->
            nav' = nav + 1 /\ Load(nav + 1) /\ UNCHANGED <<draft, typed>>
       [] OTHER -> UNCHANGED <<line, nav, draft, typed, painted, row>>
  /\ UNCHANGED <<ring, skipLf>>

HistoryDown ==
  /\ esc \in {"Csi", "Ss3"} /\ esc' = "None"
  /\ CASE nav = NoNav -> UNCHANGED <<line, nav, draft, typed, painted, row>>
       [] nav = 0 -> line' = draft /\ RedrawLine(draft, row) /\ EndWalk
       [] nav > 0 -> nav' = nav - 1 /\ Load(nav - 1) /\ UNCHANGED <<draft, typed>>
  /\ UNCHANGED <<ring, skipLf>>

-------------------------------------------------------------------------------
\* A byte outside an escape sequence, or one that breaks it off.
Plain == esc \in {"None", "Lead"} /\ esc' = "None"

Abort ==   \* Ctrl-C
  /\ Plain /\ EndWalk
  /\ line' = <<>> /\ painted' = 0 /\ row' = <<>> /\ skipLf' = FALSE
  /\ UNCHANGED ring

Kill ==   \* Ctrl-U
  /\ Plain /\ EndWalk
  /\ line' = <<>> /\ RedrawLine(<<>>, row) /\ skipLf' = FALSE
  /\ UNCHANGED ring

Backspace ==
  /\ Plain /\ EndWalk
  /\ line' = SubSeq(line, 1, Len(line) - 1)
  /\ painted' = IF line # <<>> /\ painted > 0 THEN painted - 1 ELSE painted
  /\ row' = IF line = <<>> THEN row
            ELSE Shown([row EXCEPT ![Len(line)] = Space], Len(line) - 1)
  /\ skipLf' = FALSE
  /\ UNCHANGED ring

Type(c) ==
  /\ Plain /\ EndWalk
  /\ IF Len(line) < LineCap
     THEN /\ line' = line \o <<c>>
          /\ painted' = Len(line) + 1
          /\ row' = line' \o SubSeq(row, Len(line) + 2, Len(row))
     ELSE UNCHANGED <<line, painted, row>>
  /\ skipLf' = FALSE
  /\ UNCHANGED ring

\* complete(): several matches are listed, on rows of their own.
Tab ==
  /\ Plain /\ EndWalk
  /\ line' = Completed(line)
  /\ LET matches == Matches(CompletionWords(line))
     IN  CASE matches = {} -> UNCHANGED <<painted, row>>
           [] matches # {} /\ Alone(matches) -> RedrawLine(line', row)
           [] OTHER -> RedrawLine(line', <<>>)
  /\ skipLf' = FALSE
  /\ UNCHANGED ring

\* push_history: neither empty lines nor the same one again.
SameAsLast(l) == count > 0 /\ hist[(head + HistCap - 1) % HistCap] = l
PushHistory(l) ==
  IF l = <<>> \/ SameAsLast(l) THEN UNCHANGED <<hist, head, count>>
  ELSE /\ hist' = [hist EXCEPT ![head] = l]
       /\ head' = (head + 1) % HistCap
       /\ count' = IF count < HistCap THEN count + 1 ELSE count

Submit(lf) ==
  /\ Plain /\ EndWalk
  /\ PushHistory(Trim(line))
  /\ submitted' = IF Trim(line) = <<>> \/ (submitted # <<>> /\ submitted[1] = Trim(line)) THEN submitted
             ELSE SubSeq(<<Trim(line)>> \o submitted, 1, Min({Len(submitted) + 1, HistCap}))
  /\ line' = <<>> /\ painted' = 0 /\ row' = <<>>
  /\ skipLf' = ~lf

\* Any other byte: nothing, and the walk goes on.
Ignore ==
  /\ Plain /\ skipLf' = FALSE
  /\ UNCHANGED <<line, ring, nav, draft, painted, row, typed>>

\* drop_crlf_lf: the LF of a CR LF.
DropLf ==
  /\ skipLf /\ skipLf' = FALSE
  /\ UNCHANGED <<line, ring, nav, draft, esc, painted, row, typed>>

-------------------------------------------------------------------------------
ShellInit ==
  /\ line = <<>> /\ draft = <<>> /\ typed = <<>> /\ row = <<>> /\ submitted = <<>>
  /\ hist = [i \in RingSlots |-> <<>>] /\ head = 0 /\ count = 0 /\ nav = NoNav
  /\ esc = "None" /\ skipLf = FALSE /\ painted = 0

ShellNext ==
  \/ Escape \/ Swallow \/ HistoryUp \/ HistoryDown
  \/ \E b \in {"[", "O"} : Introduce(b)
  \/ Abort \/ Kill \/ Backspace \/ Tab \/ Ignore \/ DropLf
  \/ \E c \in Chars : Type(c)
  \/ Submit(FALSE)
  \/ ~skipLf /\ Submit(TRUE)

ShellSpec == ShellInit /\ [][ShellNext]_shellVars

-------------------------------------------------------------------------------
\* The operator sees the command that Enter would run: after every key the terminal
\* shows the line buffer and nothing else, whatever was painted, completed, listed,
\* recalled or erased before.
ScreenShowsLine == row = line

\* The history is what was submitted: each step up shows the next older line, over
\* wraps of the ring, and the way down ends at what was being typed.
RecallIsSubmitted ==
  /\ count = Len(submitted)
  /\ nav # NoNav => line = submitted[nav + 1] /\ draft = typed

\* Completion never rewrites what was typed and adds only what every word that it could
\* have meant has in common, and a space behind the only one.
Meant(l) ==
  LET words == CompletionWords(l)
  IN  {w \in ToSet(words.list) : IsPrefix(words.prefix, w)}
TabAddsCommon ==
  [][line' # line /\ Tab =>
       /\ IsPrefix(line, line')
       /\ LET added == SubSeq(line', Len(line) + 1, Len(line'))
          IN  \A w \in Meant(line) : IsPrefix(CompletionWords(line).prefix \o added, w \o <<Space>>)]_shellVars
===============================================================================
