--------------------------------- MODULE Text ---------------------------------
(***************************************************************************)
(* What the server makes of the texts it is given (api/validate.go): the    *)
(* title of a wheel, the labels of its segments, the note of an account. A  *)
(* text gives a character to each of its places, which are numbers; what is  *)
(* removed leaves its place empty. A character is the class the code tells   *)
(* apart. The editor sends the stored labels back with every save            *)
(* (js/edit.js:241).                                                         *)
(***************************************************************************)
EXTENDS Integers, FiniteSets

\* "break" is a newline or a tabulation, "listed" one of the direction marks
\* that api/validate.go:44-47 lists (U+202A-202E, U+2066-2069, U+200E, U+200F)
\* or a BOM; "unlisted" is the direction mark it does not list, U+061C, and
\* "invisible" what has no width, as U+200B and U+2060: neither is a control
\* character nor a space for Go. "invalid" is no UTF-8.
Characters ==
  {"letter", "space", "break", "control", "listed", "unlisted", "invisible", "invalid"}

IsText(s) ==
  /\ DOMAIN s \subseteq Nat /\ IsFiniteSet(DOMAIN s)
  /\ s \in [DOMAIN s -> Characters]

Kept(s, places) == [i \in places |-> s[i]]

\* strings.TrimSpace: from the first character that is no space to the last.
TrimSpace(s) ==
  LET seen == {i \in DOMAIN s : s[i] # "space"} IN
  Kept(s, {i \in DOMAIN s : \E first, last \in seen : first <= i /\ i <= last})

\* The function strings.Map applies: a break becomes a space, the control
\* characters and the listed marks go, the others stay.
Mapped(s) ==
  [i \in {j \in DOMAIN s : s[j] \notin {"control", "listed"}} |->
     IF s[i] = "break" THEN "space" ELSE s[i]]

cleanText(s) == TrimSpace(Mapped(s))

\* validText accepts a text by the number of characters left of it.
validText(s, minRunes, maxRunes) ==
  /\ \A i \in DOMAIN s : s[i] # "invalid"
  /\ Cardinality(DOMAIN cleanText(s)) \in minRunes..maxRunes

-----------------------------------------------------------------------------
\* What was accepted once and stored is accepted as it is, and stays the same,
\* when the editor sends it back.
StoredTextAccepted(s, minRunes, maxRunes) ==
  validText(s, minRunes, maxRunes) =>
    LET stored == cleanText(s) IN
    /\ validText(stored, minRunes, maxRunes)
    /\ cleanText(stored) = stored

\* cleanText is said to take the direction marks out, since they can disguise
\* a label (api/validate.go:31-36). It leaves in their places, in any text,
\* those it does not list, and every other character that cannot be seen.
UnlistedStay(s) ==
  {i \in DOMAIN cleanText(s) : cleanText(s)[i] \in {"unlisted", "invisible"}}
    = {i \in DOMAIN s : s[i] \in {"unlisted", "invisible"}}
=============================================================================
