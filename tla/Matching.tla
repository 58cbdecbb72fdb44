------------------------------- MODULE Matching -------------------------------
(***************************************************************************)
(* What regex_match, regex_search and regex_findall promise: regex_match   *)
(* accepts if some match is the whole text, regex_search answers with the  *)
(* leftmost match and of those with the longest, regex_findall calls back  *)
(* with the first match, the first one behind it, and so on.  A match is   *)
(* found in one step; nothing is said about how it is looked for.          *)
(***************************************************************************)
EXTENDS Automaton, Integers

VARIABLES
  re, text, kind, nmatch,   \* the call and its arguments
  stage,                    \* "idle", "looking", "found", "done"
  behind,                   \* where the next match may begin
  match,                    \* matches[0]
  delivered, stopped,       \* what the callback saw, and whether it had enough
  rc                        \* "RUN" before the call has returned

args == <<re, text, kind, nmatch>>
reported == <<delivered, stopped>>
vars == <<args, stage, behind, match, reported, rc>>

-----------------------------------------------------------------------------
NoSpan == <<-1, -1>>

\* The matches that begin at s or later.
Matches(s) ==
  {m \in (s .. Len(text)) \X (s .. Len(text)) : m[2] \in Ends(re, text, m[1])}

\* The first of them: the leftmost, and of those the longest.
IsFirst(m, s) ==
  /\ m \in Matches(s)
  /\ \A x \in Matches(s) : m[1] < x[1] \/ (m[1] = x[1] /\ x[2] <= m[2])

\* What the caller's array receives of it.
Shown(m) == IF nmatch = 0 THEN NoSpan ELSE m

Init ==
  /\ re \in Regex
  /\ text = <<>> /\ kind = "match" /\ nmatch = 0
  /\ stage = "idle" /\ behind = 0 /\ match = NoSpan
  /\ delivered = <<>> /\ stopped = FALSE
  /\ rc = "RUN"

Call ==
  /\ stage = "idle" /\ stage' = "looking"
  /\ text' \in Texts
  /\ kind' \in {"match", "search", "findall"}
  /\ nmatch' \in IF kind' = "findall" THEN {Compiled[re].groups + 1}
                 ELSE 0 .. Compiled[re].groups + 1
  /\ UNCHANGED <<re, behind, match, reported, rc>>

Answer(status) == stage = "looking" /\ stage' = "done" /\ rc' = status

\* regex_match
Whole ==
  /\ kind = "match" /\ Answer("OK")
  /\ Len(text) \in Ends(re, text, 0)
  /\ match' = Shown(<<0, Len(text)>>)
  /\ UNCHANGED <<args, behind, reported>>

NotWhole ==
  /\ kind = "match" /\ Answer("NOMATCH")
  /\ Len(text) \notin Ends(re, text, 0)
  /\ UNCHANGED <<args, behind, match, reported>>

\* regex_search
First ==
  /\ kind = "search" /\ Answer("OK")
  /\ \E m \in Matches(0) : IsFirst(m, 0) /\ match' = Shown(m)
  /\ UNCHANGED <<args, behind, reported>>

Nowhere ==
  /\ kind = "search" /\ Answer("NOMATCH")
  /\ Matches(0) = {}
  /\ UNCHANGED <<args, behind, match, reported>>

\* regex_findall: the next match, which the callback then sees; the one after
\* it may begin where it ends, or a byte further if it is empty.
Find ==
  /\ kind = "findall" /\ stage = "looking" /\ stage' = "found"
  /\ \E m \in Matches(behind) : IsFirst(m, behind) /\ match' = m
  /\ UNCHANGED <<args, behind, reported, rc>>

Deliver ==
  /\ stage = "found"
  /\ delivered' = Append(delivered, match)
  /\ \/ \* the callback wants more, and there is more of the text
        /\ behind' = IF match[1] = match[2] THEN match[2] + 1 ELSE match[2]
        /\ IF behind' <= Len(text)
             THEN stage' = "looking" /\ match' = NoSpan /\ UNCHANGED rc
             ELSE stage' = "done" /\ rc' = "OK" /\ UNCHANGED match
        /\ UNCHANGED stopped
     \/ /\ stopped' = TRUE
        /\ stage' = "done" /\ rc' = "OK"
        /\ UNCHANGED <<behind, match>>
  /\ UNCHANGED args

NoMore ==
  /\ kind = "findall" /\ Answer("OK")
  /\ Matches(behind) = {}
  /\ UNCHANGED <<args, behind, match, reported>>

\* Memory ran out, with a match found or not.
OutOfMemory ==
  /\ Answer("ESPACE")
  /\ \/ UNCHANGED match
     \/ \E m \in Matches(behind) : IsFirst(m, behind) /\ match' = m
  /\ UNCHANGED <<args, behind, reported>>

\* findall's array cannot be allocated.
NotBegun ==
  /\ stage = "idle" /\ stage' = "done" /\ rc' = "ESPACE"
  /\ text' \in Texts
  /\ kind' = "findall" /\ nmatch' = Compiled[re].groups + 1
  /\ UNCHANGED <<re, behind, match, reported>>

Next ==
  \/ Call
  \/ Whole \/ NotWhole \/ First \/ Nowhere
  \/ Find \/ Deliver \/ NoMore
  \/ OutOfMemory \/ NotBegun

Spec == Init /\ [][Next]_vars
=============================================================================
