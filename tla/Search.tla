-------------------------------- MODULE Search --------------------------------
(***************************************************************************)
(* The calls of regex_engine.c that look for matches: regex_match,         *)
(* regex_search and regex_findall.  Each probes one start after another    *)
(* with regex_run_from and hands a hit to fill_match; findall reports it   *)
(* to its callback and goes on behind it.                                  *)
(*                                                                         *)
(* A probe is one step.  It answers what LongestMatch promises, which both *)
(* engines keep: the longest match, none, or out of memory.  Of the        *)
(* matches only the first, the whole match, is modelled here; the groups   *)
(* are Capture's.                                                          *)
(***************************************************************************)
EXTENDS Automaton, Integers

CONSTANTS
  IntBits,     \* the width of int
  SizeBits     \* that of size_t

\* regex_capture_count
CaptureCount == [r \in Regex |-> Compiled[r].groups]

SearchAssumption ==
  /\ IntBits \in Nat \ {0}
  /\ SizeBits \in Nat \ {0}
  /\ \A r \in Regex : CaptureCount[r] \in Nat

ASSUME SearchAssumption

VARIABLES
  re, text,    \* the arguments
  kind,          \* which call: "match", "search" or "findall"
  nmatch,      \* the length of the caller's array of matches
  pc,          \* "call", "probe", "fill", "report", "done"
  cursor,      \* where the search for the next match began
  probe,       \* where regex_run_from is tried
  end,         \* what it returned
  match,       \* matches[0], a pair of rm_so and rm_eo
  delivered,   \* the matches the callback was called with
  stopped,     \* whether it returned 0
  rc           \* the result, "RUN" before

args == <<re, text, kind, nmatch>>
reported == <<delivered, stopped>>
vars == <<args, pc, cursor, probe, end, match, reported, rc>>

Groups == CaptureCount[re]
NoSpan == <<-1, -1>>

\* The conversions of a position to int and of an int to size_t.
ToInt(p) ==
  LET half == 2 ^ (IntBits - 1)
  IN  ((p + half) % (2 * half)) - half
ToSize(i) == i % 2 ^ SizeBits

Init ==
  /\ re \in Regex
  /\ text = <<>> /\ kind = "match" /\ nmatch = 0
  /\ pc = "call"
  /\ cursor = 0 /\ probe = 0 /\ end = 0
  /\ match = NoSpan
  /\ delivered = <<>> /\ stopped = FALSE
  /\ rc = "RUN"

-----------------------------------------------------------------------------
Finish(status) == pc' = "done" /\ rc' = status

\* The matches are reset; findall allocates one for each group and the whole.
Call ==
  /\ pc = "call" /\ pc' = "probe"
  /\ text' \in Texts
  /\ kind' \in {"match", "search", "findall"}
  /\ nmatch' \in IF kind' = "findall" THEN {Groups + 1} ELSE 0 .. Groups + 1
  /\ match' = NoSpan
  /\ UNCHANGED <<re, cursor, probe, end, reported, rc>>

\* findall cannot allocate its matches.
CallOutOfMemory ==
  /\ pc = "call" /\ Finish("ESPACE")
  /\ text' \in Texts
  /\ kind' = "findall" /\ nmatch' = Groups + 1
  /\ UNCHANGED <<re, cursor, probe, end, match, reported>>

\* regex_run_from returned RX_OK; regex_match wants the whole text.
Hit ==
  /\ pc = "probe"
  /\ end' \in Ends(re, text, probe)
  /\ \A p \in Ends(re, text, probe) : p <= end'
  /\ IF kind = "match" /\ end' # Len(text)
       THEN Finish("NOMATCH")
       ELSE pc' = "fill" /\ UNCHANGED rc
  /\ UNCHANGED <<args, cursor, probe, match, reported>>

\* Mutant: the end of the text is passed.
MoreBeyond == kind # "match" /\ probe <= Len(text)

\* There is another start to try.
More == kind # "match" /\ probe < Len(text)

\* Mutant: the probe is not advanced.
MissStays ==
  /\ pc = "probe"
  /\ Ends(re, text, probe) = {}
  /\ IF More
       THEN UNCHANGED <<probe, pc, rc>>
       ELSE /\ Finish(IF kind = "findall" THEN "OK" ELSE "NOMATCH")
            /\ UNCHANGED probe
  /\ UNCHANGED <<args, cursor, end, match, reported>>

\* It returned RX_NOMATCH: on to the next start, if there is one.
Miss ==
  /\ pc = "probe"
  /\ Ends(re, text, probe) = {}
  /\ IF More
       THEN probe' = probe + 1 /\ UNCHANGED <<pc, rc>>
       ELSE /\ Finish(IF kind = "findall" THEN "OK" ELSE "NOMATCH")
            /\ UNCHANGED probe
  /\ UNCHANGED <<args, cursor, end, match, reported>>

RunOutOfMemory ==
  /\ pc = "probe" /\ Finish("ESPACE")
  /\ UNCHANGED <<args, cursor, probe, end, match, reported>>

Filled == match' = IF nmatch = 0 THEN match ELSE <<ToInt(probe), ToInt(end)>>

\* fill_match
Fill ==
  /\ pc = "fill"
  /\ Filled
  /\ IF kind = "findall" THEN pc' = "report" /\ UNCHANGED rc ELSE Finish("OK")
  /\ UNCHANGED <<args, cursor, probe, end, reported>>

\* nfa_capture_span fails; the whole match has been written.
FillOutOfMemory ==
  /\ pc = "fill"
  /\ Groups > 0 /\ nmatch > 1
  /\ Filled
  /\ Finish("ESPACE")
  /\ UNCHANGED <<args, cursor, probe, end, reported>>

\* Mutant: always a byte behind the match.
BehindEnd(m) == ToSize(m[2] + 1)

\* Behind the match; behind an empty one, a byte further.
Behind(m) == IF m[2] > m[1] THEN ToSize(m[2]) ELSE ToSize(m[2] + 1)

\* The callback wants more.
Report ==
  /\ pc = "report"
  /\ delivered' = Append(delivered, match)
  /\ cursor' = Behind(match)
  /\ IF cursor' <= Len(text)
       THEN /\ probe' = cursor' /\ match' = NoSpan /\ pc' = "probe"
            /\ UNCHANGED rc
       ELSE Finish("OK") /\ UNCHANGED <<probe, match>>
  /\ UNCHANGED <<args, end, stopped>>

\* Mutant: the callback's 0 is ignored.
ReportLastGoesOn ==
  /\ pc = "report" /\ pc' = "probe"
  /\ delivered' = Append(delivered, match) /\ stopped' = TRUE
  /\ cursor' = Behind(match) /\ cursor' <= Len(text)
  /\ probe' = cursor' /\ match' = NoSpan
  /\ UNCHANGED <<args, end, rc>>

\* The callback returned 0.
ReportLast ==
  /\ pc = "report" /\ Finish("OK")
  /\ delivered' = Append(delivered, match) /\ stopped' = TRUE
  /\ UNCHANGED <<args, cursor, probe, end, match>>

Returned == pc = "done" /\ UNCHANGED vars

Next ==
  \/ Call \/ CallOutOfMemory
  \/ Hit \/ Miss \/ RunOutOfMemory
  \/ Fill \/ FillOutOfMemory
  \/ Report \/ ReportLast
  \/ Returned

\* A call is carried out to its end; that an allocation fails is never due.
Fairness == WF_vars(Next /\ rc' # "ESPACE")

Spec == Init /\ [][Next]_vars /\ Fairness

-----------------------------------------------------------------------------
\* The types.
TypeOK ==
  /\ re \in Regex /\ text \in Texts
  /\ kind \in {"match", "search", "findall"} /\ nmatch \in 0 .. Groups + 1
  /\ pc \in {"call", "probe", "fill", "report", "done"}
  /\ cursor \in 0 .. Len(text) + 1 /\ probe \in 0 .. Len(text)
  /\ kind = "match" => probe = 0
  /\ pc = "report" => kind = "findall" /\ nmatch = Groups + 1
  /\ rc \in {"RUN", "OK", "NOMATCH", "ESPACE"}

\* A place where a match could begin was delivered or lies in a match that was.
Covered(s) ==
  \E i \in DOMAIN delivered :
    \/ s = delivered[i][1]
    \/ delivered[i][1] < s /\ s < delivered[i][2]

\* findall misses no match: behind the matches reported so far nothing is
\* skipped, and when it returns RX_OK unasked nothing is left.
NothingMissed ==
  kind = "findall" =>
    /\ \A s \in 0 .. Len(text) :
         s < probe /\ Ends(re, text, s) # {} => Covered(s)
    /\ pc = "done" /\ rc = "OK" /\ ~ stopped =>
         \A s \in 0 .. Len(text) : Ends(re, text, s) # {} => Covered(s)

\* The promise: a match, found in one step.  While it is looked for, start by
\* start, nothing of the promise changes.
Promise ==
  INSTANCE Matching WITH
    behind <- cursor,
    stage <- CASE pc = "call"   -> "idle"
               [] pc = "report" -> "found"
               [] pc = "done"   -> "done"
               [] OTHER         -> "looking"

\* The calls implement Matching: regex_match may look at the longest match
\* only, and probing start by start delivers each time the first match behind
\* the one before.
KeepsContract == Promise!Spec

\* Every call returns; empty matches do not hold findall up.
Returns == <>(pc = "done")
=============================================================================
