----------------------------- MODULE SearchProofs -----------------------------
(***************************************************************************)
(* regex_match, regex_search and regex_findall keep their contract and     *)
(* findall misses nothing, for every expression, every text and every      *)
(* array of the caller, as long as an int holds every position.            *)
(***************************************************************************)
EXTENDS Search, AutomatonProofs

\* No position is truncated: neither on its way into rx_match_t nor back.
PositionsFit ==
  /\ MaxTextLen < 2 ^ (IntBits - 1)
  /\ MaxTextLen + 1 < 2 ^ SizeBits

-----------------------------------------------------------------------------
(* The inductive invariant. *)

\* The span that was found: the longest match that begins at `probe', and none
\* begins earlier.
NoneBefore == \A s \in cursor .. probe - 1 : Ends(re, text, s) = {}
Longest ==
  /\ end \in Ends(re, text, probe)
  /\ \A p \in Ends(re, text, probe) : p <= end

\* What each phase of a call may rely on.
Phases ==
  /\ delivered \in Seq(Int \X Int)
  /\ pc # "done" => rc = "RUN" /\ stopped = FALSE
  /\ pc \in {"call", "probe", "fill"} => match = NoSpan
  /\ pc = "call" => cursor = 0 /\ probe = 0 /\ delivered = <<>>
  /\ kind # "findall" => cursor = 0 /\ delivered = <<>>
  /\ kind = "findall" /\ pc # "call" => nmatch = Groups + 1
  /\ pc \in {"probe", "fill", "report"} => cursor <= probe /\ NoneBefore
  /\ pc \in {"fill", "report"} => Longest
  /\ pc = "fill" /\ kind = "match" => end = Len(text)
  /\ pc = "report" => match = <<probe, end>>

Inv == TypeOK /\ Phases /\ NothingMissed

-----------------------------------------------------------------------------
\* Texts are as long as the bound says, and the positions of a match lie in
\* them.
LEMMA TextLength ==
  ASSUME NEW t \in Texts
  PROVE  t \in Seq(Byte) /\ Len(t) \in 0 .. MaxTextLen
<1>1. t \in Seq(Byte)
  BY TextsType
<1>2. PICK k \in 0 .. MaxTextLen : t \in [1 .. k -> Byte]
  BY DEF Texts
<1>3. k \in Nat
  BY AutomatonAssumption
<1>4. Len(t) = k
  BY <1>1, <1>2, <1>3
<1> QED
  BY <1>1, <1>2, <1>4

\* A match ends behind its start.
LEMMA EndsRange ==
  ASSUME NEW r, NEW t, NEW s
  PROVE  Ends(r, t, s) \subseteq s .. Len(t)
BY DEF Ends

\* An interval that ends before it begins.
LEMMA NoneBetween ==
  ASSUME NEW k \in Int
  PROVE  k .. k - 1 = {}
OBVIOUS

\* Within the limits the conversions change nothing.
LEMMA ToIntExact ==
  ASSUME PositionsFit, NEW p \in 0 .. MaxTextLen
  PROVE  ToInt(p) = p
<1>1. IntBits - 1 \in Nat
  BY SearchAssumption DEF SearchAssumption
<1> DEFINE half == 2 ^ (IntBits - 1)
<1>2. half \in Int
  BY <1>1
<1>3. p < half /\ p \in Nat
  BY <1>2, AutomatonAssumption DEF PositionsFit
<1>4. ToInt(p) = ((p + half) % (2 * half)) - half
  BY DEF ToInt
<1> HIDE DEF half
<1> QED
  BY <1>2, <1>3, <1>4

\* The way back.
LEMMA ToSizeExact ==
  ASSUME PositionsFit, NEW p \in 0 .. MaxTextLen + 1
  PROVE  ToSize(p) = p
<1>1. SizeBits \in Nat
  BY SearchAssumption DEF SearchAssumption
<1> DEFINE size == 2 ^ SizeBits
<1>2. size \in Int
  BY <1>1
<1>3. p < size /\ p \in Nat
  BY <1>2, AutomatonAssumption DEF PositionsFit
<1>4. ToSize(p) = p % size
  BY DEF ToSize
<1> HIDE DEF size
<1> QED
  BY <1>2, <1>3, <1>4

\* Behind a match there is the next place to look, and a byte further if it is
\* empty.
LEMMA BehindIs ==
  ASSUME PositionsFit, NEW s \in 0 .. MaxTextLen, NEW e \in s .. MaxTextLen
  PROVE  /\ Behind(<<s, e>>) = IF e > s THEN e ELSE e + 1
         /\ Behind(<<s, e>>) \in s + 1 .. e + 1
<1>1. ToSize(e) = e /\ ToSize(e + 1) = e + 1
  BY ToSizeExact, AutomatonAssumption
<1>2. <<s, e>>[1] = s /\ <<s, e>>[2] = e
  OBVIOUS
<1>3. Behind(<<s, e>>) = IF e > s THEN e ELSE e + 1
  BY <1>1, <1>2 DEF Behind
<1> QED
  BY <1>3, AutomatonAssumption

-----------------------------------------------------------------------------
\* Before the call nothing has been looked at.
LEMMA InvInit == Init => Inv
<1> SUFFICES ASSUME Init PROVE Inv
  OBVIOUS
<1>1. text \in Texts /\ Len(text) = 0 /\ Groups \in Nat
  BY TextsType, SearchAssumption DEF Init, Groups, SearchAssumption
<1>2. TypeOK
  BY <1>1 DEF Init, TypeOK
<1>3. Phases
  BY DEF Init, Phases
<1>4. NothingMissed
  BY DEF Init, NothingMissed
<1> QED
  BY <1>2, <1>3, <1>4 DEF Inv

\* What the types say of the values that the steps compute with.
LEMMA InvFacts ==
  ASSUME Inv
  PROVE  /\ text \in Seq(Byte) /\ Len(text) \in 0 .. MaxTextLen
         /\ Groups \in Nat /\ probe \in 0 .. Len(text)
         /\ cursor \in 0 .. Len(text) + 1
         /\ pc \in {"fill", "report"} => end \in probe .. Len(text)
<1>1. text \in Texts /\ re \in Regex /\ Groups \in Nat
  BY SearchAssumption DEF Inv, TypeOK, Groups, SearchAssumption
<1>2. probe \in 0 .. Len(text) /\ cursor \in 0 .. Len(text) + 1
  BY DEF Inv, TypeOK
<1>3. pc \in {"fill", "report"} => end \in probe .. Len(text)
  BY EndsRange DEF Inv, Phases, Longest
<1> QED
  BY <1>1, <1>2, <1>3, TextLength

\* The groups are those of the expression.
LEMMA GroupsKept == re' = re => Groups' = Groups
BY DEF Groups

\* The call begins at the start of the text.
LEMMA CallStep == Inv /\ (Call \/ CallOutOfMemory) => Inv'
<1> SUFFICES ASSUME Inv, Call \/ CallOutOfMemory PROVE Inv'
  OBVIOUS
<1>0. Groups \in Nat /\ Groups' = Groups
  BY InvFacts, GroupsKept DEF Call, CallOutOfMemory
<1>1. /\ text' \in Texts /\ re' = re /\ re \in Regex
      /\ probe' = 0 /\ cursor' = 0 /\ delivered' = <<>> /\ stopped' = FALSE /\ match' = NoSpan
      /\ kind' \in {"match", "search", "findall"} /\ nmatch' \in 0 .. Groups + 1
      /\ kind' = "findall" => nmatch' = Groups + 1
  BY <1>0 DEF Call, CallOutOfMemory, Finish, reported, Inv, TypeOK, Phases
<1>2. \/ pc' = "probe" /\ rc' = "RUN"
      \/ pc' = "done" /\ rc' = "ESPACE"
  BY DEF Call, CallOutOfMemory, Finish, reported, Inv, Phases
<1>3. Len(text') \in Nat
  BY <1>1, TextLength
<1>4. TypeOK'
  BY <1>0, <1>1, <1>2, <1>3 DEF TypeOK
<1>5. Phases'
  BY <1>0, <1>1, <1>2 DEF Phases, NoneBefore
<1>6. NothingMissed'
  BY <1>1, <1>2, <1>3 DEF NothingMissed
<1> QED
  BY <1>4, <1>5, <1>6 DEF Inv

\* A hit is filled in or, for regex_match, refused.
LEMMA HitStep == Inv /\ Hit => Inv'
<1> SUFFICES ASSUME Inv, Hit PROVE Inv'
  OBVIOUS
<1>1. /\ UNCHANGED <<args, cursor, probe, match, reported, Groups>> /\ pc = "probe"
      /\ end' \in Ends(re, text, probe)
      /\ \A p \in Ends(re, text, probe) : p <= end'
  BY GroupsKept DEF Hit, args
<1>2. \/ pc' = "done" /\ rc' = "NOMATCH" /\ kind = "match" /\ end' # Len(text)
      \/ pc' = "fill" /\ rc' = rc /\ (kind = "match" => end' = Len(text))
  BY DEF Hit, Finish
<1>3. TypeOK'
  BY <1>1, <1>2 DEF Inv, TypeOK, args
<1>4. Phases'
  BY <1>1, <1>2 DEF Inv, Phases, NoneBefore, Longest, args, reported
<1>5. NothingMissed'
  BY <1>1, <1>2 DEF Inv, NothingMissed, Covered, args, reported
<1> QED
  BY <1>3, <1>4, <1>5 DEF Inv

\* A miss rules out one start more.
LEMMA MissStep == Inv /\ Miss => Inv'
<1> SUFFICES ASSUME Inv, Miss PROVE Inv'
  OBVIOUS
<1>1. /\ UNCHANGED <<args, cursor, match, reported, Groups, end>> /\ pc = "probe"
      /\ Ends(re, text, probe) = {} /\ rc = "RUN"
      /\ cursor \in Nat /\ probe \in Nat /\ Len(text) \in Nat
      /\ cursor <= probe /\ probe <= Len(text)
  <2>1. UNCHANGED <<args, cursor, match, reported, Groups, end>> /\ pc = "probe"
    BY GroupsKept DEF Miss, args
  <2>2. Ends(re, text, probe) = {} /\ rc = "RUN" /\ cursor <= probe
    BY <2>1 DEF Miss, Inv, Phases
  <2> QED
    BY <2>1, <2>2, InvFacts
<1>2. CASE More
  <2>1. /\ probe' = probe + 1 /\ pc' = pc /\ rc' = rc
        /\ kind # "match" /\ probe < Len(text)
    BY <1>2 DEF Miss, More
  <2>2. TypeOK'
    BY <1>1, <2>1 DEF Inv, TypeOK, args
  <2>3. \A s \in cursor .. probe' - 1 : s = probe \/ s \in cursor .. probe - 1
    BY <1>1, <2>1
  <2>4. NoneBefore'
    BY <1>1, <2>3 DEF NoneBefore, Inv, Phases, args
  <2>5. Phases'
    BY <1>1, <2>1, <2>4 DEF Inv, Phases, args, reported
  <2>6. \A s \in 0 .. Len(text) : s < probe' => s = probe \/ s < probe
    BY <1>1, <2>1
  <2>7. NothingMissed'
    BY <1>1, <2>1, <2>6 DEF Inv, NothingMissed, Covered, args, reported
  <2> QED
    BY <2>2, <2>5, <2>7 DEF Inv
<1>3. CASE ~ More
  <2>1. /\ probe' = probe /\ pc' = "done"
        /\ rc' = IF kind = "findall" THEN "OK" ELSE "NOMATCH"
        /\ kind = "match" \/ probe = Len(text)
    BY <1>1, <1>3 DEF Miss, More, Finish
  <2>2. TypeOK'
    BY <1>1, <2>1 DEF Inv, TypeOK, args
  <2>3. Phases'
    BY <1>1, <2>1 DEF Inv, Phases, args, reported
  <2>4. kind = "findall" => \A s \in 0 .. Len(text) : s = probe \/ s < probe
    BY <1>1, <2>1
  <2>5. NothingMissed'
    BY <1>1, <2>1, <2>4 DEF Inv, NothingMissed, Covered, args, reported
  <2> QED
    BY <2>2, <2>3, <2>5 DEF Inv
<1> QED
  BY <1>2, <1>3

\* What fill_match writes is the span, unless there is no room for it.
LEMMA FilledIs ==
  ASSUME PositionsFit, Inv, pc = "fill", Filled
  PROVE  match' = IF nmatch = 0 THEN NoSpan ELSE <<probe, end>>
<1>1. probe \in 0 .. MaxTextLen /\ end \in 0 .. MaxTextLen
  BY InvFacts, AutomatonAssumption
<1>2. ToInt(probe) = probe /\ ToInt(end) = end
  BY <1>1, ToIntExact
<1> QED
  BY <1>2 DEF Filled, Inv, Phases

\* The span is written.
LEMMA FillStep == PositionsFit /\ Inv /\ (Fill \/ FillOutOfMemory) => Inv'
<1> SUFFICES ASSUME PositionsFit, Inv, Fill \/ FillOutOfMemory PROVE Inv'
  OBVIOUS
<1>1. /\ UNCHANGED <<args, cursor, probe, end, reported, Groups>> /\ pc = "fill"
      /\ match' = IF nmatch = 0 THEN NoSpan ELSE <<probe, end>>
      /\ Groups \in Nat
  BY FilledIs, InvFacts, GroupsKept DEF Fill, FillOutOfMemory, args
<1>2. \/ pc' = "done" /\ rc' \in {"OK", "ESPACE"} /\ (rc' = "OK" => kind # "findall")
      \/ pc' = "report" /\ rc' = rc /\ kind = "findall"
  BY DEF Fill, FillOutOfMemory, Finish
<1>3. kind = "findall" => nmatch = Groups + 1 /\ nmatch # 0
  BY <1>1 DEF Inv, Phases
<1>4. TypeOK'
  BY <1>1, <1>2, <1>3 DEF Inv, TypeOK, args
<1>5. Phases'
  BY <1>1, <1>2, <1>3 DEF Inv, Phases, NoneBefore, Longest, args, reported
<1>6. NothingMissed'
  BY <1>1, <1>2 DEF Inv, NothingMissed, Covered, args, reported
<1> QED
  BY <1>4, <1>5, <1>6 DEF Inv

\* What was covered stays so, and a reported match covers all of its places
\* but the last.
LEMMA CoveredMore ==
  ASSUME delivered \in Seq(Int \X Int), match \in Int \X Int,
         delivered' = Append(delivered, match)
  PROVE  /\ delivered' \in Seq(Int \X Int)
         /\ \A s : Covered(s) => Covered(s)'
         /\ \A s : s = match[1] \/ (match[1] < s /\ s < match[2]) => Covered(s)'
<1>1. /\ delivered' \in Seq(Int \X Int) /\ Len(delivered') = Len(delivered) + 1
      /\ \A i \in DOMAIN delivered : i \in DOMAIN delivered' /\ delivered'[i] = delivered[i]
      /\ Len(delivered) + 1 \in DOMAIN delivered'
      /\ delivered'[Len(delivered) + 1] = match
  OBVIOUS
<1> QED
  BY <1>1 DEF Covered

\* The callback sees the match, and the search goes on behind it, if it does.
LEMMA ReportStep == PositionsFit /\ Inv /\ (Report \/ ReportLast) => Inv'
<1> SUFFICES ASSUME PositionsFit, Inv, Report \/ ReportLast PROVE Inv'
  OBVIOUS
<1>1. /\ UNCHANGED <<args, end, Groups>> /\ pc = "report" /\ kind = "findall"
      /\ delivered' = Append(delivered, match) /\ delivered \in Seq(Int \X Int)
      /\ match = <<probe, end>> /\ match[1] = probe /\ match[2] = end
      /\ nmatch = Groups + 1 /\ rc = "RUN"
  BY GroupsKept DEF Report, ReportLast, Finish, args, Inv, TypeOK, Phases
<1>2. /\ Len(text) \in 0 .. MaxTextLen /\ probe \in 0 .. Len(text)
      /\ end \in probe .. Len(text) /\ cursor \in 0 .. Len(text) + 1 /\ MaxTextLen \in Nat
  BY <1>1, InvFacts, AutomatonAssumption
<1>3. /\ delivered' \in Seq(Int \X Int)
      /\ \A s : Covered(s) => Covered(s)'
      /\ \A s : s = probe \/ (probe < s /\ s < end) => Covered(s)'
  BY <1>1, <1>2, CoveredMore
<1>4. \A s \in 0 .. Len(text) : s < probe /\ Ends(re, text, s) # {} => Covered(s)
  BY <1>1 DEF Inv, NothingMissed
<1>5. CASE ReportLast
  <2>1. /\ pc' = "done" /\ rc' = "OK" /\ stopped' = TRUE
        /\ UNCHANGED <<cursor, probe, match>>
    BY <1>5 DEF ReportLast, Finish
  <2>2. TypeOK'
    BY <1>1, <2>1 DEF Inv, TypeOK, args
  <2>3. Phases'
    BY <1>1, <1>3, <2>1 DEF Inv, Phases, args
  <2>4. NothingMissed'
    BY <1>1, <1>3, <1>4, <2>1 DEF NothingMissed, args
  <2> QED
    BY <2>2, <2>3, <2>4 DEF Inv
<1>6. CASE Report
  <2>1. /\ stopped' = stopped /\ stopped = FALSE
        /\ cursor' = IF end > probe THEN end ELSE end + 1
        /\ cursor' \in probe + 1 .. end + 1
    BY <1>1, <1>2, <1>6, BehindIs DEF Report, Inv, Phases
  <2>2. \A s \in 0 .. Len(text) : s < cursor' =>
          s < probe \/ s = probe \/ (probe < s /\ s < end)
    BY <1>2, <2>1
  <2>3. \A s \in 0 .. Len(text) : s < cursor' /\ Ends(re, text, s) # {} => Covered(s)'
    BY <1>3, <1>4, <2>2
  <2>4. CASE cursor' <= Len(text)
    <3>1. probe' = cursor' /\ match' = NoSpan /\ pc' = "probe" /\ rc' = rc
      BY <1>6, <2>4 DEF Report
    <3>2. probe' \in 0 .. Len(text) /\ cursor' \in 0 .. Len(text) + 1
      BY <1>2, <2>1, <2>4, <3>1
    <3>3. TypeOK'
      BY <1>1, <3>1, <3>2 DEF Inv, TypeOK, args
    <3>4. NoneBefore'
      <4>1. cursor' \in Int
        BY <1>2, <3>2
      <4>2. cursor' .. cursor' - 1 = {}
        BY <4>1, NoneBetween
      <4> QED
        BY <3>1, <4>2, Zenon DEF NoneBefore
    <3>5. Phases'
      BY <1>1, <1>3, <2>1, <3>1, <3>2, <3>4 DEF Inv, Phases, args
    <3>6. NothingMissed'
      BY <1>1, <2>3, <3>1 DEF NothingMissed, args
    <3> QED
      BY <3>3, <3>5, <3>6 DEF Inv
  <2>5. CASE ~ cursor' <= Len(text)
    <3>1. probe' = probe /\ match' = match /\ pc' = "done" /\ rc' = "OK"
      BY <1>6, <2>5 DEF Report, Finish
    <3>2. cursor' \in 0 .. Len(text) + 1 /\ \A s \in 0 .. Len(text) : s < cursor'
      BY <1>2, <2>1, <2>5
    <3>3. TypeOK'
      BY <1>1, <3>1, <3>2 DEF Inv, TypeOK, args
    <3>4. Phases'
      BY <1>1, <1>3, <2>1, <3>1 DEF Inv, Phases, args
    <3>5. NothingMissed'
      BY <1>1, <2>3, <3>1, <3>2 DEF NothingMissed, args
    <3> QED
      BY <3>3, <3>4, <3>5 DEF Inv
  <2> QED
    BY <2>4, <2>5
<1> QED
  BY <1>5, <1>6

\* Giving up for want of memory, and what is left of the call.
LEMMA OtherStep == Inv /\ (RunOutOfMemory \/ UNCHANGED vars) => Inv'
<1>1. CASE RunOutOfMemory
  <2>1. /\ UNCHANGED <<args, cursor, probe, end, match, reported, Groups>>
        /\ pc = "probe" /\ pc' = "done" /\ rc' = "ESPACE"
    BY <1>1, GroupsKept DEF RunOutOfMemory, Finish, args
  <2>2. Inv => TypeOK'
    BY <2>1 DEF Inv, TypeOK, args
  <2>3. Inv => Phases'
    BY <2>1 DEF Inv, Phases, args, reported
  <2>4. Inv => NothingMissed'
    BY <2>1 DEF Inv, NothingMissed, Covered, args, reported
  <2> QED
    BY <2>2, <2>3, <2>4 DEF Inv
<1>2. CASE UNCHANGED vars
  BY <1>2 DEF vars, args, reported, Inv, TypeOK, Phases, NothingMissed, Covered,
              NoneBefore, Longest, Groups
<1> QED
  BY <1>1, <1>2

\* Every step keeps the invariant.
LEMMA InvStep == PositionsFit /\ Inv /\ [Next]_vars => Inv'
BY CallStep, HitStep, MissStep, FillStep, ReportStep, OtherStep DEF Next, Returned

-----------------------------------------------------------------------------
(* The contract. *)

\* It speaks of the same texts and of the same ends of matches.
LEMMA PromiseSame ==
  /\ Promise!Texts = Texts /\ Promise!Regex = Regex
  /\ \A r, t, s : Promise!Ends(r, t, s) = Ends(r, t, s)
<1>1. Promise!Texts = Texts /\ Promise!Regex = Regex
  BY DEF Promise!Texts, Promise!Byte, Promise!Regex, Texts, Byte, Regex
<1>2. ASSUME NEW r, NEW t, NEW s
      PROVE  Promise!Ends(r, t, s) = Ends(r, t, s)
  BY Zenon DEF Promise!Ends, Promise!Live, Promise!Closure, Promise!Move,
     Promise!Spread, Promise!EpsTargets, Promise!ByteTargets, Promise!CanTake,
     Promise!Consumes, Promise!Out, Promise!State, Promise!Nfa, Promise!Regex,
     Ends, Live, Closure, Move, Spread, EpsTargets, ByteTargets, CanTake,
     Consumes, Out, State, Nfa, Regex
<1> QED
  BY <1>1, <1>2

\* What was found is the first match behind `cursor'.
LEMMA FoundIsFirst ==
  ASSUME Inv, pc \in {"fill", "report"}
  PROVE  Promise!IsFirst(<<probe, end>>, cursor)
<1> DEFINE m == <<probe, end>>
<1>1. /\ Len(text) \in Nat /\ probe \in cursor .. Len(text)
      /\ end \in probe .. Len(text) /\ cursor \in Nat
      /\ m[1] = probe /\ m[2] = end
  <2>1. cursor <= probe
    BY DEF Inv, Phases
  <2> QED
    BY <2>1, InvFacts
<1>2. end \in cursor .. Len(text)
  BY <1>1
<1>3. /\ NoneBefore /\ end \in Ends(re, text, probe)
      /\ \A p \in Ends(re, text, probe) : p <= end
  BY DEF Inv, Phases, Longest
<1>4. m \in Promise!Matches(cursor)
  <2>1. m \in (cursor .. Len(text)) \X (cursor .. Len(text))
    BY <1>1, <1>2
  <2>2. m[2] \in Promise!Ends(re, text, m[1])
    BY <1>1, <1>3, PromiseSame
  <2> QED
    BY <2>1, <2>2, Zenon DEF Promise!Matches
<1>5. ASSUME NEW x \in Promise!Matches(cursor)
      PROVE  m[1] < x[1] \/ (m[1] = x[1] /\ x[2] <= m[2])
  <2>1. x[1] \in cursor .. Len(text) /\ x[2] \in Ends(re, text, x[1])
    BY <1>5, PromiseSame DEF Promise!Matches
  <2>2. x[1] \notin cursor .. probe - 1
    BY <1>3, <2>1 DEF NoneBefore
  <2>3. x[1] = probe \/ probe < x[1]
    BY <1>1, <2>1, <2>2
  <2> QED
    BY <1>1, <1>3, <2>1, <2>3
<1> QED
  BY <1>4, <1>5, Zenon DEF Promise!IsFirst

\* Where the last probe missed there is no match behind `cursor'.
LEMMA NoneLeft ==
  ASSUME Inv, pc = "probe", Ends(re, text, probe) = {}, probe = Len(text)
  PROVE  Promise!Matches(cursor) = {}
<1>1. Len(text) \in Nat /\ cursor \in Nat
  BY InvFacts
<1>2. \A s \in cursor .. Len(text) : s = Len(text) \/ s \in cursor .. probe - 1
  BY <1>1
<1>3. \A s \in cursor .. Len(text) : Ends(re, text, s) = {}
  BY <1>2 DEF Inv, Phases, NoneBefore
<1> QED
  BY <1>3, PromiseSame DEF Promise!Matches

\* A step of a call is a step of the contract or changes nothing of it.
LEMMA PromiseCall == Inv /\ (Call \/ CallOutOfMemory) => Promise!Next
<1> SUFFICES ASSUME Inv, Call \/ CallOutOfMemory PROVE Promise!Next
  OBVIOUS
<1>1. match = NoSpan /\ re \in Regex /\ Groups = Compiled[re].groups
  BY DEF Call, CallOutOfMemory, Inv, Phases, TypeOK, Groups, CaptureCount
<1>2. CASE Call
  <2>1. Promise!Call
    BY <1>1, <1>2, PromiseSame DEF Call, reported, Promise!Call, Promise!reported
  <2> QED
    BY <2>1 DEF Promise!Next
<1>3. CASE CallOutOfMemory
  <2>1. Promise!NotBegun
    BY <1>1, <1>3, PromiseSame
       DEF CallOutOfMemory, Finish, reported, Promise!NotBegun, Promise!reported
  <2> QED
    BY <2>1 DEF Promise!Next
<1> QED
  BY <1>2, <1>3

\* A hit is visible only if regex_match needed the whole text.
LEMMA PromiseHit == Inv /\ Hit => [Promise!Next]_(Promise!vars)
<1> SUFFICES ASSUME Inv, Hit PROVE [Promise!Next]_(Promise!vars)
  OBVIOUS
<1>1. /\ UNCHANGED <<args, cursor, match, reported>> /\ pc = "probe"
      /\ end' \in Ends(re, text, probe)
      /\ \A p \in Ends(re, text, probe) : p <= end'
  BY DEF Hit
<1>2. CASE kind = "match" /\ end' # Len(text)
  <2>1. pc' = "done" /\ rc' = "NOMATCH" /\ probe = 0
    BY <1>1, <1>2 DEF Hit, Finish, Inv, TypeOK
  <2>2. end' \in 0 .. Len(text) /\ Len(text) \in Nat
    BY <1>1, <2>1, EndsRange, InvFacts
  <2>3. Len(text) \notin Ends(re, text, 0)
    BY <1>1, <1>2, <2>1, <2>2
  <2>4. Promise!NotWhole
    BY <1>1, <1>2, <2>1, <2>3, PromiseSame
       DEF args, reported, Promise!NotWhole, Promise!Answer, Promise!args, Promise!reported
  <2> QED
    BY <2>4 DEF Promise!Next
<1>3. CASE ~ (kind = "match" /\ end' # Len(text))
  <2>1. pc' = "fill" /\ rc' = rc
    BY <1>3 DEF Hit
  <2> QED
    BY <1>1, <2>1 DEF args, reported, Promise!vars, Promise!args, Promise!reported
<1> QED
  BY <1>2, <1>3

\* A miss is visible only when it is the last one.
LEMMA PromiseMiss == Inv /\ Miss => [Promise!Next]_(Promise!vars)
<1> SUFFICES ASSUME Inv, Miss PROVE [Promise!Next]_(Promise!vars)
  OBVIOUS
<1>1. /\ UNCHANGED <<args, cursor, match, reported>> /\ pc = "probe"
      /\ Ends(re, text, probe) = {}
  BY DEF Miss
<1>2. CASE More
  BY <1>1, <1>2 DEF Miss, args, reported, Promise!vars, Promise!args, Promise!reported
<1>3. CASE ~ More
  <2>1. pc' = "done" /\ rc' = IF kind = "findall" THEN "OK" ELSE "NOMATCH"
    BY <1>3 DEF Miss, Finish
  <2>2. kind # "match" => Promise!Matches(cursor) = {}
    BY <1>1, <1>3, InvFacts, NoneLeft DEF More
  <2>3. CASE kind = "match"
    <3>1. probe = 0 /\ Len(text) \notin Ends(re, text, 0)
      BY <1>1, <2>3 DEF Inv, TypeOK
    <3>2. Promise!NotWhole
      BY <1>1, <2>1, <2>3, <3>1, PromiseSame
         DEF args, reported, Promise!NotWhole, Promise!Answer, Promise!args, Promise!reported
    <3> QED
      BY <3>2 DEF Promise!Next
  <2>4. CASE kind = "search"
    <3>1. cursor = 0
      BY <2>4 DEF Inv, Phases
    <3>2. Promise!Nowhere
      BY <1>1, <2>1, <2>2, <2>4, <3>1
         DEF args, reported, Promise!Nowhere, Promise!Answer, Promise!args, Promise!reported
    <3> QED
      BY <3>2 DEF Promise!Next
  <2>5. CASE kind = "findall"
    <3>1. Promise!NoMore
      BY <1>1, <2>1, <2>2, <2>5
         DEF args, reported, Promise!NoMore, Promise!Answer, Promise!args, Promise!reported
    <3> QED
      BY <3>1 DEF Promise!Next
  <2> QED
    BY <2>3, <2>4, <2>5 DEF Inv, TypeOK
<1> QED
  BY <1>2, <1>3

\* A match that is filled in was found.
LEMMA PromiseFill ==
  PositionsFit /\ Inv /\ (Fill \/ FillOutOfMemory) => Promise!Next
<1> SUFFICES ASSUME PositionsFit, Inv, Fill \/ FillOutOfMemory PROVE Promise!Next
  OBVIOUS
<1>1. /\ UNCHANGED <<args, cursor, reported>> /\ pc = "fill"
      /\ match' = IF nmatch = 0 THEN NoSpan ELSE <<probe, end>>
      /\ kind # "findall" => cursor = 0
      /\ kind = "match" => probe = 0 /\ end = Len(text)
  BY FilledIs DEF Fill, FillOutOfMemory, Inv, TypeOK, Phases
<1>2. Promise!IsFirst(<<probe, end>>, cursor)
  BY <1>1, FoundIsFirst
<1>3. match' = Promise!Shown(<<probe, end>>)
  BY <1>1 DEF Promise!Shown, Promise!NoSpan, NoSpan
<1>4. <<probe, end>> \in Promise!Matches(cursor)
  BY <1>2, Zenon DEF Promise!IsFirst
<1>5. CASE Fill /\ kind = "match"
  <2>1. pc' = "done" /\ rc' = "OK"
    BY <1>5 DEF Fill, Finish
  <2>2. Len(text) \in Ends(re, text, 0)
    BY <1>1, <1>5 DEF Inv, Phases, Longest
  <2>3. Promise!Whole
    BY <1>1, <1>3, <1>5, <2>1, <2>2, PromiseSame
       DEF args, reported, Promise!Whole, Promise!Answer, Promise!args, Promise!reported
  <2> QED
    BY <2>3 DEF Promise!Next
<1>6. CASE Fill /\ kind = "search"
  <2>1. pc' = "done" /\ rc' = "OK"
    BY <1>6 DEF Fill, Finish
  <2>2. <<probe, end>> \in Promise!Matches(0) /\ Promise!IsFirst(<<probe, end>>, 0)
    BY <1>1, <1>2, <1>4, <1>6
  <2>3. Promise!First
    BY <1>1, <1>3, <1>6, <2>1, <2>2
       DEF args, reported, Promise!First, Promise!Answer, Promise!args, Promise!reported
  <2> QED
    BY <2>3 DEF Promise!Next
<1>7. CASE Fill /\ kind = "findall"
  <2>1. pc' = "report" /\ rc' = rc
    BY <1>7 DEF Fill
  <2>2. match' = <<probe, end>>
    <3>1. nmatch = Groups + 1
      BY <1>1, <1>7 DEF Inv, Phases
    <3> QED
      BY <1>1, <3>1, InvFacts
  <2>3. Promise!Find
    BY <1>1, <1>2, <1>4, <1>7, <2>1, <2>2
       DEF args, reported, Promise!Find, Promise!args, Promise!reported
  <2> QED
    BY <2>3 DEF Promise!Next
<1>8. CASE FillOutOfMemory
  <2>1. pc' = "done" /\ rc' = "ESPACE"
    BY <1>8 DEF FillOutOfMemory, Finish
  <2>2. match' = <<probe, end>>
    BY <1>1, <1>8, InvFacts DEF FillOutOfMemory
  <2>3. Promise!OutOfMemory
    BY <1>1, <1>2, <1>4, <2>1, <2>2
       DEF args, reported, Promise!OutOfMemory, Promise!Answer, Promise!args, Promise!reported
  <2> QED
    BY <2>3 DEF Promise!Next
<1> QED
  BY <1>5, <1>6, <1>7, <1>8 DEF Inv, TypeOK

\* What is delivered is the next match.
LEMMA PromiseReport == PositionsFit /\ Inv /\ (Report \/ ReportLast) => Promise!Next
<1> SUFFICES ASSUME PositionsFit, Inv, Report \/ ReportLast PROVE Promise!Deliver
  BY DEF Promise!Next
<1>1. /\ UNCHANGED args /\ pc = "report" /\ delivered' = Append(delivered, match)
      /\ match = <<probe, end>> /\ match[1] = probe /\ match[2] = end
  BY DEF Report, ReportLast, Inv, Phases
<1>2. /\ Len(text) \in 0 .. MaxTextLen /\ probe \in 0 .. Len(text)
      /\ end \in probe .. Len(text) /\ MaxTextLen \in Nat
  BY <1>1, InvFacts, AutomatonAssumption
<1>3. CASE Report
  <2>1. cursor' = IF end > probe THEN end ELSE end + 1
    BY <1>1, <1>2, <1>3, BehindIs DEF Report
  <2>2. cursor' = IF match[1] = match[2] THEN match[2] + 1 ELSE match[2]
    BY <1>1, <1>2, <2>1
  <2>3. stopped' = stopped
    BY <1>3 DEF Report
  <2>4. CASE cursor' <= Len(text)
    <3>1. match' = NoSpan /\ pc' = "probe" /\ rc' = rc /\ text' = text
      BY <1>1, <1>3, <2>4 DEF Report, args
    <3> QED
      BY <1>1, <2>2, <2>3, <2>4, <3>1
         DEF args, NoSpan, Promise!Deliver, Promise!args, Promise!NoSpan
  <2>5. CASE ~ cursor' <= Len(text)
    <3>1. match' = match /\ pc' = "done" /\ rc' = "OK" /\ text' = text
      BY <1>1, <1>3, <2>5 DEF Report, Finish, args
    <3> QED
      BY <1>1, <2>2, <2>3, <2>5, <3>1 DEF args, Promise!Deliver, Promise!args
  <2> QED
    BY <2>4, <2>5
<1>4. CASE ReportLast
  BY <1>1, <1>4 DEF ReportLast, Finish, args, Promise!Deliver, Promise!args
<1> QED
  BY <1>3, <1>4

\* Every step is one of Matching, or is not visible.
LEMMA PromiseStep == PositionsFit /\ Inv /\ [Next]_vars => [Promise!Next]_(Promise!vars)
<1> SUFFICES ASSUME PositionsFit, Inv, [Next]_vars PROVE [Promise!Next]_(Promise!vars)
  OBVIOUS
<1>1. CASE RunOutOfMemory
  <2>1. Promise!OutOfMemory
    BY <1>1 DEF RunOutOfMemory, Finish, args, reported, Promise!OutOfMemory,
                Promise!Answer, Promise!args, Promise!reported
  <2> QED
    BY <2>1 DEF Promise!Next
<1>2. CASE UNCHANGED vars
  BY <1>2 DEF vars, args, reported, Promise!vars, Promise!args, Promise!reported
<1> QED
  BY <1>1, <1>2, PromiseCall, PromiseHit, PromiseMiss, PromiseFill, PromiseReport
     DEF Next, Returned

\* The contract begins where the call does.
LEMMA PromiseInit == Init => Promise!Init
BY PromiseSame DEF Init, NoSpan, Promise!Init, Promise!NoSpan

-----------------------------------------------------------------------------
\* The invariant holds as long as positions fit.
LEMMA Invariance == PositionsFit => (Spec => []Inv)
<1> SUFFICES ASSUME PositionsFit PROVE Spec => []Inv
  OBVIOUS
<1>1. Inv /\ [Next]_vars => Inv'
  BY InvStep
<1> QED
  BY <1>1, InvInit, PTL DEF Spec

\* Every probe, and every place where the search goes on, lies in the text.
THEOREM TypeCorrect == PositionsFit => (Spec => []TypeOK)
<1>1. Inv => TypeOK
  BY DEF Inv
<1> QED
  BY <1>1, Invariance, PTL

\* regex_findall misses no match, for every expression and every text.
THEOREM FindallIsComplete == PositionsFit => (Spec => []NothingMissed)
<1>1. Inv => NothingMissed
  BY DEF Inv
<1> QED
  BY <1>1, Invariance, PTL

\* regex_match, regex_search and regex_findall implement Matching.
THEOREM SearchRefines == PositionsFit => (Spec => KeepsContract)
<1> SUFFICES ASSUME PositionsFit PROVE Spec => KeepsContract
  OBVIOUS
<1>1. Inv /\ [Next]_vars => Inv'
  BY InvStep
<1>2. Inv /\ [Next]_vars => [Promise!Next]_(Promise!vars)
  BY PromiseStep
<1> QED
  BY <1>1, <1>2, InvInit, PromiseInit, PTL DEF Spec, KeepsContract, Promise!Spec
=============================================================================
