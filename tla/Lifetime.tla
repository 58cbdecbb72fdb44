------------------------------- MODULE Lifetime -------------------------------
(***************************************************************************)
(* What is allocated and freed from regex_compile_ex to regex_free, with   *)
(* every allocation failing wherever it can: the object, its pattern,      *)
(* tree and automata, the temporary arrays of their construction, and      *)
(* those of the calls that match.  A block is known by what it is for and, *)
(* where there are many, by its index.                                     *)
(*                                                                         *)
(* `re' holds the blocks that the fields of the object point to, `locals'  *)
(* those that only local variables do.  What the automata are is left to   *)
(* the other modules: how many states they get, which arrays must grow and *)
(* which states merge is open.                                             *)
(***************************************************************************)
EXTENDS Integers, FiniteSets

CONSTANTS
  MaxNfaStates,    \* bounds the states of the NFA
  MaxDfaStates     \* RX_DFA_STATE_LIMIT

LifetimeAssumption ==
  /\ MaxNfaStates \in Nat \ {0, 1}
  /\ MaxDfaStates \in Nat \ {0}

ASSUME LifetimeAssumption

VARIABLES
  heap,      \* the blocks that are allocated
  twice,     \* those that were freed without being allocated
  lost,      \* those that rx_parse_pattern lost
  re,        \* where the fields of the object point
  locals,    \* where local variables do
  nfaLen,    \* re->nfa.len
  dfaLen,    \* re->dfa.len
  flags,     \* "NONE" or "DFA"
  out,       \* what the caller's pointer is
  rc,        \* the status of the call; "RUN" before there is one
  pc         \* where the call is, "idle" outside

memory == <<heap, twice, lost>>
lens == <<nfaLen, dfaLen>>
object == <<re, lens, flags>>
vars == <<memory, object, locals, out, rc, pc>>

-----------------------------------------------------------------------------
\* The values of the caller's pointer; the last one also stands for a variable
\* that was not initialized.
Null == "null"
Object == "object"
Freed == "freed"

\* The blocks of which there is one.
The(names) == names \X {0}

Items(i) == <<"nfa.items", i>>
NfaSet(i) == <<"nfa_set", i>>
NewSet(i) == <<"new_set", i>>

\* malloc, calloc and realloc that succeed, then free of what is not NULL; of
\* the blocks wanted some were got.
Change(got, wanted, freed) ==
  /\ heap' = (heap \cup got) \ freed
  /\ twice' = twice \cup ((freed \ wanted) \ heap)

\* All are got, or some are not, and what was got is freed with `more'.
Allocate(blocks) == Change(blocks, blocks, {}) /\ UNCHANGED lost
AllocateOrFree(blocks, freed) ==
  /\ \E got \in (SUBSET blocks) \ {blocks} : Change(got, blocks, freed)
  /\ UNCHANGED lost

Free(blocks) == Change({}, {}, blocks)

\* A block of the object; local arrays.
Own(block) ==
  /\ Allocate({block}) /\ re' = re \cup {block}
  /\ UNCHANGED <<flags, locals, out, rc>>
Take(blocks) ==
  /\ Allocate(blocks) /\ locals' = locals \cup blocks
  /\ UNCHANGED <<object, out, rc>>
Drop(blocks) ==
  Free(blocks) /\ locals' = locals \ blocks /\ UNCHANGED <<lost, out>>

Goto(label) == pc' = label
Return(status) == pc' = "idle" /\ rc' = status

Init ==
  /\ heap = {} /\ twice = {} /\ lost = {}
  /\ re = {} /\ locals = {} /\ nfaLen = 0 /\ dfaLen = 0 /\ flags = "NONE"
  /\ out \in {Null, Freed} /\ rc = "OK" /\ pc = "idle"

-----------------------------------------------------------------------------
(* regex_free *)

NfaFree == re \cap (The({"nfa.states"}) \cup {Items(i) : i \in 1 .. nfaLen})
DfaFree == re \cap (The({"dfa.states", "hash_buckets"}) \cup {NfaSet(i) : i \in 1 .. dfaLen})

\* What regex_free reaches from the object.
Reachable == The({"re"}) \cup (re \cap The({"pattern", "ast"})) \cup NfaFree \cup DfaFree

Forget == re' = {} /\ nfaLen' = 0 /\ dfaLen' = 0

\* The caller's pointer is left as it is.
RegexFree ==
  /\ pc = "idle" /\ out = Object
  /\ Free(Reachable) /\ Forget
  /\ out' = Freed
  /\ UNCHANGED <<lost, flags, locals, rc, pc>>

-----------------------------------------------------------------------------
(* regex_compile_ex, for a caller that holds no object *)

\* A NULL pattern: the pointer is not written.
RefusePattern ==
  /\ pc = "idle" /\ out # Object
  /\ Return("BADPAT")
  /\ UNCHANGED <<memory, object, locals, out>>

\* Unknown flags, or no memory for the object.
Refuse ==
  /\ pc = "idle" /\ out # Object /\ out' = Null
  /\ \E status \in {"EUNSUPPORTED", "ESPACE"} : Return(status)
  /\ UNCHANGED <<memory, object, locals>>

\* Mutant: the pointer is written in the end only.
CompileLate ==
  /\ pc = "idle" /\ out # Object
  /\ Allocate(The({"re"}))
  /\ flags' \in {"NONE", "DFA"}
  /\ rc' = "RUN" /\ Goto("copy")
  /\ UNCHANGED <<re, lens, locals, out>>

Compile ==
  /\ pc = "idle" /\ out # Object /\ out' = Null
  /\ Allocate(The({"re"}))
  /\ flags' \in {"NONE", "DFA"}
  /\ rc' = "RUN" /\ Goto("copy")
  /\ UNCHANGED <<re, lens, locals>>

\* The object is freed with all it has by now, and the status returned.
Fail(status) ==
  /\ Free(Reachable) /\ Forget
  /\ Return(status)
  /\ UNCHANGED <<lost, flags, locals, out>>

CopyPattern ==
  /\ pc = "copy"
  /\ \/ Own(<<"pattern", 0>>) /\ Goto("parse") /\ UNCHANGED lens
     \/ Fail("ESPACE")

\* rx_parse_pattern, which frees all nodes if it fails,
Parse ==
  /\ pc = "parse"
  /\ \/ Own(<<"ast", 0>>) /\ Goto("nfa") /\ UNCHANGED lens
     \/ \E status \in {"BADPAT", "EPAREN", "EBRACK", "EBRACE", "BADRPT",
                       "EUNSUPPORTED", "ESPACE"} : Fail(status)

\* or all but the inside of a group (Parser!GroupClose).
ParseLoses ==
  /\ pc = "parse"
  /\ Change(The({"inside"}), The({"inside"}), Reachable) /\ Forget
  /\ lost' = The({"inside"})
  /\ Return("ESPACE")
  /\ UNCHANGED <<flags, locals, out>>

\* nfa_compile_ast adds a state, which may take a longer array,
NfaState ==
  /\ pc = "nfa"
  /\ \/ /\ nfaLen < MaxNfaStates /\ nfaLen' = nfaLen + 1
        /\ Own(<<"nfa.states", 0>>) /\ UNCHANGED <<dfaLen, pc>>
     \/ Fail("ESPACE")

\* or a transition, which may do so for those of its state.
NfaTransition ==
  /\ pc = "nfa"
  /\ \/ \E i \in 1 .. nfaLen : Own(Items(i)) /\ UNCHANGED <<lens, pc>>
     \/ Fail("ESPACE")

Publish == out' = Object /\ Return("OK")

NfaBuilt ==
  /\ pc = "nfa" /\ nfaLen > 1 /\ Items(1) \in re
  /\ IF flags = "DFA" THEN Goto("hash") /\ UNCHANGED <<out, rc>> ELSE Publish
  /\ UNCHANGED <<memory, object, locals>>

-----------------------------------------------------------------------------
(* dfa_build *)

DfaSets == The({"start_set", "target_set"})

DfaHash ==
  /\ pc = "hash"
  /\ \/ Own(<<"hash_buckets", 0>>) /\ Goto("sets") /\ UNCHANGED lens
     \/ Fail("ESPACE")

DfaStart ==
  /\ pc = "sets"
  /\ \/ Take(DfaSets) /\ Goto("build")
     \/ /\ AllocateOrFree(DfaSets, DfaSets \cup The({"hash_buckets"}))
        /\ re' = re \ The({"hash_buckets"})
        /\ rc' = "ESPACE" /\ Goto("fail")
        /\ UNCHANGED <<lens, flags, locals, out>>

\* The queue of epsilon_closure cannot be allocated.
ClosureOutOfMemory ==
  /\ pc = "build" /\ rc' = "ESPACE" /\ Goto("built")
  /\ UNCHANGED <<memory, object, locals, out>>

LimitReached == dfaLen >= MaxDfaStates

\* dfa_add_state: the array and the set of the state, which counts from then on.
DfaState ==
  /\ pc = "build"
  /\ \/ /\ ~ LimitReached /\ dfaLen' = dfaLen + 1
        /\ Allocate({<<"dfa.states", 0>>, NfaSet(dfaLen + 1)})
        /\ re' = re \cup {<<"dfa.states", 0>>, NfaSet(dfaLen + 1)}
        /\ UNCHANGED <<nfaLen, flags, locals, out, rc, pc>>
     \/ \* the array was grown, or not even that
        /\ ~ LimitReached
        /\ \/ Allocate(The({"dfa.states"})) /\ re' = re \cup The({"dfa.states"})
           \/ UNCHANGED <<memory, re>>
        /\ rc' = "ESPACE" /\ Goto("built")
        /\ UNCHANGED <<lens, flags, locals, out>>
     \/ /\ LimitReached
        /\ rc' = "EUNSUPPORTED" /\ Goto("built")
        /\ UNCHANGED <<memory, object, locals, out>>

\* All states have their transitions.
DfaExplored ==
  /\ pc = "build" /\ dfaLen > 0
  /\ Goto("built")
  /\ UNCHANGED <<memory, object, locals, out, rc>>

\* Mutant: the pointer to the freed buckets stays.
DfaBuiltDangling ==
  /\ pc = "built"
  /\ Drop(DfaSets \cup The({"hash_buckets"})) /\ UNCHANGED re
  /\ Goto(IF rc = "RUN" THEN "partition" ELSE "fail")
  /\ UNCHANGED <<lens, flags, rc>>

\* The label `done'.
DfaBuilt ==
  /\ pc = "built"
  /\ Drop(DfaSets \cup The({"hash_buckets"})) /\ re' = re \ The({"hash_buckets"})
  /\ Goto(IF rc = "RUN" THEN "partition" ELSE "fail")
  /\ UNCHANGED <<lens, flags, rc>>

\* regex_compile_ex gives up.
CompileFailed == pc = "fail" /\ Fail(rc)

-----------------------------------------------------------------------------
(* dfa_minimize, which frees its arrays whatever comes of them *)

Blocks == The({"block_of", "block_size"})
Refining == The({"in_preimage", "hit_count", "present"})
Rebuilding == The({"block_to_new", "representative"})
NewSets(k) == {NewSet(i) : i \in 1 .. k}

\* What a function that dfa_minimize calls hands back, with all it had freed.
Back(status) == rc' = status /\ Goto("minimized")

Minimize ==
  /\ pc = "partition"
  /\ \/ Take(Blocks) /\ Goto("refine")
     \/ /\ AllocateOrFree(Blocks, Blocks)
        /\ rc' = "ESPACE" /\ Goto("fail")
        /\ UNCHANGED <<object, locals, out>>

\* refine_partitions: `present' is wanted only if the others were got.
Refine ==
  /\ pc = "refine"
  /\ \/ Take(Refining) /\ Goto("split")
     \/ /\ Back("ESPACE")
        /\ \E got \in SUBSET (Refining \ The({"present"})) :
             Change(got, Refining, Refining \ The({"present"}))
        /\ UNCHANGED <<lost, object, locals, out>>

\* The work list grows, or cannot.
WorkList ==
  /\ pc = "split"
  /\ \/ Take(The({"items"})) /\ UNCHANGED pc
     \/ Drop(locals \cap (The({"items"}) \cup Refining)) /\ Back("ESPACE") /\ UNCHANGED object

Refined ==
  /\ pc = "split" /\ <<"items", 0>> \in locals
  /\ Drop(The({"items"}) \cup Refining) /\ Goto("rebuild")
  /\ UNCHANGED <<object, rc>>

\* rebuild_dfa: new_len states are left, or all of them.
Rebuild ==
  /\ pc = "rebuild"
  /\ \/ \E got \in SUBSET Rebuilding :
          /\ Change(got, Rebuilding, Rebuilding)
          /\ Back(IF got = Rebuilding THEN rc ELSE "ESPACE")
          /\ UNCHANGED <<lost, object, locals, out>>
     \/ Take(Rebuilding \cup The({"new_states"})) /\ Goto("copies") /\ dfaLen > 1
     \/ /\ Change(Rebuilding, Rebuilding, Rebuilding) /\ Back("ESPACE")
        /\ UNCHANGED <<lost, object, locals, out>>

\* How many sets of new states there are.
Copied == Cardinality({i \in 1 .. dfaLen : NewSet(i) \in locals})

\* Mutant: of the sets only the last is freed.
CopyStateLast ==
  /\ pc = "copies" /\ Copied < dfaLen - 1
  /\ \/ Take({NewSet(Copied + 1)}) /\ UNCHANGED pc
     \/ /\ Drop((NewSets(Copied) \ NewSets(Copied - 1)) \cup The({"new_states"}) \cup Rebuilding)
        /\ Back("ESPACE") /\ UNCHANGED object

\* Each new state has a set of its own.
CopyState ==
  /\ pc = "copies" /\ Copied < dfaLen - 1
  /\ \/ Take({NewSet(Copied + 1)}) /\ UNCHANGED pc
     \/ /\ Drop(NewSets(Copied) \cup The({"new_states"}) \cup Rebuilding)
        /\ Back("ESPACE") /\ UNCHANGED object

\* Mutant: the length is still that of the old states.
NewLenOld == dfaLen

\* new_len
NewLen == Copied

\* The new states take the place of the old ones.
Replace ==
  /\ pc = "copies" /\ Copied > 0
  /\ LET old == The({"dfa.states"}) \cup {NfaSet(i) : i \in 1 .. dfaLen}
         new == The({"dfa.states"}) \cup {NfaSet(i) : i \in 1 .. Copied}
         tmp == The({"new_states"}) \cup NewSets(Copied)
     IN  /\ twice' = twice \cup ((old \cup Rebuilding) \ heap)
         /\ heap' = (heap \ (old \cup tmp \cup Rebuilding)) \cup new
         /\ re' = (re \ old) \cup new
         /\ locals' = locals \ (tmp \cup Rebuilding)
  /\ dfaLen' = NewLen
  /\ Goto("minimized")
  /\ UNCHANGED <<lost, nfaLen, flags, out, rc>>

Minimized ==
  /\ pc = "minimized"
  /\ Free(Blocks) /\ locals' = locals \ Blocks
  /\ IF rc = "RUN" THEN Publish ELSE Goto("fail") /\ UNCHANGED <<out, rc>>
  /\ UNCHANGED <<lost, object>>

-----------------------------------------------------------------------------
(* regex_match, regex_search and regex_findall, for a caller with an object *)

\* The sets of nfa_run_from; the slots and sets of nfa_capture_span.
Sets == The({"cur.seen", "next.seen"})
SetItems == The({"cur.items", "next.items"})
Slots == The({"initial", "base", "candidate"})
Tags == The({"current.seen", "following.seen"})
Grown == {The({"current.states", "current.captures"}),
          The({"following.states", "following.captures"})}

Match ==
  /\ pc = "idle" /\ out = Object
  /\ rc' = "RUN" /\ Goto("run")
  /\ UNCHANGED <<memory, object, locals, out>>

\* findall has the matches in an array.
FindAll ==
  /\ pc = "idle" /\ out = Object
  /\ \/ /\ Allocate(The({"matches"})) /\ locals' = The({"matches"})
        /\ rc' = "RUN" /\ Goto("run")
     \/ Return("ESPACE") /\ UNCHANGED <<memory, locals>>
  /\ UNCHANGED <<object, out>>

\* dfa_run_from needs no memory.
RunDfa ==
  /\ pc = "run" /\ flags = "DFA"
  /\ \/ Goto("fill")
     \/ Goto("run")
     \/ Goto("answered")
  /\ UNCHANGED <<memory, object, locals, out, rc>>

RunNfa ==
  /\ pc = "run" /\ flags = "NONE"
  /\ \/ Take(Sets) /\ Goto("running")
     \/ \* the second one is wanted only if the first was got
        /\ \E got \in SUBSET The({"cur.seen"}) : Change(got, Sets, Sets)
        /\ rc' = "ESPACE" /\ Goto("answered")
        /\ UNCHANGED <<lost, object, locals, out>>

\* A set grows, or the run ends: with a match, without one, for want of memory.
RunningNfa ==
  /\ pc = "running"
  /\ \/ \E b \in SetItems : Take({b}) /\ UNCHANGED pc
     \/ /\ Drop(locals \cap (Sets \cup SetItems)) /\ UNCHANGED object
        /\ \/ pc' \in {"fill", "run", "answered"} /\ UNCHANGED rc
           \/ rc' = "ESPACE" /\ Goto("answered")

\* fill_match: without groups nothing more is wanted; nfa_capture_span takes
\* its slots and then, if it got them, its sets.
Fill ==
  /\ pc = "fill"
  /\ \/ Goto("filled") /\ UNCHANGED <<memory, object, locals, out, rc>>
     \/ Take(Slots \cup Tags) /\ Goto("tracing")
     \/ /\ \E got \in (SUBSET Slots) \cup {Slots \cup The({"current.seen"})} :
             Change(got, Slots \cup Tags, Slots \cup Tags)
        /\ rc' = "ESPACE" /\ Goto("answered")
        /\ UNCHANGED <<lost, object, locals, out>>

\* tagged_set_grow copies both arrays of a set, or neither; the end.
Tracing ==
  /\ pc = "tracing"
  /\ \/ \E arrays \in Grown : Take(arrays) /\ UNCHANGED pc
     \/ /\ Drop(Slots \cup Tags \cup (locals \cap UNION Grown))
        /\ UNCHANGED object
        /\ \/ Goto("filled") /\ UNCHANGED rc
           \/ rc' = "ESPACE" /\ Goto("answered")

\* One match is all that is wanted, or the callback says whether it is.
Filled ==
  /\ pc = "filled"
  /\ pc' \in IF <<"matches", 0>> \in locals THEN {"run", "answered"} ELSE {"answered"}
  /\ UNCHANGED <<memory, object, locals, out, rc>>

Answered ==
  /\ pc = "answered"
  /\ Drop(locals \cap The({"matches"}))
  /\ \E status \in IF rc = "RUN" THEN {"OK", "NOMATCH"} ELSE {rc} : Return(status)
  /\ UNCHANGED object

-----------------------------------------------------------------------------
Next ==
  \/ RefusePattern \/ Refuse \/ Compile \/ CopyPattern \/ Parse \/ ParseLoses
  \/ NfaState \/ NfaTransition \/ NfaBuilt
  \/ DfaHash \/ DfaStart \/ ClosureOutOfMemory \/ DfaState \/ DfaExplored
  \/ DfaBuilt \/ CompileFailed
  \/ Minimize \/ Refine \/ WorkList \/ Refined
  \/ Rebuild \/ CopyState \/ Replace \/ Minimized
  \/ Match \/ FindAll \/ RunDfa \/ RunNfa \/ RunningNfa
  \/ Fill \/ Tracing \/ Filled \/ Answered
  \/ RegexFree

Spec == Init /\ [][Next]_vars

-----------------------------------------------------------------------------
\* No block is freed twice, on any of the error paths of a function, of its
\* caller and of regex_free in turn, and no pointer of the object, nor one that
\* a function will still use or free, leads to a block that was freed.
MemoryIsSafe == twice = {} /\ re \cup locals \subseteq heap

\* Between calls an object has its own blocks and nothing else is allocated,
\* whichever allocation failed and wherever the call ended; without an object,
\* nothing is, but what the parser lost.
NothingElseStays ==
  pc = "idle" =>
    /\ locals = {}
    /\ heap \ lost = IF out = Object THEN Reachable ELSE {}

\* An object that is handed out has all that the calls on it will read: every
\* state of the automaton that its flags choose, with its set, and no buckets;
\* no other is, and a failed call leaves none.
ObjectIsWhole ==
  out = Object =>
    /\ The({"pattern", "ast", "nfa.states"}) \subseteq re
    /\ <<"hash_buckets", 0>> \notin re
    /\ flags = "DFA" =>
         /\ dfaLen > 0 /\ <<"dfa.states", 0>> \in re
         /\ {i \in 1 .. MaxDfaStates : NfaSet(i) \in re} = 1 .. dfaLen

Compiling == {"copy", "parse", "nfa", "hash", "sets", "build", "built", "fail",
              "partition", "refine", "split", "rebuild", "copies", "minimized"}

\* When regex_compile_ex returns, *out is an object or NULL as its status says,
\* whatever it was before, so that a caller may hand it to regex_free.  A call
\* with a null pattern is not meant: it returns before it writes *out
\* (RefusePattern).
OutTellsResult ==
  [][(pc \in Compiling /\ pc' = "idle") =>
       (out' = IF rc' = "OK" THEN Object ELSE Null)]_vars
=============================================================================
