---------------------------- MODULE LifetimeProofs ----------------------------
(***************************************************************************)
(* Whichever allocation fails, and wherever: nothing is freed twice or     *)
(* used after it was freed, nothing is left behind but what the parser     *)
(* loses, and an object that is handed out is whole.  For automata of any  *)
(* size.                                                                   *)
(***************************************************************************)
EXTENDS Lifetime, FiniteSetTheorems, TLAPS

-----------------------------------------------------------------------------
(* The ledger: every block is known to somebody. *)

Calling == {"run", "running", "fill", "tracing", "filled", "answered"}

\* regex_compile_ex and its caller hold the object itself.
Base == IF pc \in Compiling \/ out = Object THEN The({"re"}) ELSE {}

\* What the fields of the object can point to.
Fields ==
  The({"pattern", "ast", "nfa.states", "dfa.states", "hash_buckets"})
    \cup {Items(i) : i \in 1 .. nfaLen} \cup {NfaSet(i) : i \in 1 .. dfaLen}

Matches == The({"matches"})

\* What local variables can point to.
Temporary ==
  DfaSets \cup Blocks \cup Refining \cup The({"items"}) \cup Rebuilding
    \cup The({"new_states"}) \cup {NewSet(i) : i \in 1 .. dfaLen}
    \cup Sets \cup SetItems \cup Slots \cup Tags \cup (UNION Grown) \cup Matches

Ledger ==
  /\ heap = Base \cup re \cup locals \cup lost /\ twice = {}
  /\ lost \subseteq The({"inside"})
  /\ re \subseteq Fields /\ locals \subseteq Temporary

\* The locals, by the place in the call.
LocalsHeld ==
  /\ pc \in {"idle", "copy", "parse", "nfa", "hash", "sets", "fail", "partition"} =>
       locals = {}
  /\ pc \in {"build", "built"} => locals = DfaSets
  /\ pc \in {"refine", "rebuild", "minimized"} => locals = Blocks
  /\ pc = "split" => \/ locals = Blocks \cup Refining
                     \/ locals = Blocks \cup Refining \cup The({"items"})
  /\ pc = "copies" =>
       \E k \in 0 .. dfaLen - 1 :
         locals = Blocks \cup Rebuilding \cup The({"new_states"}) \cup NewSets(k)
  /\ pc \in {"run", "fill", "filled", "answered"} => locals \subseteq Matches
  /\ pc = "running" => Sets \subseteq locals
                       /\ locals \subseteq Matches \cup Sets \cup SetItems
  /\ pc = "tracing" => Slots \cup Tags \subseteq locals
                       /\ locals \subseteq Matches \cup Slots \cup Tags \cup UNION Grown

\* The object, by the place in regex_compile_ex.
AfterNfa == Compiling \ {"copy", "parse", "nfa"}
AfterDfa == {"partition", "refine", "split", "rebuild", "copies", "minimized"}

ObjectHas ==
  /\ nfaLen \in Nat /\ dfaLen \in 0 .. MaxDfaStates
  /\ pc = "idle" /\ out # Object => re = {} /\ nfaLen = 0 /\ dfaLen = 0
  /\ pc \in Compiling \ {"copy"} \/ out = Object => <<"pattern", 0>> \in re
  /\ pc \in AfterNfa \cup {"nfa"} \/ out = Object => <<"ast", 0>> \in re
  /\ pc \in AfterNfa \/ out = Object \/ nfaLen > 0 => <<"nfa.states", 0>> \in re
  /\ <<"hash_buckets", 0>> \in re <=> pc \in {"sets", "build", "built"}
  /\ \A i \in 1 .. dfaLen : NfaSet(i) \in re
  /\ dfaLen > 0 => <<"dfa.states", 0>> \in re
  /\ pc \in AfterDfa \/ (pc = "built" /\ rc = "RUN") \/ (out = Object /\ flags = "DFA") =>
       dfaLen > 0

\* The status and the caller's pointer.
Status ==
  /\ pc \in {"idle"} \cup Compiling \cup Calling /\ out \in {Null, Object, Freed}
  /\ pc \in Compiling => out = Null /\ rc # "OK"
  /\ pc \in Calling => out = Object
  /\ pc \in AfterNfa => flags = "DFA"

Inv == Ledger /\ LocalsHeld /\ ObjectHas /\ Status

-----------------------------------------------------------------------------
(* Blocks of different purposes are different blocks. *)

FieldNames == {"pattern", "ast", "nfa.states", "dfa.states", "hash_buckets",
               "nfa.items", "nfa_set"}
TemporaryNames ==
  {"start_set", "target_set", "block_of", "block_size", "in_preimage", "hit_count",
   "present", "items", "block_to_new", "representative", "new_states", "new_set",
   "cur.seen", "next.seen", "cur.items", "next.items", "initial", "base",
   "candidate", "current.seen", "following.seen", "current.states",
   "current.captures", "following.states", "following.captures", "matches"}

\* A block has one of the names it is given.
LEMMA TheNames == \A names : \A b \in The(names) : b[1] \in names
BY DEF The

\* The names of what fields point to.
LEMMA FieldsNames == \A b \in Fields : b[1] \in FieldNames
<1>1. \A b \in The({"pattern", "ast", "nfa.states", "dfa.states", "hash_buckets"}) :
        b[1] \in FieldNames
  BY TheNames DEF FieldNames
<1>2. \A i : Items(i)[1] \in FieldNames /\ NfaSet(i)[1] \in FieldNames
  BY DEF Items, NfaSet, FieldNames
<1> QED
  BY <1>1, <1>2 DEF Fields

\* The names of what local variables point to.
LEMMA TemporarysNames == \A b \in Temporary : b[1] \in TemporaryNames
<1>1. \A b \in DfaSets \cup Blocks \cup Refining \cup The({"items"}) : b[1] \in TemporaryNames
  BY TheNames DEF DfaSets, Blocks, Refining, TemporaryNames
<1>2. \A b \in Rebuilding \cup The({"new_states"}) : b[1] \in TemporaryNames
  BY TheNames DEF Rebuilding, TemporaryNames
<1>3. \A i : NewSet(i)[1] \in TemporaryNames
  BY DEF NewSet, TemporaryNames
<1>4. \A b \in Sets \cup SetItems \cup Slots \cup Tags \cup Matches : b[1] \in TemporaryNames
  BY TheNames DEF Sets, SetItems, Slots, Tags, Matches, TemporaryNames
<1>5. \A b \in UNION Grown : b[1] \in TemporaryNames
  BY TheNames DEF Grown, TemporaryNames
<1> QED
  BY <1>1, <1>2, <1>3, <1>4, <1>5 DEF Temporary

\* No block belongs to the object and to a local variable.
LEMMA Disjoint ==
  /\ Fields \cap Temporary = {}
  /\ The({"re"}) \cap (Fields \cup Temporary \cup The({"inside"})) = {}
  /\ The({"inside"}) \cap (Fields \cup Temporary) = {}
<1>1. \A b \in The({"re"}) : b[1] = "re"
  BY TheNames
<1>2. \A b \in The({"inside"}) : b[1] = "inside"
  BY TheNames
<1>3. FieldNames \cap TemporaryNames = {}
  BY DEF FieldNames, TemporaryNames
<1>4. {"re", "inside"} \cap (FieldNames \cup TemporaryNames) = {}
  BY DEF FieldNames, TemporaryNames
<1> QED
  BY <1>1, <1>2, <1>3, <1>4, FieldsNames, TemporarysNames

\* The arrays that outlive others are none of those.
LEMMA Kept ==
  /\ Blocks \cap (Refining \cup The({"items"}) \cup Rebuilding \cup The({"new_states"})) = {}
  /\ \A k : Blocks \cap NewSets(k) = {}
  /\ Matches \cap (Sets \cup SetItems \cup Slots \cup Tags \cup UNION Grown) = {}
<1>1. \A b \in Blocks : b[1] \in {"block_of", "block_size"}
  BY TheNames DEF Blocks
<1>2. \A b \in Refining \cup The({"items"}) \cup Rebuilding \cup The({"new_states"}) :
        b[1] \notin {"block_of", "block_size"}
  BY TheNames DEF Refining, Rebuilding
<1>3. \A i : NewSet(i)[1] \notin {"block_of", "block_size"}
  BY DEF NewSet
<1>4. \A b \in Matches : b[1] = "matches"
  BY TheNames DEF Matches
<1>5. \A b \in Sets \cup SetItems \cup Slots \cup Tags : b[1] # "matches"
  BY TheNames DEF Sets, SetItems, Slots, Tags
<1>6. \A b \in UNION Grown : b[1] # "matches"
  BY TheNames DEF Grown
<1> QED
  BY <1>1, <1>2, <1>3, <1>4, <1>5, <1>6 DEF NewSets

-----------------------------------------------------------------------------
(* The ledger through one step. *)

\* Blocks are got and freed while the object is held, or while it is not.
LEMMA LedgerStep ==
  ASSUME Ledger, NEW got, NEW wanted, NEW freed, Change(got, wanted, freed),
         UNCHANGED lost, Base' = Base,
         freed \subseteq wanted \cup re \cup locals,
         freed \subseteq Fields \cup Temporary,
         re' \cup locals' = (re \cup locals \cup got) \ freed,
         re' \subseteq Fields', locals' \subseteq Temporary'
  PROVE  Ledger'
<1>1. heap' = (heap \cup got) \ freed /\ twice' = twice \cup ((freed \ wanted) \ heap)
  BY DEF Change
<1>2. freed \cap (Base \cup lost) = {}
  BY Disjoint DEF Ledger, Base
<1>3. heap' = Base' \cup re' \cup locals' \cup lost'
  BY <1>1, <1>2 DEF Ledger
<1>4. twice' = {}
  BY <1>1 DEF Ledger
<1> QED
  BY <1>3, <1>4 DEF Ledger

\* Without any allocation.
LEMMA LedgerSame ==
  ASSUME Ledger, UNCHANGED <<memory, re, locals>>, Base' = Base, UNCHANGED lens
  PROVE  Ledger'
BY DEF Ledger, memory, lens, Fields, Temporary

\* regex_free reaches all of the object.
LEMMA ReachableIsAll == Ledger => Reachable = The({"re"}) \cup re
<1> SUFFICES ASSUME Ledger PROVE Reachable = The({"re"}) \cup re
  OBVIOUS
<1>1. Fields = The({"pattern", "ast"}) \cup The({"nfa.states"}) \cup The({"dfa.states", "hash_buckets"})
               \cup {Items(i) : i \in 1 .. nfaLen} \cup {NfaSet(i) : i \in 1 .. dfaLen}
  BY DEF Fields, The
<1> QED
  BY <1>1 DEF Ledger, Reachable, NfaFree, DfaFree

\* Longer arrays have room for all that shorter ones have.
LEMMA Longer ==
  ASSUME nfaLen \in Nat, dfaLen \in Nat, nfaLen' \in Nat, dfaLen' \in Nat,
         nfaLen <= nfaLen', dfaLen <= dfaLen'
  PROVE  Fields \subseteq Fields' /\ Temporary \subseteq Temporary'
<1>1. 1 .. nfaLen \subseteq 1 .. nfaLen' /\ 1 .. dfaLen \subseteq 1 .. dfaLen'
  OBVIOUS
<1>2. Fields \subseteq Fields'
  BY <1>1 DEF Fields
<1>3. Temporary \subseteq Temporary'
  BY <1>1 DEF Temporary
<1> QED
  BY <1>2, <1>3

\* Which blocks there can be depends on the lengths only.
LEMMA SameLens ==
  ASSUME UNCHANGED lens
  PROVE  Fields' = Fields /\ Temporary' = Temporary /\ nfaLen' = nfaLen /\ dfaLen' = dfaLen
BY DEF lens, Fields, Temporary

\* A field of the object gets a block.
LEMMA OwnLedger ==
  ASSUME Inv, NEW b \in Fields', Own(b), pc \in Compiling, pc' \in Compiling,
         nfaLen' \in Nat, nfaLen <= nfaLen', dfaLen' = dfaLen
  PROVE  Ledger'
<1>1. Change({b}, {b}, {}) /\ lost' = lost /\ re' = re \cup {b} /\ locals' = locals
  BY DEF Own, Allocate
<1>2. nfaLen \in Nat /\ dfaLen \in Nat /\ Ledger /\ Base' = Base
  BY DEF Inv, ObjectHas, Base
<1>3. Fields \subseteq Fields' /\ Temporary \subseteq Temporary'
  BY <1>2, Longer
<1>4. re' \subseteq Fields' /\ locals' \subseteq Temporary'
  BY <1>1, <1>2, <1>3 DEF Ledger
<1> QED
  BY <1>1, <1>2, <1>4, LedgerStep

\* The fields by name.
LEMMA FieldOf ==
  /\ <<"pattern", 0>> \in Fields /\ <<"ast", 0>> \in Fields
  /\ <<"nfa.states", 0>> \in Fields /\ <<"dfa.states", 0>> \in Fields
  /\ <<"hash_buckets", 0>> \in Fields
BY DEF Fields, The

\* Names with different strings are different.
LEMMA Different ==
  /\ \A i : Items(i) # <<"hash_buckets", 0>>
  /\ \A i : NfaSet(i) # <<"hash_buckets", 0>>
  /\ \A i, k : NfaSet(i) # Items(k)
  /\ \A i, k : NfaSet(i) = NfaSet(k) => i = k
  /\ \A i, k : NewSet(i) = NewSet(k) => i = k
  /\ \A i : NfaSet(i) # <<"dfa.states", 0>>
BY DEF Items, NfaSet, NewSet

\* regex_free, and the failures that call it.
LEMMA FreeLedger ==
  ASSUME Inv, pc \in Compiling \/ out = Object, locals = {}, UNCHANGED <<lost, locals>>,
         Free(Reachable), Forget, pc' = "idle", out' # Object
  PROVE  Ledger' /\ ObjectHas'
<1>1. /\ heap' = heap \ Reachable /\ twice' = twice \cup (Reachable \ heap)
      /\ re' = {} /\ nfaLen' = 0 /\ dfaLen' = 0
  BY DEF Free, Change, Forget
<1>2. Reachable = The({"re"}) \cup re /\ Base = The({"re"}) /\ Base' = {}
  BY ReachableIsAll DEF Inv, Base, Compiling
<1>3. heap' = Base' \cup re' \cup locals' \cup lost' /\ twice' = {}
  BY <1>1, <1>2, Disjoint DEF Inv, Ledger
<1>4. Ledger'
  BY <1>1, <1>3 DEF Inv, Ledger
<1>5. MaxDfaStates \in Nat
  BY LifetimeAssumption DEF LifetimeAssumption
<1> QED
  BY <1>1, <1>4, <1>5 DEF ObjectHas, Compiling, AfterNfa, AfterDfa

\* A failure frees the object and all it has.
LEMMA FailStep ==
  ASSUME Inv, pc \in Compiling, locals = {}, NEW status, status # "OK", Fail(status)
  PROVE  Inv'
<1>1. /\ Free(Reachable) /\ Forget /\ pc' = "idle" /\ UNCHANGED <<lost, flags, locals, out>>
  BY DEF Fail, Return
<1>2. out' # Object /\ out' \in {Null, Object, Freed}
  BY <1>1 DEF Inv, Status, Null, Object
<1>3. Ledger' /\ ObjectHas'
  BY <1>1, <1>2, FreeLedger
<1>4. LocalsHeld'
  BY <1>1 DEF LocalsHeld
<1>5. Status'
  BY <1>1, <1>2 DEF Status, Compiling, Calling, AfterNfa
<1> QED
  BY <1>3, <1>4, <1>5 DEF Inv

\* What the parser loses is in the heap and nowhere else.
LEMMA ParseLosesStep == Inv /\ ParseLoses => Inv'
<1> SUFFICES ASSUME Inv, ParseLoses PROVE Inv'
  OBVIOUS
<1>1. /\ heap' = (heap \cup The({"inside"})) \ Reachable
      /\ twice' = twice \cup ((Reachable \ The({"inside"})) \ heap)
      /\ re' = {} /\ nfaLen' = 0 /\ dfaLen' = 0 /\ lost' = The({"inside"})
      /\ pc = "parse" /\ pc' = "idle" /\ UNCHANGED <<flags, locals, out>>
  BY DEF ParseLoses, Change, Forget, Return
<1>2. out = Null /\ locals = {} /\ out' # Object /\ out' \in {Null, Object, Freed}
  BY <1>1 DEF Inv, Status, LocalsHeld, Compiling, Null, Object
<1>3. Reachable = The({"re"}) \cup re /\ Base = The({"re"}) /\ Base' = {}
  BY <1>1, <1>2, ReachableIsAll DEF Inv, Base, Compiling
<1>4. heap' = Base' \cup re' \cup locals' \cup lost' /\ twice' = {}
  BY <1>1, <1>2, <1>3, Disjoint DEF Inv, Ledger
<1>5. Ledger'
  BY <1>1, <1>2, <1>4 DEF Inv, Ledger
<1>6. MaxDfaStates \in Nat
  BY LifetimeAssumption DEF LifetimeAssumption
<1>7. ObjectHas'
  BY <1>1, <1>2, <1>6 DEF ObjectHas, Compiling, AfterNfa, AfterDfa
<1>8. LocalsHeld' /\ Status'
  BY <1>1, <1>2 DEF LocalsHeld, Inv, Status, Compiling, Calling, AfterNfa
<1> QED
  BY <1>5, <1>7, <1>8 DEF Inv

-----------------------------------------------------------------------------
(* regex_compile_ex up to the NFA, and regex_free *)

\* Nothing is allocated yet.
LEMMA InvInit == Init => Inv
<1> SUFFICES ASSUME Init PROVE Inv
  OBVIOUS
<1>1. Ledger
  BY DEF Init, Ledger, Base, Compiling, Object, Null, Freed
<1>2. MaxDfaStates \in Nat
  BY LifetimeAssumption DEF LifetimeAssumption
<1>3. ObjectHas
  BY <1>2 DEF Init, ObjectHas, Compiling, AfterNfa, AfterDfa, Object, Null, Freed
<1>4. LocalsHeld /\ Status
  BY DEF Init, LocalsHeld, Status, Compiling, Calling, AfterNfa, Object, Null, Freed
<1> QED
  BY <1>1, <1>3, <1>4 DEF Inv

\* regex_compile_ex is called.
LEMMA CompileStep == Inv /\ (RefusePattern \/ Refuse \/ Compile) => Inv'
<1> SUFFICES ASSUME Inv, RefusePattern \/ Refuse \/ Compile PROVE Inv'
  OBVIOUS
<1>1. /\ pc = "idle" /\ out # Object /\ out' \in {Null, out} /\ out' # Object
      /\ UNCHANGED <<re, lens, locals>> /\ locals = {} /\ re = {} /\ nfaLen = 0 /\ dfaLen = 0
  BY DEF RefusePattern, Refuse, Compile, object, Null, Object, Inv, LocalsHeld, ObjectHas
<1>2. CASE Compile
  <2>1. /\ Change(The({"re"}), The({"re"}), {}) /\ lost' = lost /\ pc' = "copy"
        /\ rc' = "RUN" /\ out' = Null
    BY <1>2 DEF Compile, Allocate, Goto
  <2>2. Base = {} /\ Base' = The({"re"})
    BY <1>1, <2>1 DEF Base, Compiling
  <2>3. Ledger'
    BY <1>1, <2>1, <2>2 DEF Inv, Ledger, Change
  <2>4. ObjectHas'
    BY <1>1, <2>1 DEF Inv, ObjectHas, lens, Compiling, AfterNfa, AfterDfa
  <2>5. LocalsHeld' /\ Status'
    BY <1>1, <2>1 DEF LocalsHeld, Status, Compiling, Calling, AfterNfa, Null
  <2> QED
    BY <2>3, <2>4, <2>5 DEF Inv
<1>3. CASE RefusePattern \/ Refuse
  <2>1. UNCHANGED <<memory, object, locals>> /\ pc' = "idle"
    BY <1>3 DEF RefusePattern, Refuse, Return
  <2>2. Base = {} /\ Base' = {}
    BY <1>1, <2>1 DEF Base, Compiling
  <2>3. Ledger'
    BY <1>1, <2>1, <2>2, LedgerSame DEF Inv, object
  <2>4. ObjectHas'
    BY <1>1, <2>1 DEF Inv, ObjectHas, lens, Compiling, AfterNfa, AfterDfa
  <2>5. LocalsHeld' /\ Status'
    BY <1>1, <2>1 DEF Inv, LocalsHeld, Status, Compiling, Calling, AfterNfa, Null
  <2> QED
    BY <2>3, <2>4, <2>5 DEF Inv
<1> QED
  BY <1>2, <1>3

\* regex_free is called.
LEMMA RegexFreeStep == Inv /\ RegexFree => Inv'
<1> SUFFICES ASSUME Inv, RegexFree PROVE Inv'
  OBVIOUS
<1>1. /\ pc = "idle" /\ out = Object /\ Free(Reachable) /\ Forget /\ out' = Freed
      /\ UNCHANGED <<lost, flags, locals, rc, pc>> /\ locals = {}
  BY DEF RegexFree, Inv, LocalsHeld
<1>2. out' # Object
  BY <1>1 DEF Object, Freed
<1>3. Ledger' /\ ObjectHas'
  BY <1>1, <1>2, FreeLedger
<1>4. LocalsHeld' /\ Status'
  BY <1>1 DEF LocalsHeld, Status, Compiling, Calling, AfterNfa
<1> QED
  BY <1>3, <1>4 DEF Inv

\* The pattern is copied.
LEMMA CopyPatternStep == Inv /\ CopyPattern => Inv'
<1> SUFFICES ASSUME Inv, CopyPattern PROVE Inv'
  OBVIOUS
<1>1. pc = "copy" /\ pc \in Compiling /\ locals = {} /\ out = Null
  BY DEF CopyPattern, Compiling, Inv, LocalsHeld, Status
<1>2. CASE Own(<<"pattern", 0>>) /\ Goto("parse") /\ UNCHANGED lens
  <2>1. /\ re' = re \cup {<<"pattern", 0>>} /\ UNCHANGED <<flags, locals, out, rc>>
        /\ pc' = "parse" /\ UNCHANGED <<nfaLen, dfaLen>>
    BY <1>2 DEF Own, Goto, lens
  <2>2. Ledger'
    BY <1>1, <1>2, <2>1, OwnLedger, FieldOf, SameLens DEF Compiling, Inv, ObjectHas
  <2>3. ObjectHas'
    BY <1>1, <2>1 DEF Inv, ObjectHas, Compiling, AfterNfa, AfterDfa, Null, Object
  <2>4. LocalsHeld' /\ Status'
    BY <1>1, <2>1 DEF Inv, LocalsHeld, Status, Compiling, Calling, AfterNfa
  <2> QED
    BY <2>2, <2>3, <2>4 DEF Inv
<1>3. CASE Fail("ESPACE")
  BY <1>1, <1>3, FailStep
<1> QED
  BY <1>2, <1>3 DEF CopyPattern

\* rx_parse_pattern returns a tree or none, and may lose one inside of a group.
LEMMA ParseStep == Inv /\ Parse => Inv'
<1> SUFFICES ASSUME Inv, Parse PROVE Inv'
  OBVIOUS
<1>1. pc = "parse" /\ pc \in Compiling /\ locals = {} /\ out = Null
  BY DEF Parse, Compiling, Inv, LocalsHeld, Status
<1>2. CASE Own(<<"ast", 0>>) /\ Goto("nfa") /\ UNCHANGED lens
  <2>1. /\ re' = re \cup {<<"ast", 0>>} /\ UNCHANGED <<flags, locals, out, rc>>
        /\ pc' = "nfa" /\ UNCHANGED <<nfaLen, dfaLen>>
    BY <1>2 DEF Own, Goto, lens
  <2>2. Ledger'
    BY <1>1, <1>2, <2>1, OwnLedger, FieldOf, SameLens DEF Compiling, Inv, ObjectHas
  <2>3. ObjectHas'
    BY <1>1, <2>1 DEF Inv, ObjectHas, Compiling, AfterNfa, AfterDfa, Null, Object
  <2>4. LocalsHeld' /\ Status'
    BY <1>1, <2>1 DEF Inv, LocalsHeld, Status, Compiling, Calling, AfterNfa
  <2> QED
    BY <2>2, <2>3, <2>4 DEF Inv
<1>3. ASSUME NEW status, status # "OK", Fail(status) PROVE Inv'
  BY <1>1, <1>3, FailStep
<1>4. ~ (Own(<<"ast", 0>>) /\ Goto("nfa") /\ UNCHANGED lens) =>
        \E status : status # "OK" /\ Fail(status)
  BY DEF Parse
<1> QED
  BY <1>2, <1>3, <1>4

\* A field gets a block while the NFA grows.
LEMMA NfaGrows ==
  ASSUME Inv, pc = "nfa", NEW b \in Fields', Own(b), UNCHANGED <<dfaLen, pc>>,
         nfaLen' \in Nat, nfaLen <= nfaLen', b # <<"hash_buckets", 0>>,
         nfaLen' > 0 => <<"nfa.states", 0>> \in re'
  PROVE  Inv'
<1>1. re' = re \cup {b} /\ UNCHANGED <<flags, locals, out, rc>> /\ locals = {} /\ out = Null
  BY DEF Own, Inv, LocalsHeld, Status, Compiling
<1>2. Ledger'
  BY OwnLedger DEF Compiling
<1>3. ObjectHas'
  BY <1>1 DEF Inv, ObjectHas, Compiling, AfterNfa, AfterDfa, Null, Object
<1>4. LocalsHeld' /\ Status'
  BY <1>1 DEF Inv, LocalsHeld, Status, Compiling, Calling, AfterNfa
<1> QED
  BY <1>2, <1>3, <1>4 DEF Inv

\* The Thompson automaton grows.
LEMMA NfaStep == Inv /\ (NfaState \/ NfaTransition) => Inv'
<1> SUFFICES ASSUME Inv, NfaState \/ NfaTransition PROVE Inv'
  OBVIOUS
<1>1. pc = "nfa" /\ pc \in Compiling /\ locals = {} /\ nfaLen \in Nat
  BY DEF NfaState, NfaTransition, Compiling, Inv, LocalsHeld, ObjectHas
<1>2. CASE Fail("ESPACE")
  BY <1>1, <1>2, FailStep
<1>3. CASE nfaLen' = nfaLen + 1 /\ Own(<<"nfa.states", 0>>) /\ UNCHANGED <<dfaLen, pc>>
  <2>1. <<"nfa.states", 0>> \in Fields' /\ <<"nfa.states", 0>> # <<"hash_buckets", 0>>
    BY DEF Fields, The
  <2>2. <<"nfa.states", 0>> \in re'
    BY <1>3 DEF Own
  <2> QED
    BY <1>1, <1>3, <2>1, <2>2, NfaGrows
<1>4. CASE \E i \in 1 .. nfaLen : Own(Items(i)) /\ UNCHANGED <<lens, pc>>
  <2>1. PICK i \in 1 .. nfaLen : Own(Items(i)) /\ UNCHANGED <<lens, pc>>
    BY <1>4
  <2>2. UNCHANGED <<nfaLen, dfaLen>> /\ Items(i) \in Fields'
    BY <2>1 DEF lens, Fields
  <2>3. nfaLen > 0 => <<"nfa.states", 0>> \in re'
    BY <2>1 DEF Own, Inv, ObjectHas
  <2> QED
    BY <1>1, <2>1, <2>2, <2>3, NfaGrows, Different
<1> QED
  BY <1>2, <1>3, <1>4 DEF NfaState, NfaTransition

\* nfa_compile_ast returns.
LEMMA NfaBuiltStep == Inv /\ NfaBuilt => Inv'
<1> SUFFICES ASSUME Inv, NfaBuilt PROVE Inv'
  OBVIOUS
<1>1. /\ pc = "nfa" /\ nfaLen > 1 /\ UNCHANGED <<memory, object, locals>>
      /\ \/ flags = "DFA" /\ pc' = "hash" /\ UNCHANGED <<out, rc>>
         \/ flags # "DFA" /\ pc' = "idle" /\ rc' = "OK" /\ out' = Object
  BY DEF NfaBuilt, Goto, Publish, Return
<1>2. Base' = Base
  BY <1>1 DEF Base, Compiling
<1>3. Ledger'
  BY <1>1, <1>2, LedgerSame DEF Inv, object
<1>4. ObjectHas'
  BY <1>1 DEF Inv, ObjectHas, object, lens, Compiling, AfterNfa, AfterDfa
<1>5. LocalsHeld' /\ Status'
  BY <1>1 DEF Inv, LocalsHeld, Status, object, Compiling, Calling, AfterNfa
<1> QED
  BY <1>3, <1>4, <1>5 DEF Inv

-----------------------------------------------------------------------------
(* dfa_build *)

\* What holds wherever the second half of the compilation is.
LEMMA DfaFacts ==
  ASSUME Inv, pc \in AfterNfa
  PROVE  /\ out = Null /\ rc # "OK" /\ flags = "DFA" /\ out # Object
         /\ Base = The({"re"}) /\ Ledger
         /\ nfaLen \in Nat /\ dfaLen \in Nat /\ dfaLen <= MaxDfaStates /\ MaxDfaStates \in Nat
         /\ <<"pattern", 0>> \in re /\ <<"ast", 0>> \in re /\ <<"nfa.states", 0>> \in re
         /\ \A i \in 1 .. dfaLen : NfaSet(i) \in re
         /\ dfaLen > 0 => <<"dfa.states", 0>> \in re
<1>1. pc \in Compiling /\ MaxDfaStates \in Nat
  BY LifetimeAssumption DEF AfterNfa, LifetimeAssumption
<1> QED
  BY <1>1 DEF Inv, ObjectHas, Status, Base, Null, Object, AfterNfa

\* What the first half has left is not touched by the second.
Parsed == {<<"pattern", 0>>, <<"ast", 0>>, <<"nfa.states", 0>>}

\* The two halves have no block in common.
LEMMA ParsedStays ==
  /\ Parsed \cap The({"hash_buckets"}) = {} /\ Parsed \cap The({"dfa.states"}) = {}
  /\ \A i : NfaSet(i) \notin Parsed
BY DEF Parsed, The, NfaSet

\* The second half goes on: what is left to show of a step.
LEMMA DfaGoesOn ==
  ASSUME Inv, pc \in AfterNfa, pc' \in AfterNfa, UNCHANGED <<nfaLen, flags, out>>,
         rc' # "OK", dfaLen' \in 0 .. MaxDfaStates, Ledger', LocalsHeld',
         Parsed \subseteq re',
         <<"hash_buckets", 0>> \in re' <=> pc' \in {"sets", "build", "built"},
         \A i \in 1 .. dfaLen' : NfaSet(i) \in re',
         dfaLen' > 0 => <<"dfa.states", 0>> \in re',
         pc' \in AfterDfa \/ (pc' = "built" /\ rc' = "RUN") => dfaLen' > 0
  PROVE  Inv'
<1>1. pc' \in Compiling /\ pc' # "idle" /\ out' = Null /\ out' # Object /\ pc' \notin Calling
  BY DfaFacts DEF AfterNfa, Compiling, Calling
<1>2. ObjectHas'
  BY <1>1, DfaFacts DEF ObjectHas, Parsed
<1>3. Status'
  BY <1>1, DfaFacts DEF Status
<1> QED
  BY <1>2, <1>3 DEF Inv

\* The same for a step that leaves the object alone.
LEMMA ObjectStays ==
  ASSUME Inv, pc \in AfterNfa, pc' \in AfterNfa, UNCHANGED <<object, out>>,
         rc' # "OK", Ledger', LocalsHeld',
         pc \in {"sets", "build", "built"} <=> pc' \in {"sets", "build", "built"},
         pc' \in AfterDfa \/ (pc' = "built" /\ rc' = "RUN") => dfaLen > 0
  PROVE  Inv'
<1>1. UNCHANGED <<nfaLen, dfaLen, flags, re>>
  BY DEF object, lens
<1>2. <<"hash_buckets", 0>> \in re <=> pc \in {"sets", "build", "built"}
  BY DEF Inv, ObjectHas
<1>3. Parsed \subseteq re /\ dfaLen \in 0 .. MaxDfaStates
  BY DfaFacts DEF Parsed
<1> QED
  BY <1>1, <1>2, <1>3, DfaFacts, DfaGoesOn

\* Temporary blocks are got while the object is left alone.
LEMMA TakeLedger ==
  ASSUME Inv, NEW blocks, blocks \subseteq Temporary, Take(blocks),
         pc \in Compiling <=> pc' \in Compiling
  PROVE  Ledger' /\ locals' = locals \cup blocks /\ UNCHANGED <<object, out, rc>>
<1>1. /\ Change(blocks, blocks, {}) /\ UNCHANGED lost /\ locals' = locals \cup blocks
      /\ UNCHANGED <<object, out, rc>> /\ UNCHANGED lens /\ re' = re
  BY DEF Take, Allocate, object
<1>2. Fields' = Fields /\ Temporary' = Temporary
  BY <1>1, SameLens
<1>3. Base' = Base /\ Ledger
  BY <1>1 DEF Base, Inv
<1>4. re' \subseteq Fields' /\ locals' \subseteq Temporary'
  BY <1>1, <1>2, <1>3 DEF Ledger
<1>5. re' \cup locals' = (re \cup locals \cup blocks) \ {}
  BY <1>1
<1> QED
  BY <1>1, <1>3, <1>4, <1>5, LedgerStep

\* Temporary blocks are freed while the object is left alone.
LEMMA DropLedger ==
  ASSUME Inv, NEW blocks, blocks \subseteq locals, Drop(blocks), UNCHANGED object,
         pc \in Compiling <=> pc' \in Compiling
  PROVE  Ledger' /\ locals' = locals \ blocks /\ UNCHANGED out
<1>1. /\ Change({}, {}, blocks) /\ UNCHANGED lost /\ locals' = locals \ blocks
      /\ UNCHANGED out /\ UNCHANGED lens /\ re' = re
  BY DEF Drop, Free, object
<1>2. Fields' = Fields /\ Temporary' = Temporary
  BY <1>1, SameLens
<1>3. Base' = Base /\ Ledger
  BY <1>1 DEF Base, Inv
<1>4. re' \subseteq Fields' /\ locals' \subseteq Temporary' /\ blocks \subseteq Temporary
  BY <1>1, <1>2, <1>3 DEF Ledger
<1>5. re' \cup locals' = (re \cup locals \cup {}) \ blocks
  BY <1>1, <1>3, <1>4, Disjoint DEF Ledger
<1> QED
  BY <1>1, <1>3, <1>4, <1>5, LedgerStep

\* Temporary blocks are wanted and, as not all are got, freed.
LEMMA TriedLedger ==
  ASSUME Inv, NEW got, NEW wanted, NEW freed, Change(got, wanted, freed),
         got \subseteq freed, freed \subseteq wanted, wanted \subseteq Temporary,
         freed \cap locals = {}, UNCHANGED <<lost, object, locals, out>>,
         pc \in Compiling <=> pc' \in Compiling
  PROVE  Ledger'
<1>1. UNCHANGED lens /\ re' = re /\ locals' = locals
  BY DEF object
<1>2. Fields' = Fields /\ Temporary' = Temporary
  BY <1>1, SameLens
<1>3. Base' = Base /\ Ledger
  BY DEF Base, Inv
<1>4. re' \subseteq Fields' /\ locals' \subseteq Temporary'
  BY <1>1, <1>2, <1>3 DEF Ledger
<1>5. re' \cup locals' = (re \cup locals \cup got) \ freed
  BY <1>1, <1>3, Disjoint DEF Ledger
<1> QED
  BY <1>1, <1>3, <1>4, <1>5, LedgerStep

\* dfa_build allocates its table.
LEMMA DfaHashStep == Inv /\ DfaHash => Inv'
<1> SUFFICES ASSUME Inv, DfaHash PROVE Inv'
  OBVIOUS
<1>1. pc = "hash" /\ pc \in AfterNfa /\ pc \in Compiling /\ locals = {}
  BY DEF DfaHash, AfterNfa, Compiling, Inv, LocalsHeld
<1>2. CASE Own(<<"hash_buckets", 0>>) /\ Goto("sets") /\ UNCHANGED lens
  <2>1. /\ re' = re \cup {<<"hash_buckets", 0>>} /\ UNCHANGED <<flags, locals, out, rc>>
        /\ pc' = "sets" /\ UNCHANGED <<nfaLen, dfaLen>>
    BY <1>2 DEF Own, Goto, lens
  <2>2. Ledger'
    BY <1>1, <1>2, <2>1, OwnLedger, FieldOf, SameLens, DfaFacts DEF Compiling
  <2>3. LocalsHeld' /\ pc' \in AfterNfa /\ pc' \notin AfterDfa
    BY <1>1, <2>1 DEF LocalsHeld, AfterNfa, AfterDfa, Compiling
  <2>4. Parsed \subseteq re' /\ <<"hash_buckets", 0>> \in re'
    BY <1>1, <2>1, DfaFacts DEF Parsed
  <2> QED
    BY <1>1, <2>1, <2>2, <2>3, <2>4, DfaFacts, DfaGoesOn
<1>3. CASE Fail("ESPACE")
  BY <1>1, <1>3, FailStep
<1> QED
  BY <1>2, <1>3 DEF DfaHash

\* The only block of its name.
LEMMA TheOne == \A name : The({name}) = {<<name, 0>>}
BY DEF The

\* dfa_build allocates its two sets.
LEMMA DfaStartStep == Inv /\ DfaStart => Inv'
<1> SUFFICES ASSUME Inv, DfaStart PROVE Inv'
  OBVIOUS
<1>1. pc = "sets" /\ pc \in AfterNfa /\ pc \in Compiling /\ locals = {}
  BY DEF DfaStart, AfterNfa, Compiling, Inv, LocalsHeld
<1>2. DfaSets \subseteq Temporary
  BY DEF Temporary
<1>3. CASE Take(DfaSets) /\ Goto("build")
  <2>1. pc' = "build" /\ pc' \in Compiling /\ pc' \in AfterNfa /\ pc' \notin AfterDfa
    BY <1>3 DEF Goto, Compiling, AfterNfa, AfterDfa
  <2>2. Ledger' /\ locals' = DfaSets /\ UNCHANGED <<object, out, rc>>
    BY <1>1, <1>2, <1>3, <2>1, TakeLedger
  <2>3. LocalsHeld'
    BY <2>1, <2>2 DEF LocalsHeld
  <2> QED
    BY <1>1, <2>1, <2>2, <2>3, DfaFacts, ObjectStays
<1>4. CASE /\ AllocateOrFree(DfaSets, DfaSets \cup The({"hash_buckets"}))
           /\ re' = re \ The({"hash_buckets"})
           /\ rc' = "ESPACE" /\ Goto("fail")
           /\ UNCHANGED <<lens, flags, locals, out>>
  <2>1. pc' = "fail" /\ pc' \in Compiling /\ pc' \in AfterNfa /\ pc' \notin AfterDfa
    BY <1>4 DEF Goto, Compiling, AfterNfa, AfterDfa
  <2>2. PICK got \in (SUBSET DfaSets) \ {DfaSets} :
          Change(got, DfaSets, DfaSets \cup The({"hash_buckets"}))
    BY <1>4 DEF AllocateOrFree
  <2>3. /\ UNCHANGED <<nfaLen, dfaLen>> /\ Fields' = Fields /\ Temporary' = Temporary
        /\ Base' = Base /\ UNCHANGED lost /\ Ledger
    BY <1>1, <1>4, <2>1, SameLens, DfaFacts DEF AllocateOrFree, Base
  <2>4. <<"hash_buckets", 0>> \in re /\ The({"hash_buckets"}) \subseteq re
    BY <1>1, TheOne DEF Inv, ObjectHas
  <2>5. Ledger'
    <3>1. /\ re' \subseteq Fields' /\ locals' \subseteq Temporary'
          /\ re' \cup locals' =
               (re \cup locals \cup got) \ (DfaSets \cup The({"hash_buckets"}))
          /\ DfaSets \cup The({"hash_buckets"}) \subseteq Fields \cup Temporary
      BY <1>1, <1>2, <1>4, <2>2, <2>3, <2>4, Disjoint DEF Ledger
    <3> QED
      BY <2>2, <2>3, <2>4, <3>1, LedgerStep
  <2>6. LocalsHeld'
    BY <1>1, <1>4, <2>1 DEF LocalsHeld
  <2>7. /\ Parsed \subseteq re' /\ <<"hash_buckets", 0>> \notin re'
        /\ \A i \in 1 .. dfaLen : NfaSet(i) \in re'
        /\ dfaLen > 0 => <<"dfa.states", 0>> \in re'
    <3>1. re' = re \ {<<"hash_buckets", 0>>}
      BY <1>4, TheOne
    <3>2. Parsed \subseteq re' /\ <<"hash_buckets", 0>> \notin re'
      BY <1>1, <3>1, DfaFacts DEF Parsed
    <3> QED
      BY <1>1, <3>1, <3>2, DfaFacts, Different
  <2> QED
    BY <1>1, <1>4, <2>1, <2>3, <2>5, <2>6, <2>7, DfaFacts, DfaGoesOn
<1> QED
  BY <1>3, <1>4 DEF DfaStart

\* The subset construction ends, one way or the other.
LEMMA BuildEnds ==
  ASSUME Inv, pc = "build", pc' = "built", UNCHANGED <<memory, object, locals, out>>,
         rc' # "OK", rc' = "RUN" => dfaLen > 0
  PROVE  Inv'
<1>1. pc \in AfterNfa /\ pc' \in AfterNfa /\ pc' \notin AfterDfa
  BY DEF AfterNfa, AfterDfa, Compiling
<1>2. Ledger'
  BY LedgerSame DEF Inv, object, Base, Compiling
<1>3. LocalsHeld'
  BY DEF Inv, LocalsHeld
<1> QED
  BY <1>1, <1>2, <1>3, ObjectStays

\* A closure has no memory, or the construction is over.
LEMMA ClosureStep == Inv /\ (ClosureOutOfMemory \/ DfaExplored) => Inv'
<1> SUFFICES ASSUME Inv, ClosureOutOfMemory \/ DfaExplored PROVE Inv'
  OBVIOUS
<1>1. pc = "build" /\ pc \in AfterNfa
  BY DEF ClosureOutOfMemory, DfaExplored, AfterNfa, Compiling
<1>2. rc # "OK"
  BY <1>1, DfaFacts
<1> QED
  BY <1>1, <1>2, BuildEnds DEF ClosureOutOfMemory, DfaExplored, Goto

\* A state is added, or its set has no memory.
LEMMA DfaStateStep == Inv /\ DfaState => Inv'
<1> SUFFICES ASSUME Inv, DfaState PROVE Inv'
  OBVIOUS
<1>1. pc = "build" /\ pc \in AfterNfa /\ pc \in Compiling /\ locals = DfaSets
  BY DEF DfaState, AfterNfa, Compiling, Inv, LocalsHeld
<1>2. <<"hash_buckets", 0>> \in re /\ Parsed \subseteq re
  BY <1>1, DfaFacts DEF Inv, ObjectHas, Parsed
<1>3. CASE /\ ~ LimitReached /\ dfaLen' = dfaLen + 1
           /\ Allocate({<<"dfa.states", 0>>, NfaSet(dfaLen + 1)})
           /\ re' = re \cup {<<"dfa.states", 0>>, NfaSet(dfaLen + 1)}
           /\ UNCHANGED <<nfaLen, flags, locals, out, rc, pc>>
  <2> DEFINE B == {<<"dfa.states", 0>>, NfaSet(dfaLen + 1)}
  <2>1. dfaLen' \in 0 .. MaxDfaStates /\ dfaLen' \in Nat
    BY <1>1, <1>3, DfaFacts DEF LimitReached
  <2>2. Fields \subseteq Fields' /\ Temporary \subseteq Temporary'
    BY <1>1, <1>3, <2>1, DfaFacts, Longer
  <2>3. B \subseteq Fields'
    <3>1. dfaLen + 1 \in 1 .. dfaLen'
      BY <1>1, <1>3, DfaFacts
    <3>2. <<"dfa.states", 0>> \in Fields'
      BY DEF Fields, The
    <3>3. NfaSet(dfaLen + 1) \in Fields'
      BY <3>1 DEF Fields
    <3> QED
      BY <3>2, <3>3
  <2>4. Ledger'
    <3>1. Change(B, B, {}) /\ UNCHANGED lost /\ Base' = Base /\ Ledger
      BY <1>1, <1>3, DfaFacts DEF Allocate, Base
    <3>2. /\ re' \cup locals' = (re \cup locals \cup B) \ {}
          /\ re' \subseteq Fields' /\ locals' \subseteq Temporary'
      BY <1>3, <2>2, <2>3, <3>1 DEF Ledger
    <3> HIDE DEF B
    <3> QED
      BY <3>1, <3>2, LedgerStep
  <2>5. LocalsHeld'
    BY <1>1, <1>3 DEF LocalsHeld
  <2>6. \A i \in 1 .. dfaLen' : NfaSet(i) \in re'
    <3>1. \A i \in 1 .. dfaLen' : i \in 1 .. dfaLen \/ i = dfaLen + 1
      BY <1>1, <1>3, DfaFacts
    <3> QED
      BY <1>1, <1>3, <3>1, DfaFacts
  <2>7. <<"hash_buckets", 0>> \in re' /\ Parsed \subseteq re' /\ <<"dfa.states", 0>> \in re'
    BY <1>2, <1>3
  <2>8. pc' = pc /\ pc \notin AfterDfa
    BY <1>1, <1>3 DEF AfterDfa
  <2> QED
    BY <1>1, <1>3, <2>1, <2>4, <2>5, <2>6, <2>7, <2>8, DfaFacts, DfaGoesOn
<1>4. CASE /\ ~ LimitReached
           /\ \/ Allocate(The({"dfa.states"})) /\ re' = re \cup The({"dfa.states"})
              \/ UNCHANGED <<memory, re>>
           /\ rc' = "ESPACE" /\ Goto("built")
           /\ UNCHANGED <<lens, flags, locals, out>>
  <2>1. pc' = "built" /\ pc' \in AfterNfa /\ pc' \notin AfterDfa /\ pc' \in Compiling
    BY <1>4 DEF Goto, AfterNfa, AfterDfa, Compiling
  <2>2. /\ Fields' = Fields /\ Temporary' = Temporary /\ UNCHANGED <<nfaLen, dfaLen>>
        /\ Base' = Base /\ Ledger
    BY <1>1, <1>4, <2>1, SameLens, DfaFacts DEF Base
  <2>3. Ledger'
    <3>1. CASE UNCHANGED <<memory, re>>
      BY <1>4, <2>2, <3>1, LedgerSame
    <3>2. CASE Allocate(The({"dfa.states"})) /\ re' = re \cup The({"dfa.states"})
      <4>1. The({"dfa.states"}) \subseteq Fields
        BY TheOne, FieldOf
      <4>2. /\ Change(The({"dfa.states"}), The({"dfa.states"}), {}) /\ UNCHANGED lost
            /\ re' \cup locals' = (re \cup locals \cup The({"dfa.states"})) \ {}
            /\ re' \subseteq Fields' /\ locals' \subseteq Temporary'
        BY <1>4, <2>2, <3>2, <4>1 DEF Allocate, Ledger
      <4> QED
        BY <2>2, <4>2, LedgerStep
    <3> QED
      BY <1>4, <3>1, <3>2
  <2>4. LocalsHeld'
    BY <1>1, <1>4, <2>1 DEF LocalsHeld
  <2>5. re \subseteq re'
    BY <1>4
  <2> QED
    BY <1>1, <1>2, <1>4, <2>1, <2>2, <2>3, <2>4, <2>5, DfaFacts, DfaGoesOn
<1>5. CASE /\ rc' = "EUNSUPPORTED" /\ Goto("built")
           /\ UNCHANGED <<memory, object, locals, out>>
  BY <1>1, <1>5, BuildEnds DEF Goto
<1> QED
  BY <1>3, <1>4, <1>5 DEF DfaState

\* dfa_build returns.
LEMMA DfaBuiltStep == Inv /\ DfaBuilt => Inv'
<1> SUFFICES ASSUME Inv, DfaBuilt PROVE Inv'
  OBVIOUS
<1> DEFINE F == DfaSets \cup The({"hash_buckets"})
<1>1. pc = "built" /\ pc \in AfterNfa /\ pc \in Compiling /\ locals = DfaSets
  BY DEF DfaBuilt, AfterNfa, Compiling, Inv, LocalsHeld
<1>2. <<"hash_buckets", 0>> \in re /\ The({"hash_buckets"}) \subseteq re
  BY <1>1, TheOne DEF Inv, ObjectHas
<1>3. /\ Change({}, {}, F) /\ locals' = locals \ F
      /\ UNCHANGED <<lost, out>> /\ re' = re \ The({"hash_buckets"})
      /\ pc' = (IF rc = "RUN" THEN "partition" ELSE "fail")
      /\ UNCHANGED <<lens, flags, rc>>
  BY DEF DfaBuilt, Drop, Free, Goto
<1>4. pc' \in AfterNfa /\ pc' \in Compiling /\ pc' \notin {"sets", "build", "built"}
      /\ (pc' \in AfterDfa => rc = "RUN")
  BY <1>3 DEF AfterNfa, AfterDfa, Compiling
<1>5. /\ Fields' = Fields /\ Temporary' = Temporary /\ UNCHANGED <<nfaLen, dfaLen>>
      /\ Base' = Base /\ Ledger
  BY <1>1, <1>3, <1>4, SameLens, DfaFacts DEF Base
<1>6. locals' = {}
  BY <1>1, <1>3
<1>7. Ledger'
  <2>1. /\ re' \subseteq Fields' /\ locals' \subseteq Temporary'
        /\ re' \cup locals' = (re \cup locals \cup {}) \ F
        /\ F \subseteq {} \cup re \cup locals /\ F \subseteq Fields \cup Temporary
    BY <1>1, <1>2, <1>3, <1>5, Disjoint DEF Ledger
  <2> HIDE DEF F
  <2> QED
    BY <1>3, <1>5, <2>1, LedgerStep
<1>8. LocalsHeld'
  <2>1. pc' \in {"partition", "fail"}
    BY <1>3
  <2> QED
    BY <1>6, <2>1 DEF LocalsHeld
<1>9. /\ Parsed \subseteq re' /\ <<"hash_buckets", 0>> \notin re'
      /\ \A i \in 1 .. dfaLen : NfaSet(i) \in re'
      /\ dfaLen > 0 => <<"dfa.states", 0>> \in re'
  BY <1>1, <1>3, TheOne, ParsedStays, DfaFacts, Different DEF Parsed
<1>10. rc = "RUN" => dfaLen > 0
  BY <1>1 DEF Inv, ObjectHas
<1> QED
  BY <1>1, <1>3, <1>4, <1>5, <1>7, <1>8, <1>9, <1>10, DfaFacts, DfaGoesOn

\* regex_compile_ex frees what it has and returns.
LEMMA CompileFailedStep == Inv /\ CompileFailed => Inv'
<1> SUFFICES ASSUME Inv, CompileFailed PROVE Inv'
  OBVIOUS
<1>1. pc = "fail" /\ pc \in AfterNfa /\ pc \in Compiling /\ locals = {} /\ Fail(rc)
  BY DEF CompileFailed, AfterNfa, Compiling, Inv, LocalsHeld
<1> QED
  BY <1>1, DfaFacts, FailStep

-----------------------------------------------------------------------------
(* dfa_minimize *)

\* What its functions allocate is temporary, and counts towards no other.
LEMMA MinimizeBlocks ==
  /\ Blocks \subseteq Temporary /\ Refining \subseteq Temporary
  /\ The({"items"}) \subseteq Temporary /\ Rebuilding \subseteq Temporary
  /\ The({"new_states"}) \subseteq Temporary
BY DEF Temporary

\* A place of dfa_minimize.
LEMMA AfterDfaFacts ==
  ASSUME Inv, pc \in AfterDfa
  PROVE  pc \in AfterNfa /\ pc \in Compiling /\ dfaLen > 0 /\ dfaLen \in Nat
         /\ pc \notin {"sets", "build", "built"} /\ rc # "OK"
<1>1. pc \in AfterNfa /\ pc \in Compiling /\ pc \notin {"sets", "build", "built"}
  BY DEF AfterDfa, AfterNfa, Compiling
<1> QED
  BY <1>1, DfaFacts DEF Inv, ObjectHas

\* It goes on, or gives up, without the object.
LEMMA MinimizeGoesOn ==
  ASSUME Inv, pc \in AfterDfa, pc' \in AfterDfa \cup {"fail"}, UNCHANGED <<object, out>>,
         rc' # "OK", Ledger', LocalsHeld'
  PROVE  Inv'
<1>1. pc' \in AfterNfa /\ pc' \notin {"sets", "build", "built"}
  BY DEF AfterDfa, AfterNfa, Compiling
<1> QED
  BY <1>1, AfterDfaFacts, ObjectStays

\* dfa_minimize allocates its arrays.
LEMMA MinimizeStep == Inv /\ Minimize => Inv'
<1> SUFFICES ASSUME Inv, Minimize PROVE Inv'
  OBVIOUS
<1>1. pc = "partition" /\ pc \in AfterDfa /\ locals = {}
  BY DEF Minimize, AfterDfa, Inv, LocalsHeld
<1>2. CASE Take(Blocks) /\ Goto("refine")
  <2>1. pc' = "refine" /\ pc' \in Compiling /\ pc' \in AfterDfa
    BY <1>2 DEF Goto, Compiling, AfterDfa
  <2>2. Ledger' /\ locals' = Blocks /\ UNCHANGED <<object, out, rc>>
    BY <1>1, <1>2, <2>1, TakeLedger, MinimizeBlocks, AfterDfaFacts
  <2>3. LocalsHeld'
    BY <2>1, <2>2 DEF LocalsHeld
  <2> QED
    BY <1>1, <2>1, <2>2, <2>3, AfterDfaFacts, MinimizeGoesOn
<1>3. CASE /\ AllocateOrFree(Blocks, Blocks) /\ rc' = "ESPACE" /\ Goto("fail")
           /\ UNCHANGED <<object, locals, out>>
  <2>1. pc' = "fail" /\ pc' \in Compiling
    BY <1>3 DEF Goto, Compiling
  <2>2. PICK got \in (SUBSET Blocks) \ {Blocks} : Change(got, Blocks, Blocks)
    BY <1>3 DEF AllocateOrFree
  <2>3. Ledger'
    BY <1>1, <1>3, <2>1, <2>2, TriedLedger, MinimizeBlocks, AfterDfaFacts DEF AllocateOrFree
  <2>4. LocalsHeld'
    BY <1>1, <1>3, <2>1 DEF LocalsHeld
  <2> QED
    BY <1>1, <1>3, <2>1, <2>3, <2>4, MinimizeGoesOn
<1> QED
  BY <1>2, <1>3 DEF Minimize

\* The arrays of the refinement.
LEMMA RefineStep == Inv /\ Refine => Inv'
<1> SUFFICES ASSUME Inv, Refine PROVE Inv'
  OBVIOUS
<1>1. pc = "refine" /\ pc \in AfterDfa /\ locals = Blocks
  BY DEF Refine, AfterDfa, Inv, LocalsHeld
<1>2. CASE Take(Refining) /\ Goto("split")
  <2>1. pc' = "split" /\ pc' \in Compiling /\ pc' \in AfterDfa
    BY <1>2 DEF Goto, Compiling, AfterDfa
  <2>2. Ledger' /\ locals' = Blocks \cup Refining /\ UNCHANGED <<object, out, rc>>
    BY <1>1, <1>2, <2>1, TakeLedger, MinimizeBlocks, AfterDfaFacts
  <2>3. LocalsHeld'
    BY <2>1, <2>2 DEF LocalsHeld
  <2> QED
    BY <1>1, <2>1, <2>2, <2>3, AfterDfaFacts, MinimizeGoesOn
<1>3. CASE /\ Back("ESPACE")
           /\ \E got \in SUBSET (Refining \ The({"present"})) :
                Change(got, Refining, Refining \ The({"present"}))
           /\ UNCHANGED <<lost, object, locals, out>>
  <2>1. pc' = "minimized" /\ pc' \in Compiling /\ pc' \in AfterDfa /\ rc' = "ESPACE"
    BY <1>3 DEF Back, Goto, Compiling, AfterDfa
  <2>2. PICK got \in SUBSET (Refining \ The({"present"})) :
          Change(got, Refining, Refining \ The({"present"}))
    BY <1>3
  <2>3. (Refining \ The({"present"})) \cap locals = {}
    BY <1>1, Kept
  <2>4. Ledger'
    BY <1>1, <1>3, <2>1, <2>2, <2>3, TriedLedger, MinimizeBlocks, AfterDfaFacts
  <2>5. LocalsHeld'
    BY <1>1, <1>3, <2>1 DEF LocalsHeld
  <2> QED
    BY <1>1, <1>3, <2>1, <2>4, <2>5, MinimizeGoesOn
<1> QED
  BY <1>2, <1>3 DEF Refine

\* The work list grows, or the refinement is over.
LEMMA SplitStep == Inv /\ (WorkList \/ Refined) => Inv'
<1> SUFFICES ASSUME Inv, WorkList \/ Refined PROVE Inv'
  OBVIOUS
<1> DEFINE F == locals \cap (The({"items"}) \cup Refining)
<1>1. /\ pc = "split" /\ pc \in AfterDfa
      /\ \/ locals = Blocks \cup Refining
         \/ locals = Blocks \cup Refining \cup The({"items"})
  BY DEF WorkList, Refined, AfterDfa, Inv, LocalsHeld
<1>2. locals \ F = Blocks
  BY <1>1, Kept
<1>3. CASE Take(The({"items"})) /\ UNCHANGED pc
  <2>1. /\ Ledger' /\ locals' = locals \cup The({"items"}) /\ UNCHANGED <<object, out, rc>>
    BY <1>3, TakeLedger, MinimizeBlocks
  <2>2. LocalsHeld'
    BY <1>1, <1>3, <2>1 DEF LocalsHeld
  <2> QED
    BY <1>1, <1>3, <2>1, <2>2, AfterDfaFacts, MinimizeGoesOn
<1>4. CASE Drop(F) /\ Back("ESPACE") /\ UNCHANGED object
  <2>1. pc' = "minimized" /\ pc' \in Compiling /\ pc' \in AfterDfa /\ rc' = "ESPACE"
    BY <1>4 DEF Back, Goto, Compiling, AfterDfa
  <2>2. Ledger' /\ locals' = locals \ F /\ UNCHANGED out
    BY <1>1, <1>4, <2>1, DropLedger, AfterDfaFacts
  <2>3. LocalsHeld'
    BY <1>2, <2>1, <2>2 DEF LocalsHeld
  <2> QED
    BY <1>1, <1>4, <2>1, <2>2, <2>3, MinimizeGoesOn
<1>5. CASE Refined
  <2>1. /\ pc' = "rebuild" /\ pc' \in Compiling /\ pc' \in AfterDfa
        /\ UNCHANGED <<object, rc>> /\ <<"items", 0>> \in locals
        /\ Drop(The({"items"}) \cup Refining)
    BY <1>5 DEF Refined, Goto, Compiling, AfterDfa
  <2>2. F = The({"items"}) \cup Refining
    BY <1>1, <2>1, TheOne
  <2>3. Ledger' /\ locals' = locals \ F /\ UNCHANGED out
    BY <1>1, <2>1, <2>2, DropLedger, AfterDfaFacts
  <2>4. LocalsHeld'
    BY <1>2, <2>1, <2>3 DEF LocalsHeld
  <2> QED
    BY <1>1, <2>1, <2>3, <2>4, AfterDfaFacts, MinimizeGoesOn
<1> QED
  BY <1>3, <1>4, <1>5 DEF WorkList

\* The arrays of the rebuilt automaton.
LEMMA RebuildStep == Inv /\ Rebuild => Inv'
<1> SUFFICES ASSUME Inv, Rebuild PROVE Inv'
  OBVIOUS
<1>1. pc = "rebuild" /\ pc \in AfterDfa /\ locals = Blocks
  BY DEF Rebuild, AfterDfa, Inv, LocalsHeld
<1>2. ASSUME NEW got \in SUBSET Rebuilding, Change(got, Rebuilding, Rebuilding),
             pc' = "minimized", rc' # "OK", UNCHANGED <<lost, object, locals, out>>
      PROVE  Inv'
  <2>1. pc' \in Compiling /\ pc' \in AfterDfa
    BY <1>2 DEF Compiling, AfterDfa
  <2>2. Ledger'
    BY <1>1, <1>2, <2>1, Kept, TriedLedger, MinimizeBlocks, AfterDfaFacts
  <2>3. LocalsHeld'
    BY <1>1, <1>2 DEF LocalsHeld
  <2> QED
    BY <1>1, <1>2, <2>1, <2>2, <2>3, MinimizeGoesOn
<1>3. CASE \E got \in SUBSET Rebuilding :
             /\ Change(got, Rebuilding, Rebuilding)
             /\ Back(IF got = Rebuilding THEN rc ELSE "ESPACE")
             /\ UNCHANGED <<lost, object, locals, out>>
  BY <1>1, <1>2, <1>3, AfterDfaFacts DEF Back, Goto
<1>4. CASE /\ Change(Rebuilding, Rebuilding, Rebuilding) /\ Back("ESPACE")
           /\ UNCHANGED <<lost, object, locals, out>>
  BY <1>2, <1>4 DEF Back, Goto
<1>5. CASE Take(Rebuilding \cup The({"new_states"})) /\ Goto("copies") /\ dfaLen > 1
  <2>1. pc' = "copies" /\ pc' \in Compiling /\ pc' \in AfterDfa
    BY <1>5 DEF Goto, Compiling, AfterDfa
  <2>2. /\ Ledger' /\ locals' = Blocks \cup Rebuilding \cup The({"new_states"})
        /\ UNCHANGED <<object, out, rc>>
    BY <1>1, <1>5, <2>1, TakeLedger, MinimizeBlocks, AfterDfaFacts
  <2>3. LocalsHeld'
    <3>1. NewSets(0) = {} /\ dfaLen' = dfaLen /\ 0 \in 0 .. dfaLen - 1
      BY <1>1, <1>5, <2>2, AfterDfaFacts DEF NewSets, object, lens
    <3>2. locals' = Blocks \cup Rebuilding \cup The({"new_states"}) \cup NewSets(0)
      BY <2>2, <3>1
    <3> QED
      BY <2>1, <3>1, <3>2 DEF LocalsHeld
  <2> QED
    BY <1>1, <2>1, <2>2, <2>3, AfterDfaFacts, MinimizeGoesOn
<1> QED
  BY <1>3, <1>4, <1>5 DEF Rebuild

\* The copies that exist are counted.
LEMMA CopiedIs ==
  ASSUME Inv, pc = "copies"
  PROVE  /\ Copied \in 0 .. dfaLen - 1
         /\ locals = Blocks \cup Rebuilding \cup The({"new_states"}) \cup NewSets(Copied)
<1>1. PICK k \in 0 .. dfaLen - 1 :
        locals = Blocks \cup Rebuilding \cup The({"new_states"}) \cup NewSets(k)
  BY DEF Inv, LocalsHeld
<1>2. dfaLen \in Nat
  BY AfterDfaFacts DEF AfterDfa
<1>3. \A i : NewSet(i) \notin Blocks \cup Rebuilding \cup The({"new_states"})
  <2>1. \A b \in Blocks \cup Rebuilding \cup The({"new_states"}) : b[1] # "new_set"
    BY TheNames DEF Blocks, Rebuilding
  <2>2. \A i : NewSet(i)[1] = "new_set"
    BY DEF NewSet
  <2> QED
    BY <2>1, <2>2
<1>4. {i \in 1 .. dfaLen : NewSet(i) \in locals} = 1 .. k
  BY <1>1, <1>2, <1>3, Different DEF NewSets
<1>5. Cardinality(1 .. k) = k
  BY <1>1, <1>2, FS_Interval
<1> QED
  BY <1>1, <1>4, <1>5 DEF Copied

\* A set is copied into the rebuilt automaton, or has no memory.
LEMMA CopyStateStep == Inv /\ CopyState => Inv'
<1> SUFFICES ASSUME Inv, CopyState PROVE Inv'
  OBVIOUS
<1> DEFINE k == Copied
           F == NewSets(k) \cup The({"new_states"}) \cup Rebuilding
<1>1. pc = "copies" /\ pc \in AfterDfa /\ k < dfaLen - 1
  BY DEF CopyState, AfterDfa
<1>2. /\ k \in 0 .. dfaLen - 1 /\ dfaLen \in Nat
      /\ locals = Blocks \cup Rebuilding \cup The({"new_states"}) \cup NewSets(k)
  BY <1>1, CopiedIs, AfterDfaFacts
<1>3. \/ Take({NewSet(k + 1)}) /\ UNCHANGED pc
      \/ Drop(F) /\ Back("ESPACE") /\ UNCHANGED object
  BY DEF CopyState
<1> HIDE DEF k
<1>4. CASE Take({NewSet(k + 1)}) /\ UNCHANGED pc
  <2>1. {NewSet(k + 1)} \subseteq Temporary
    <3>1. k + 1 \in 1 .. dfaLen
      BY <1>1, <1>2
    <3> QED
      BY <3>1 DEF Temporary
  <2>2. /\ Ledger' /\ locals' = locals \cup {NewSet(k + 1)} /\ UNCHANGED <<object, out, rc>>
    BY <1>4, <2>1, TakeLedger
  <2>3. NewSets(k + 1) = NewSets(k) \cup {NewSet(k + 1)}
    <3>1. 1 .. k + 1 = (1 .. k) \cup {k + 1}
      BY <1>2
    <3> QED
      BY <3>1 DEF NewSets
  <2>4. k + 1 \in 0 .. dfaLen' - 1
    BY <1>1, <1>2, <2>2 DEF object, lens
  <2>5. locals' = Blocks \cup Rebuilding \cup The({"new_states"}) \cup NewSets(k + 1)
    BY <1>2, <2>2, <2>3
  <2>6. LocalsHeld'
    BY <1>1, <1>4, <2>4, <2>5 DEF LocalsHeld
  <2> QED
    BY <1>1, <1>4, <2>2, <2>6, AfterDfaFacts, MinimizeGoesOn
<1>5. CASE Drop(F) /\ Back("ESPACE") /\ UNCHANGED object
  <2>1. pc' = "minimized" /\ pc' \in Compiling /\ pc' \in AfterDfa /\ rc' = "ESPACE"
    BY <1>5 DEF Back, Goto, Compiling, AfterDfa
  <2>2. Ledger' /\ locals' = locals \ F /\ UNCHANGED out
    BY <1>1, <1>2, <1>5, <2>1, DropLedger, AfterDfaFacts
  <2>3. locals' = Blocks
    BY <1>2, <2>2, Kept
  <2>4. LocalsHeld'
    BY <2>1, <2>3 DEF LocalsHeld
  <2> QED
    BY <1>1, <1>5, <2>1, <2>2, <2>4, MinimizeGoesOn
<1> QED
  BY <1>3, <1>4, <1>5

\* The old states go, the new ones come.
LEMMA ReplaceStep == Inv /\ Replace => Inv'
<1> SUFFICES ASSUME Inv, Replace PROVE Inv'
  OBVIOUS
<1> DEFINE k == Copied
           old == The({"dfa.states"}) \cup {NfaSet(i) : i \in 1 .. dfaLen}
           new == The({"dfa.states"}) \cup {NfaSet(i) : i \in 1 .. k}
           tmp == The({"new_states"}) \cup NewSets(k)
<1>1. pc = "copies" /\ pc \in AfterDfa /\ pc \in AfterNfa /\ k > 0
  BY AfterDfaFacts DEF Replace, AfterDfa
<1>2. /\ k \in 0 .. dfaLen - 1 /\ dfaLen \in Nat
      /\ locals = Blocks \cup Rebuilding \cup The({"new_states"}) \cup NewSets(k)
  BY <1>1, CopiedIs, AfterDfaFacts
<1>3. /\ twice' = twice \cup ((old \cup Rebuilding) \ heap)
      /\ heap' = (heap \ (old \cup tmp \cup Rebuilding)) \cup new
      /\ re' = (re \ old) \cup new
      /\ locals' = locals \ (tmp \cup Rebuilding)
      /\ dfaLen' = k /\ pc' = "minimized"
      /\ UNCHANGED <<lost, nfaLen, flags, out, rc>>
  BY DEF Replace, NewLen, Goto
<1>4. old \subseteq re /\ tmp \cup Rebuilding \subseteq locals
  <2>1. The({"dfa.states"}) \subseteq re
    BY <1>1, TheOne, DfaFacts, AfterDfaFacts
  <2>2. {NfaSet(i) : i \in 1 .. dfaLen} \subseteq re
    BY <1>1, DfaFacts
  <2>3. tmp \cup Rebuilding \subseteq locals
    BY <1>2
  <2> QED
    BY <2>1, <2>2, <2>3
<1>5. /\ pc' \in AfterDfa /\ pc' \in AfterNfa /\ pc' \notin {"sets", "build", "built"}
      /\ Base' = Base /\ Ledger
  BY <1>1, <1>3, DfaFacts DEF AfterDfa, AfterNfa, Compiling, Base
<1>6. 1 .. k \subseteq 1 .. dfaLen /\ k \in 0 .. MaxDfaStates
  BY <1>1, <1>2, DfaFacts
<1>7. new \subseteq old
  BY <1>6
<1>8. <<"dfa.states", 0>> \in re' /\ \A i \in 1 .. k : NfaSet(i) \in re'
  BY <1>3, TheOne
<1>9. Parsed \subseteq re' /\ (<<"hash_buckets", 0>> \in re' <=> <<"hash_buckets", 0>> \in re)
  <2>1. <<"hash_buckets", 0>> \notin old /\ Parsed \cap old = {}
    <3>1. <<"hash_buckets", 0>> # <<"dfa.states", 0>>
      OBVIOUS
    <3>2. old = {<<"dfa.states", 0>>} \cup {NfaSet(i) : i \in 1 .. dfaLen}
      BY TheOne
    <3>3. <<"hash_buckets", 0>> \notin old
      BY <3>1, <3>2, Different
    <3> QED
      BY <3>3, ParsedStays
  <2>2. Parsed \subseteq re
    BY <1>1, DfaFacts DEF Parsed
  <2> QED
    BY <1>3, <1>7, <2>1, <2>2
<1> HIDE DEF k, old, new, tmp
<1>10. locals' = Blocks
  BY <1>2, <1>3, Kept DEF tmp
<1>11. Ledger'
  <2>1. heap = Base \cup re \cup locals \cup lost /\ twice = {} /\ re \cap locals = {}
        /\ (Base \cup lost) \cap (re \cup locals) = {}
    BY <1>5, Disjoint DEF Ledger, Base
  <2>2. twice' = {} /\ heap' = Base' \cup re' \cup locals' \cup lost'
    BY <1>3, <1>4, <1>5, <1>7, <2>1
  <2>3. re' \subseteq Fields'
    <3>1. Fields' = The({"pattern", "ast", "nfa.states", "dfa.states", "hash_buckets"})
                      \cup {Items(i) : i \in 1 .. nfaLen} \cup {NfaSet(i) : i \in 1 .. k}
      BY <1>3 DEF Fields
    <3>2. re \subseteq The({"pattern", "ast", "nfa.states", "dfa.states", "hash_buckets"})
                      \cup {Items(i) : i \in 1 .. nfaLen} \cup {NfaSet(i) : i \in 1 .. dfaLen}
      BY <1>5 DEF Ledger, Fields
    <3>3. {NfaSet(i) : i \in 1 .. dfaLen} \subseteq old
      BY DEF old
    <3>4. new \subseteq Fields'
      BY <3>1, TheOne DEF new, The
    <3> QED
      BY <1>3, <3>1, <3>2, <3>3, <3>4
  <2>4. locals' \subseteq Temporary'
    BY <1>10 DEF Temporary
  <2> QED
    BY <1>3, <1>5, <2>2, <2>3, <2>4 DEF Ledger
<1>12. LocalsHeld'
  BY <1>3, <1>10 DEF LocalsHeld
<1>13. <<"hash_buckets", 0>> \notin re'
  BY <1>1, <1>9 DEF Inv, ObjectHas
<1> QED
  BY <1>1, <1>3, <1>5, <1>6, <1>8, <1>9, <1>11, <1>12, <1>13, DfaFacts, DfaGoesOn

\* dfa_minimize returns.
LEMMA MinimizedStep == Inv /\ Minimized => Inv'
<1> SUFFICES ASSUME Inv, Minimized PROVE Inv'
  OBVIOUS
<1>1. /\ pc = "minimized" /\ pc \in AfterDfa /\ pc \in AfterNfa /\ locals = Blocks
      /\ Free(Blocks) /\ locals' = {} /\ UNCHANGED <<lost, object>>
  BY AfterDfaFacts DEF Minimized, AfterDfa, Inv, LocalsHeld
<1>2. \/ pc' = "idle" /\ rc' = "OK" /\ out' = Object
      \/ pc' = "fail" /\ UNCHANGED <<out, rc>>
  BY DEF Minimized, Publish, Return, Goto
<1>3. /\ UNCHANGED <<nfaLen, dfaLen, re, flags>> /\ Fields' = Fields /\ Temporary' = Temporary
  BY <1>1, SameLens DEF object, lens
<1>4. Base' = Base /\ Ledger
  BY <1>1, <1>2, DfaFacts DEF Base, Compiling
<1>5. Ledger'
  <2>1. /\ Change({}, {}, Blocks) /\ re' \cup locals' = (re \cup locals \cup {}) \ Blocks
        /\ re' \subseteq Fields' /\ locals' \subseteq Temporary' /\ Blocks \subseteq Temporary
    BY <1>1, <1>3, <1>4, Disjoint, MinimizeBlocks DEF Free, Ledger
  <2> QED
    BY <1>1, <1>4, <2>1, LedgerStep
<1>6. LocalsHeld'
  BY <1>1, <1>2 DEF LocalsHeld
<1>7. CASE pc' = "idle" /\ rc' = "OK" /\ out' = Object
  <2>1. ObjectHas'
    BY <1>1, <1>3, <1>7, DfaFacts, AfterDfaFacts DEF Inv, ObjectHas, Compiling, AfterNfa, AfterDfa
  <2>2. Status'
    BY <1>1, <1>3, <1>7, DfaFacts DEF Status, Compiling, Calling, AfterNfa
  <2> QED
    BY <1>5, <1>6, <2>1, <2>2 DEF Inv
<1>8. CASE pc' = "fail" /\ UNCHANGED <<out, rc>>
  BY <1>1, <1>5, <1>6, <1>8, AfterDfaFacts, MinimizeGoesOn
<1> QED
  BY <1>2, <1>7, <1>8

-----------------------------------------------------------------------------
(* The calls on an object. *)

\* What a call allocates is temporary.
LEMMA CallBlocks ==
  /\ Matches \subseteq Temporary /\ Sets \subseteq Temporary /\ SetItems \subseteq Temporary
  /\ Slots \subseteq Temporary /\ Tags \subseteq Temporary /\ UNION Grown \subseteq Temporary
BY DEF Temporary

\* A call works on an object that was handed out.
LEMMA CallFacts ==
  ASSUME Inv, pc \in Calling
  PROVE  out = Object /\ pc \notin Compiling /\ pc # "idle" /\ pc \notin AfterDfa
         /\ pc \notin AfterNfa /\ (pc # "built")
BY DEF Inv, Status, Calling, Compiling, AfterNfa, AfterDfa

\* A call goes on or returns, and leaves the object alone.
LEMMA CallGoesOn ==
  ASSUME Inv, pc \in Calling \cup {"idle"}, out = Object, pc' \in Calling \cup {"idle"},
         UNCHANGED <<object, out>>, Ledger', LocalsHeld'
  PROVE  Inv'
<1>1. UNCHANGED <<re, nfaLen, dfaLen, flags, out>>
  BY DEF object, lens
<1>2. /\ pc \notin {"sets", "build", "built"} /\ pc' \notin {"sets", "build", "built"}
      /\ pc' \notin Compiling \cup AfterNfa \cup AfterDfa
  BY DEF Calling, Compiling, AfterNfa, AfterDfa
<1>3. ObjectHas'
  BY <1>1, <1>2 DEF Inv, ObjectHas
<1>4. Status'
  BY <1>1, <1>2 DEF Inv, Status
<1> QED
  BY <1>3, <1>4 DEF Inv

\* Nothing is got or freed.
LEMMA CallMoves ==
  ASSUME Inv, pc \in {"idle", "run", "fill", "filled"}, out = Object,
         pc' \in {"run", "fill", "filled", "answered"}, UNCHANGED <<memory, object, locals, out>>
  PROVE  Inv'
<1>1. pc \in Calling \cup {"idle"} /\ pc' \in Calling
      /\ pc \notin Compiling /\ pc' \notin Compiling
  BY DEF Calling, Compiling
<1>2. Ledger'
  BY <1>1, LedgerSame DEF Inv, Base, object
<1>3. LocalsHeld'
  BY DEF Inv, LocalsHeld
<1> QED
  BY <1>1, <1>2, <1>3, CallGoesOn

\* What is wanted is not got, and a part of it freed.
LEMMA CallGivesUp ==
  ASSUME Inv, pc \in {"run", "fill"}, pc' = "answered",
         NEW got, NEW wanted, Change(got, wanted, wanted), got \subseteq wanted,
         wanted \subseteq Temporary, wanted \cap Matches = {},
         UNCHANGED <<lost, object, locals, out>>
  PROVE  Inv'
<1>1. pc \in Calling /\ pc' \in Calling /\ pc' \notin Compiling
  BY DEF Calling, Compiling
<1>2. locals \subseteq Matches
  BY DEF Inv, LocalsHeld
<1>3. Ledger'
  BY <1>1, <1>2, TriedLedger, CallFacts
<1>4. LocalsHeld'
  BY <1>2 DEF LocalsHeld
<1> QED
  BY <1>1, <1>3, <1>4, CallFacts, CallGoesOn

\* A matching call begins.
LEMMA MatchStep == Inv /\ (Match \/ FindAll) => Inv'
<1> SUFFICES ASSUME Inv, Match \/ FindAll PROVE Inv'
  OBVIOUS
<1>1. /\ pc = "idle" /\ out = Object /\ UNCHANGED <<object, out>> /\ locals = {}
  BY DEF Match, FindAll, Inv, LocalsHeld
<1>2. CASE Match
  BY <1>1, <1>2, CallMoves DEF Match, Goto
<1>3. CASE FindAll /\ pc' = "run"
  <2>1. /\ Allocate(The({"matches"})) /\ locals' = The({"matches"})
    BY <1>1, <1>3 DEF FindAll, Goto, Return
  <2>2. /\ Change(Matches, Matches, {}) /\ lost' = lost /\ locals' = Matches
        /\ re' = re /\ UNCHANGED lens
    BY <1>1, <2>1 DEF Allocate, Matches, object
  <2>3. Base' = Base /\ Ledger /\ Fields' = Fields /\ Temporary' = Temporary
    BY <1>1, <1>3, <2>2, SameLens DEF Base, Inv
  <2>4. /\ re' \cup locals' = (re \cup locals \cup Matches) \ {}
        /\ re' \subseteq Fields' /\ locals' \subseteq Temporary'
    BY <1>1, <2>2, <2>3, CallBlocks DEF Ledger
  <2>5. Ledger'
    BY <2>2, <2>3, <2>4, LedgerStep
  <2>6. LocalsHeld'
    BY <1>3, <2>2 DEF LocalsHeld
  <2> QED
    BY <1>1, <1>3, <2>5, <2>6, CallGoesOn DEF Calling
<1>4. CASE FindAll /\ pc' # "run"
  <2>1. pc' = "idle" /\ UNCHANGED <<memory, locals>>
    BY <1>4 DEF FindAll, Goto, Return
  <2>2. Ledger'
    BY <1>1, <2>1, LedgerSame DEF Inv, Base, object
  <2>3. LocalsHeld'
    BY <1>1, <2>1 DEF LocalsHeld
  <2> QED
    BY <1>1, <2>1, <2>2, <2>3, CallGoesOn
<1> QED
  BY <1>2, <1>3, <1>4

\* One of the engines is asked.
LEMMA RunStep == Inv /\ (RunDfa \/ RunNfa) => Inv'
<1> SUFFICES ASSUME Inv, RunDfa \/ RunNfa PROVE Inv'
  OBVIOUS
<1>1. pc = "run" /\ pc \in Calling /\ locals \subseteq Matches
  BY DEF RunDfa, RunNfa, Calling, Inv, LocalsHeld
<1>2. CASE RunDfa
  BY <1>1, <1>2, CallMoves, CallFacts DEF RunDfa, Goto
<1>3. CASE RunNfa /\ Take(Sets) /\ Goto("running")
  <2>1. pc' = "running" /\ pc' \notin Compiling /\ pc' \in Calling
    BY <1>3 DEF Goto, Compiling, Calling
  <2>2. Ledger' /\ locals' = locals \cup Sets /\ UNCHANGED <<object, out>>
    BY <1>1, <1>3, <2>1, TakeLedger, CallBlocks, CallFacts
  <2>3. LocalsHeld'
    BY <1>1, <2>1, <2>2 DEF LocalsHeld
  <2> QED
    BY <1>1, <2>1, <2>2, <2>3, CallFacts, CallGoesOn
<1>4. CASE RunNfa /\ ~ (Take(Sets) /\ Goto("running"))
  <2>1. PICK got \in SUBSET The({"cur.seen"}) : Change(got, Sets, Sets)
    BY <1>4 DEF RunNfa
  <2>2. pc' = "answered" /\ UNCHANGED <<lost, object, locals, out>>
    BY <1>4 DEF RunNfa, Goto
  <2>3. got \subseteq Sets
    BY <2>1 DEF Sets, The
  <2> QED
    BY <1>1, <2>1, <2>2, <2>3, Kept, CallBlocks, CallGivesUp
<1> QED
  BY <1>2, <1>3, <1>4

\* nfa_run_from runs and returns.
LEMMA RunningStep == Inv /\ RunningNfa => Inv'
<1> SUFFICES ASSUME Inv, RunningNfa PROVE Inv'
  OBVIOUS
<1> DEFINE F == locals \cap (Sets \cup SetItems)
<1>1. /\ pc = "running" /\ pc \in Calling /\ Sets \subseteq locals
      /\ locals \subseteq Matches \cup Sets \cup SetItems
  BY DEF RunningNfa, Calling, Inv, LocalsHeld
<1>2. CASE \E b \in SetItems : Take({b}) /\ UNCHANGED pc
  <2>1. PICK b \in SetItems : Take({b}) /\ UNCHANGED pc
    BY <1>2
  <2>2. Ledger' /\ locals' = locals \cup {b} /\ UNCHANGED <<object, out>>
    BY <2>1, TakeLedger, CallBlocks
  <2>3. LocalsHeld'
    BY <1>1, <2>1, <2>2 DEF LocalsHeld
  <2> QED
    BY <1>1, <2>1, <2>2, <2>3, CallFacts, CallGoesOn
<1>3. CASE /\ Drop(F) /\ UNCHANGED object
           /\ \/ pc' \in {"fill", "run", "answered"} /\ UNCHANGED rc
              \/ rc' = "ESPACE" /\ Goto("answered")
  <2>1. pc' \in {"fill", "run", "answered"} /\ pc' \notin Compiling /\ pc' \in Calling
    BY <1>3 DEF Goto, Compiling, Calling
  <2>2. Ledger' /\ locals' = locals \ F /\ UNCHANGED out
    BY <1>1, <1>3, <2>1, DropLedger, CallFacts
  <2>3. LocalsHeld'
    BY <1>1, <2>1, <2>2 DEF LocalsHeld
  <2> QED
    BY <1>1, <1>3, <2>1, <2>2, <2>3, CallFacts, CallGoesOn
<1> QED
  BY <1>2, <1>3 DEF RunningNfa

\* fill_match begins and ends.
LEMMA FillStep == Inv /\ (Fill \/ Filled) => Inv'
<1> SUFFICES ASSUME Inv, Fill \/ Filled PROVE Inv'
  OBVIOUS
<1>1. pc \in {"fill", "filled"} /\ pc \in Calling /\ locals \subseteq Matches
  BY DEF Fill, Filled, Calling, Inv, LocalsHeld
<1>2. CASE Filled \/ (Goto("filled") /\ UNCHANGED <<memory, object, locals, out, rc>>)
  BY <1>1, <1>2, CallMoves, CallFacts DEF Filled, Goto
<1>3. CASE Fill /\ Take(Slots \cup Tags) /\ Goto("tracing")
  <2>1. pc' = "tracing" /\ pc' \notin Compiling /\ pc' \in Calling
    BY <1>3 DEF Goto, Compiling, Calling
  <2>2. Ledger' /\ locals' = locals \cup (Slots \cup Tags) /\ UNCHANGED <<object, out>>
    BY <1>1, <1>3, <2>1, TakeLedger, CallBlocks, CallFacts
  <2>3. LocalsHeld'
    BY <1>1, <2>1, <2>2 DEF LocalsHeld
  <2> QED
    BY <1>1, <2>1, <2>2, <2>3, CallFacts, CallGoesOn
<1>4. CASE /\ pc = "fill"
           /\ \E got \in (SUBSET Slots) \cup {Slots \cup The({"current.seen"})} :
                Change(got, Slots \cup Tags, Slots \cup Tags)
           /\ rc' = "ESPACE" /\ Goto("answered")
           /\ UNCHANGED <<lost, object, locals, out>>
  <2>1. PICK got \in (SUBSET Slots) \cup {Slots \cup The({"current.seen"})} :
          Change(got, Slots \cup Tags, Slots \cup Tags)
    BY <1>4
  <2>2. The({"current.seen"}) \subseteq Tags
    BY DEF Tags, The
  <2>3. got \subseteq Slots \cup Tags
    BY <2>1, <2>2
  <2>4. Slots \cup Tags \subseteq Temporary /\ (Slots \cup Tags) \cap Matches = {}
    BY Kept, CallBlocks
  <2> QED
    BY <1>4, <2>1, <2>3, <2>4, CallGivesUp DEF Goto
<1> QED
  BY <1>2, <1>3, <1>4 DEF Fill

\* nfa_capture_span runs and returns.
LEMMA TracingStep == Inv /\ Tracing => Inv'
<1> SUFFICES ASSUME Inv, Tracing PROVE Inv'
  OBVIOUS
<1> DEFINE F == Slots \cup Tags \cup (locals \cap UNION Grown)
<1>1. /\ pc = "tracing" /\ pc \in Calling /\ Slots \cup Tags \subseteq locals
      /\ locals \subseteq Matches \cup Slots \cup Tags \cup UNION Grown
  BY DEF Tracing, Calling, Inv, LocalsHeld
<1>2. CASE \E arrays \in Grown : Take(arrays) /\ UNCHANGED pc
  <2>1. PICK arrays \in Grown : Take(arrays) /\ UNCHANGED pc
    BY <1>2
  <2>2. arrays \subseteq UNION Grown
    BY <2>1
  <2>3. Ledger' /\ locals' = locals \cup arrays /\ UNCHANGED <<object, out>>
    BY <2>1, <2>2, TakeLedger, CallBlocks
  <2>4. LocalsHeld'
    BY <1>1, <2>1, <2>2, <2>3 DEF LocalsHeld
  <2> QED
    BY <1>1, <2>1, <2>3, <2>4, CallFacts, CallGoesOn
<1>3. CASE /\ Drop(F) /\ UNCHANGED object
           /\ \/ Goto("filled") /\ UNCHANGED rc
              \/ rc' = "ESPACE" /\ Goto("answered")
  <2>1. pc' \in {"filled", "answered"} /\ pc' \notin Compiling /\ pc' \in Calling
    BY <1>3 DEF Goto, Compiling, Calling
  <2>2. Ledger' /\ locals' = locals \ F /\ UNCHANGED out
    BY <1>1, <1>3, <2>1, DropLedger, CallFacts
  <2>3. LocalsHeld'
    BY <1>1, <2>1, <2>2 DEF LocalsHeld
  <2> QED
    BY <1>1, <1>3, <2>1, <2>2, <2>3, CallFacts, CallGoesOn
<1> QED
  BY <1>2, <1>3 DEF Tracing

\* The call returns.
LEMMA AnsweredStep == Inv /\ Answered => Inv'
<1> SUFFICES ASSUME Inv, Answered PROVE Inv'
  OBVIOUS
<1>1. /\ pc = "answered" /\ pc \in Calling /\ locals \subseteq Matches /\ UNCHANGED object
      /\ Drop(locals \cap Matches) /\ pc' = "idle"
  BY DEF Answered, Calling, Inv, LocalsHeld, Matches, Return
<1>2. pc' \notin Compiling
  BY <1>1 DEF Compiling
<1>3. Ledger' /\ locals' = locals \ (locals \cap Matches) /\ UNCHANGED out
  BY <1>1, <1>2, DropLedger, CallFacts
<1>4. LocalsHeld'
  BY <1>1, <1>3 DEF LocalsHeld
<1> QED
  BY <1>1, <1>3, <1>4, CallFacts, CallGoesOn

-----------------------------------------------------------------------------
\* Every step keeps the invariant.
LEMMA InvStep == Inv /\ [Next]_vars => Inv'
<1> SUFFICES ASSUME Inv, [Next]_vars PROVE Inv'
  OBVIOUS
<1>1. CASE UNCHANGED vars
  <2>1. UNCHANGED <<heap, twice, lost, re, nfaLen, dfaLen, flags, locals, out, rc, pc>>
    BY <1>1 DEF vars, memory, object, lens
  <2>2. Ledger'
    BY <2>1 DEF Inv, Ledger, Base, Fields, Temporary
  <2>3. LocalsHeld' /\ ObjectHas' /\ Status'
    BY <2>1 DEF Inv, LocalsHeld, ObjectHas, Status
  <2> QED
    BY <2>2, <2>3 DEF Inv
<1>2. CASE Next
  <2>1. CASE \/ RefusePattern \/ Refuse \/ Compile \/ CopyPattern \/ Parse \/ ParseLoses
             \/ NfaState \/ NfaTransition \/ NfaBuilt
    BY <2>1, CompileStep, CopyPatternStep, ParseStep, ParseLosesStep, NfaStep, NfaBuiltStep
  <2>2. CASE \/ DfaHash \/ DfaStart \/ ClosureOutOfMemory \/ DfaState \/ DfaExplored
             \/ DfaBuilt \/ CompileFailed
    BY <2>2, DfaHashStep, DfaStartStep, ClosureStep, DfaStateStep, DfaBuiltStep,
       CompileFailedStep
  <2>3. CASE \/ Minimize \/ Refine \/ WorkList \/ Refined
             \/ Rebuild \/ CopyState \/ Replace \/ Minimized
    BY <2>3, MinimizeStep, RefineStep, SplitStep, RebuildStep, CopyStateStep,
       ReplaceStep, MinimizedStep
  <2>4. CASE \/ Match \/ FindAll \/ RunDfa \/ RunNfa \/ RunningNfa
             \/ Fill \/ Tracing \/ Filled \/ Answered \/ RegexFree
    BY <2>4, MatchStep, RunStep, RunningStep, FillStep, TracingStep, AnsweredStep,
       RegexFreeStep
  <2> QED
    BY <1>2, <2>1, <2>2, <2>3, <2>4 DEF Next
<1> QED
  BY <1>1, <1>2

\* No block is freed twice and no pointer in use leads to a freed block, whichever
\* allocation fails in regex_compile_ex, in a call that matches or before
\* regex_free.
THEOREM NoDanglingPointer == Spec => []MemoryIsSafe
<1>1. Inv => MemoryIsSafe
  BY DEF Inv, Ledger, MemoryIsSafe
<1> QED
  BY <1>1, InvInit, InvStep, PTL DEF Spec

\* Between calls exactly the object's own blocks are allocated, but for what
\* rx_parse_pattern loses.
THEOREM NothingLeaksElsewhere == Spec => []NothingElseStays
<1>1. Inv => NothingElseStays
  <2> SUFFICES ASSUME Inv, pc = "idle"
               PROVE  /\ locals = {}
                      /\ heap \ lost = IF out = Object THEN Reachable ELSE {}
    BY DEF NothingElseStays
  <2>1. locals = {} /\ (out # Object => re = {})
    BY DEF Inv, LocalsHeld, ObjectHas
  <2>2. (Base \cup re \cup locals) \cap lost = {}
    BY Disjoint DEF Inv, Ledger, Base
  <2>3. heap \ lost = Base \cup re
    BY <2>1, <2>2 DEF Inv, Ledger
  <2>4. "idle" \notin Compiling
    BY DEF Compiling
  <2> QED
    BY <2>1, <2>3, <2>4, ReachableIsAll DEF Inv, Base
<1> QED
  BY <1>1, InvInit, InvStep, PTL DEF Spec

\* An object that is handed out has all the blocks that the calls on it read.
THEOREM HandedOutWhole == Spec => []ObjectIsWhole
<1>1. Inv => ObjectIsWhole
  <2> SUFFICES ASSUME Inv, out = Object PROVE ObjectIsWhole
    BY DEF ObjectIsWhole
  <2>1. pc \notin Compiling /\ pc \notin {"sets", "build", "built"}
    BY DEF Inv, Status, Null, Object, Compiling
  <2>2. The({"pattern", "ast", "nfa.states"}) \subseteq re /\ <<"hash_buckets", 0>> \notin re
    BY <2>1 DEF Inv, ObjectHas, The
  <2>3. ASSUME flags = "DFA"
        PROVE  /\ dfaLen > 0 /\ <<"dfa.states", 0>> \in re
               /\ {i \in 1 .. MaxDfaStates : NfaSet(i) \in re} = 1 .. dfaLen
    <3>1. dfaLen > 0 /\ <<"dfa.states", 0>> \in re /\ dfaLen \in 0 .. MaxDfaStates
          /\ MaxDfaStates \in Nat
      BY <2>3, LifetimeAssumption DEF Inv, ObjectHas, LifetimeAssumption
    <3>2. \A i : NfaSet(i) \in Fields => i \in 1 .. dfaLen
      <4>1. \A i : NfaSet(i)[1] = "nfa_set"
        BY DEF NfaSet
      <4>2. \A i : NfaSet(i) \notin
                 The({"pattern", "ast", "nfa.states", "dfa.states", "hash_buckets"})
        BY <4>1, TheNames
      <4> QED
        BY <4>2, Different DEF Fields
    <3>3. \A i \in 1 .. dfaLen : NfaSet(i) \in re
      BY DEF Inv, ObjectHas
    <3> QED
      BY <3>1, <3>2, <3>3 DEF Inv, Ledger
  <2> QED
    BY <2>2, <2>3 DEF ObjectIsWhole
<1> QED
  BY <1>1, InvInit, InvStep, PTL DEF Spec

\* When regex_compile_ex returns, *out is an object exactly if it says RX_OK, and
\* NULL otherwise.
THEOREM OutIsTold == Spec => OutTellsResult
<1>1. Inv /\ [Next]_vars =>
        [(pc \in Compiling /\ pc' = "idle") =>
           (out' = IF rc' = "OK" THEN Object ELSE Null)]_vars
  <2> SUFFICES ASSUME Inv, Next, pc \in Compiling, pc' = "idle"
               PROVE  out' = IF rc' = "OK" THEN Object ELSE Null
    OBVIOUS
  <2>1. out = Null /\ rc # "OK" /\ pc # "idle" /\ pc \notin Calling
    BY DEF Inv, Status, Compiling, Calling
  <2>2. \A status : Fail(status) => rc' = status /\ out' = out
    BY DEF Fail, Return
  <2>3. CASE CopyPattern \/ Parse \/ ParseLoses \/ NfaState \/ NfaTransition
    BY <2>1, <2>2, <2>3
       DEF CopyPattern, Parse, ParseLoses, NfaState, NfaTransition, Goto, Return
  <2>4. CASE NfaBuilt \/ Minimized
    BY <2>1, <2>4 DEF NfaBuilt, Minimized, Publish, Return, Goto
  <2>5. CASE DfaHash \/ CompileFailed
    BY <2>1, <2>2, <2>5 DEF DfaHash, CompileFailed, Goto
  <2>6. CASE DfaStart \/ ClosureOutOfMemory \/ DfaState \/ DfaExplored \/ DfaBuilt
    BY <2>6 DEF DfaStart, ClosureOutOfMemory, DfaState, DfaExplored, DfaBuilt, Goto
  <2>7. CASE Minimize \/ Refine \/ WorkList \/ Refined \/ Rebuild \/ CopyState \/ Replace
    BY <2>7 DEF Minimize, Refine, WorkList, Refined, Rebuild, CopyState, Replace, Back, Goto
  <2>8. CASE \/ RefusePattern \/ Refuse \/ Compile \/ Match \/ FindAll \/ RegexFree
             \/ RunDfa \/ RunNfa \/ RunningNfa \/ Fill \/ Tracing \/ Filled \/ Answered
    BY <2>1, <2>8
       DEF RefusePattern, Refuse, Compile, Match, FindAll, RegexFree, RunDfa, RunNfa,
           RunningNfa, Fill, Tracing, Filled, Answered, Calling
  <2> QED
    BY <2>3, <2>4, <2>5, <2>6, <2>7, <2>8 DEF Next
<1> QED
  BY <1>1, InvInit, InvStep, PTL DEF Spec, OutTellsResult

=============================================================================
