------------------------------- MODULE Documents -------------------------------
(***************************************************************************)
(* The documents every HTTP request of the gateway shares without a lock:   *)
(* the memory and the profile, JSON files that are loaded, edited and       *)
(* written back, and the settings of the language model, copied, edited and *)
(* put back.  A request has at most one document in hand.                   *)
(***************************************************************************)
EXTENDS Naturals, FiniteSets, Sequences, SequencesExt

CONSTANTS
  Requests,     \* the slots in which requests run at the same time
  Facts,        \* what a profile may remember
  MaxEntries,   \* entries a memory keeps (500)
  MaxFacts      \* facts a profile keeps (40)

\* A turn adds a fact of its own to a profile.
ASSUME DocumentsAssumption ==
  MaxEntries \in Nat \ {0} /\ MaxFacts \in Nat \ {0} /\ Facts # {}

VARIABLES
  file,         \* what is stored: the document, and whether its bytes are whole
  hand,         \* the document each request is editing
  calm,         \* has every edit so far been alone with its document?
  ledger        \* while calm, the document that its edits make, in their order

docVars == <<file, hand, calm, ledger>>

Kinds == {"memory", "profile", "settings"}

Blank == [memory   |-> <<>>,
          profile  |-> [name |-> "none", facts |-> <<>>],
          settings |-> [model |-> FALSE, key |-> FALSE]]

NoEdit == [of |-> "memory", do |-> "none"]
Free == [at |-> "free", edit |-> NoEdit, draft |-> Blank]

\* What a document of each kind can be; of a name only matters whether there is one.
Names == {"none", "Sam", "Alex"}
Roles == {"user", "assistant", "source"}
Memories == {m \in Seq([by : Nat, role : Roles]) : Len(m) <= MaxEntries}
Profiles == [name : Names, facts : {f \in Seq(Facts) : Len(f) <= MaxFacts}]
Shelves == [memory : Memories, profile : Profiles, settings : [model : BOOLEAN, key : BOOLEAN]]

\* Edits: a turn appended to the memory, a field or a fact of the profile, a field of
\* the settings, and the edits by index of the profile page.
Edits ==
       [of : {"memory"}, do : {"append"}, by : Nat, role : Roles]
  \cup [of : {"memory", "profile"}, do : {"clear"}]
  \cup [of : {"profile"}, do : {"name"}, name : Names]
  \cup [of : {"profile"}, do : {"fact", "forget"}, fact : Facts]
  \cup [of : {"profile"}, do : {"remove"}, i : Nat]
  \cup [of : {"profile"}, do : {"update"}, i : Nat, fact : Facts]
  \cup [of : {"profile"}, do : {"move"}, i : Nat, j : Nat]
  \cup [of : {"profile"}, do : {"reorder"}, order : Seq(Nat)]
  \cup [of : {"profile"}, do : {"clear_facts"}]
  \cup [of : {"settings"}, do : {"model", "key"}]

\* The last n of a sequence: what draining the oldest leaves.
LastOf(s, n) == IF Len(s) > n THEN SubSeq(s, Len(s) - n + 1, Len(s)) ELSE s

Entry(e) == [by |-> e.by, role |-> e.role]

\* Mutant of AddFact: the oldest fact makes room before the fact is found to be known.
AddFactDrains(facts, f) ==
  LET kept == LastOf(facts, MaxFacts - 1)
  IN  IF f \in Range(kept) THEN kept ELSE Append(kept, f)

AddFact(facts, f) ==
  LastOf(IF f \in Range(facts) THEN facts ELSE Append(facts, f), MaxFacts)

\* Mutant of MoveFact: the place is counted before the fact is taken out.
MoveFactEarly(facts, i, j) ==
  InsertAt(RemoveAt(facts, i), IF j > i THEN j - 1 ELSE j, facts[i])

MoveFact(facts, i, j) ==
  IF i = j THEN facts ELSE InsertAt(RemoveAt(facts, i), j, facts[i])

IsOrder(order, n) ==
  Len(order) = n /\ \A i \in 1..n : order[i] \in 1..n
                 /\ \A j \in 1..(i - 1) : order[j] # order[i]

\* An edit that cannot be made to this document leaves it unsaved.
Refused(doc, e) ==
  /\ e.of = "profile"
  /\ LET n == Len(doc.facts)
     IN  \/ e.do \in {"remove", "update"} /\ e.i \notin 1..n
         \/ e.do = "move" /\ (e.i \notin 1..n \/ e.j \notin 1..n)
         \/ e.do = "reorder" /\ (n = 0 \/ ~IsOrder(e.order, n))
         \/ e.do = "forget" /\ e.fact \notin Range(doc.facts)

\* Every copy of a fact goes, the others stay in their order.
Forgotten(facts, f) ==
  LET left[n \in 0..Len(facts)] ==
        IF n = 0 THEN <<>>
        ELSE IF facts[n] = f THEN left[n - 1] ELSE Append(left[n - 1], facts[n])
  IN  left[Len(facts)]

EditFacts(facts, e) ==
  CASE e.do = "fact"        -> AddFact(facts, e.fact)
    [] e.do = "forget"      -> Forgotten(facts, e.fact)
    [] e.do = "remove"      -> RemoveAt(facts, e.i)
    [] e.do = "update"      -> ReplaceAt(facts, e.i, e.fact)
    [] e.do = "move"        -> MoveFact(facts, e.i, e.j)
    [] e.do = "reorder"     -> [k \in DOMAIN facts |-> facts[e.order[k]]]
    [] e.do = "clear_facts" -> <<>>

Edit(doc, e) ==
  CASE e.do = "clear"     -> Blank[e.of]
    [] e.do = "append"    -> LastOf(Append(doc, Entry(e)), MaxEntries)
    [] e.do = "name"      -> [doc EXCEPT !.name = e.name]
    [] e.of = "settings"  -> [doc EXCEPT ![e.do] = TRUE]
    [] OTHER              -> [doc EXCEPT !.facts = EditFacts(@, e)]

\* What an edit means, position by position: the reference the edits are checked with.
Means(doc, e) ==
  LET facts == doc.facts
      n     == Len(facts)
      from(k) ==    \* which fact stands at k afterwards
        CASE e.do = "remove"  -> IF k < e.i THEN k ELSE k + 1
          [] e.do = "reorder" -> e.order[k]
          [] e.do = "move"    -> CASE k = e.j -> e.i
                                   [] e.i <= k /\ k < e.j -> k + 1
                                   [] e.j < k /\ k <= e.i -> k - 1
                                   [] OTHER -> k
  IN  CASE e.do \in {"move", "reorder"} -> [doc EXCEPT !.facts = [k \in 1..n |-> facts[from(k)]]]
        [] e.do = "remove" -> [doc EXCEPT !.facts = [k \in 1..(n - 1) |-> facts[from(k)]]]
        [] e.do = "fact" /\ e.fact \in Range(facts) -> doc
        [] e.do = "fact" /\ e.fact \notin Range(facts) /\ n = MaxFacts ->
             [doc EXCEPT !.facts = Append(Tail(@), e.fact)]
        [] OTHER -> Edit(doc, e)
-----------------------------------------------------------------------------
\* What earlier requests stored, and the settings the process starts with.
DocsInit(docs) ==
  /\ ledger = docs
  /\ file = [d \in Kinds |-> [whole |-> TRUE, doc |-> docs[d]]]
  /\ hand = [r \in Requests |-> Free]
  /\ calm = [d \in Kinds |-> TRUE]

\* load_memory, load_profile: bytes that do not parse are an empty document.
Stored(d) == IF file[d].whole THEN file[d].doc ELSE Blank[d]

Holds(r, d) == hand[r].at # "free" /\ hand[r].edit.of = d

CanChat == Stored("settings") = [model |-> TRUE, key |-> TRUE]

\* Load and edit; a clear needs no load, and writes a blank document.
Load(r, e) ==
  /\ hand[r].at = "free"
  /\ IF Refused(Stored(e.of), e)
     THEN UNCHANGED <<hand, calm>>
     ELSE /\ hand' = [hand EXCEPT ![r] =
               [at |-> "edited", edit |-> e,
                draft |-> [Blank EXCEPT ![e.of] = Edit(Stored(e.of), e)]]]
          /\ calm' = [calm EXCEPT ![e.of] = @ /\ ~\E o \in Requests \ {r} : Holds(o, e.of)]
  /\ UNCHANGED <<file, ledger>>

\* fs::write opens the file and cuts it to nothing ...
Truncate(r) ==
  /\ hand[r].at = "edited" /\ hand[r].edit.of # "settings"
  /\ hand' = [hand EXCEPT ![r].at = "opened"]
  /\ file' = [file EXCEPT ![hand[r].edit.of] =
                [whole |-> FALSE, doc |-> Blank[hand[r].edit.of]]]
  /\ UNCHANGED <<calm, ledger>>

\* ... and then writes from the start: over what another request wrote meanwhile, whose
\* end stays behind when it is the longer.
Write(r) ==
  LET e == hand[r].edit
      d == e.of
  IN  /\ hand[r].at = IF d = "settings" THEN "edited" ELSE "opened"
      /\ \E whole \in BOOLEAN :
           /\ ~whole => d # "settings" /\ file[d].whole /\ file[d].doc # hand[r].draft[d]
           /\ file' = [file EXCEPT ![d] =
                [whole |-> whole, doc |-> IF whole THEN hand[r].draft[d] ELSE Blank[d]]]
      /\ hand' = [hand EXCEPT ![r] = Free]
      /\ ledger' = [ledger EXCEPT ![d] = IF calm[d] THEN Means(@, e) ELSE Blank[d]]
      /\ UNCHANGED calm

\* The process dies: the files stay as they are, the settings are those of
\* the start again.
DocsCrash(settings) ==
  /\ hand' = [r \in Requests |-> Free]
  /\ calm' = [d \in Kinds |->
       \/ d = "settings"
       \/ calm[d] /\ ~\E r \in Requests : Holds(r, d) /\ hand[r].at = "opened"]
  /\ file' = [file EXCEPT !["settings"].doc = settings]
  /\ ledger' = [d \in Kinds |-> IF d = "settings" THEN settings
                                ELSE IF calm'[d] THEN ledger[d] ELSE Blank[d]]
-----------------------------------------------------------------------------
(* Properties *)

\* Edits get lost only when two requests are at the same document at once, or when the
\* process dies between the cut and the write: otherwise what is stored is what the edits
\* mean, one after the other, the oldest dropped beyond the caps (append_memory,
\* patch_profile, move_fact, reorder_facts, apply_llm_body).
LossNeedsOverlap ==
  \A d \in Kinds : calm[d] /\ ~(\E r \in Requests : Holds(r, d) /\ hand[r].at = "opened")
                     => Stored(d) = ledger[d]
=============================================================================
