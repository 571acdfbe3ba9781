-------------------------------- MODULE MCAgent --------------------------------
(* Agent with a few requests of one kind of work at a time.                *)
EXTENDS Agent

Run(intent, class) == Ask("run", intent, class, "none")
Talk(intent) == Ask("run", intent, "general", "s")

\* Deletes and overwrites, and who answers them.
Approving == { Run("hello", "general"), Run("yes", "general"), Run("no", "general"),
               Ask("confirm", "approve", "general", "none"),
               Ask("confirm", "reject", "general", "none"),
               Ask("sandbox", "write", "general", "none"),
               Ask("sandbox", "delete", "general", "none") }

\* Turns of a session beside edits of the memory.
Talking == { Talk("search"), Talk("what_i_said"), Talk("blank"),
             Edited([of |-> "memory", do |-> "append", by |-> 0, role |-> "user"]),
             Edited([of |-> "memory", do |-> "clear"]) }

Helped == { Talk("question"), Run("question", "safe"), Talk("research"), Talk("hello") }

Profiling == { Talk("name"), Talk("my_name"), Run("fact", "general") } \cup
  { Edited(e) : e \in
      { [of |-> "profile", do |-> "fact", fact |-> f] : f \in Facts } \cup
      { [of |-> "profile", do |-> "move", i |-> 1, j |-> 3],
        [of |-> "profile", do |-> "reorder", order |-> <<3, 1, 2>>],
        [of |-> "profile", do |-> "remove", i |-> 1],
        [of |-> "profile", do |-> "clear_facts"] } }

Researching == { Ask("pool_start", "", "general", "none"), Ask("pool_run", "", "general", "none"),
                 Ask("events", "", "general", "none") }

Configuring == { Edited([of |-> "settings", do |-> "model"]),
                 Edited([of |-> "settings", do |-> "key"]), Talk("question") }

Unset == Blank
Ready == [Blank EXCEPT !.settings = [model |-> TRUE, key |-> TRUE]]
Spoken == [Blank EXCEPT !.memory = << [by |-> 0, role |-> "user"],
                                      [by |-> 0, role |-> "assistant"] >>]
Known == [Blank EXCEPT !.profile = [name |-> "Sam", facts |-> <<"f", "g", "h">>]]

Trying(asks, calls, docs, found, most, restarts) ==
  [asks |-> asks, calls |-> calls, docs |-> docs, files |-> found, arrivals |-> most,
   crashes |-> restarts,
   pending |-> [k \in 1..Cardinality(found) |->
                  [id |-> k, by |-> 0, do |-> "delete", path |-> "p"]]]

Destroying == { << Call("write", "p") >>, << Call("delete", "p"), Call("delete", "q") >> }
Helping    == { << Call("remember", "p"), Call("look", "p") >>, << Call("research", "p") >> }

EachWorkload == {
  Trying(Approving, Destroying, Ready, {"p"}, 2, 0),
  Trying(Talking, {}, Spoken, {}, 2, 1),
  Trying(Profiling, {}, Known, {}, 2, 0),
  Trying(Researching, {}, Unset, {}, 2, 0),
  Trying(Helped, Helping, Ready, {}, 1, 1),
  Trying(Configuring, {}, Unset, {}, 3, 0) }
=============================================================================
