--------------------------------- MODULE Cli ---------------------------------
(***************************************************************************)
(* The command line (CommandParser): a command walks down the tree of      *)
(* parameters from the cursor, leaves its values in the TLV buffer and is  *)
(* handed to a handler.  "/" after a command moves the cursor (a mode):    *)
(* the values of the path to the cursor then stay in the buffer, up to its *)
(* checkpoint.  A token is the parameter it names, so that what a prefix   *)
(* of a name matches, and printing, are left out.                          *)
(***************************************************************************)
EXTENDS Naturals, SequencesExt

CONSTANTS
  Tree,      \* per parameter its children: "root" and what it leads to
  Parent,    \* per parameter but the root (a "no" has the children of its parent)
  Leaves,    \* parameters that take a value
  Negations, \* the "no" parameters
  Handlers,  \* parameters with a callback
  Values     \* values of leaves; Bad is refused by the validation

Bad == "bad"
Unset == "unset"
Params == DOMAIN Tree
Hooks == {"show", "debug", "clear"}   \* the children of do_hook

VARIABLES
  cursor,   \* cmd_tree_cursor
  tlvs,     \* what the TLV buffer holds
  mark,     \* its checkpoint
  holder,   \* per leaf, value_holder
  ran,      \* what the handler of the last command got, a sequence of none or one
  entered,  \* values the user gave on the path to the cursor (not in the code)
  spoiled,  \* the checkpoint was set at a wrong place (not in the code)
  stuck     \* the dispatcher waits for itself

vars == <<cursor, tlvs, mark, holder, ran, entered, spoiled, stuck>>

RECURSIVE PathTo(_)
PathTo(p) == IF p = "root" THEN << >> ELSE Append(PathTo(Parent[p]), p)
Branch(p) == PathTo(p)[1]                                  \* get_current_branch_hook
LeavesOf(path) == SelectSeq(path, LAMBDA p : p \in Leaves)
Tlv(p, v) == [leaf |-> p, value |-> v]
Code(p) == [leaf |-> "CMDCODE", value |-> p]

Init ==
  /\ cursor = "root" /\ tlvs = << >> /\ mark = 0 /\ holder = [p \in Leaves |-> Unset]
  /\ ran = << >> /\ entered = << >> /\ spoiled = FALSE /\ stuck = FALSE

------------------------------------------------------------------------------
(* Walking down: find_matching_param and the loop of build_tlv_buffer *)

RECURSIVE Walks(_)
\* the sequences of parameters from p downwards
Walks(p) == {<< >>} \cup UNION {{<<c>> \o w : w \in Walks(c)} : c \in Tree[p]}

\* The values the user may type on a walk; only the last leaf may be refused,
\* which ends the walk.
Typings(walk) ==
  {v \in [Range(LeavesOf(walk)) -> Values \cup {Bad}] :
     \A p \in DOMAIN v : v[p] = Bad => p = Last(walk)}

Refused(v) == Bad \in Range(v)
Accepted(walk, v) ==
  LET leaves == SelectSeq(LeavesOf(walk), LAMBDA p : v[p] # Bad)
  IN [i \in DOMAIN leaves |-> Tlv(leaves[i], v[leaves[i]])]
Held(walk, v) ==
  [p \in Leaves |-> IF p \in Range(walk) /\ v[p] # Bad THEN v[p] ELSE holder[p]]

Negated(walk) == Range(walk) \cap Negations # {}
RunOp(walk) == CASE Branch(Last(walk)) # "config" -> "operational"
                 [] Negated(walk) -> "disable"
                 [] OTHER -> "enable"
EnterOp(walk) == IF Negated(walk) THEN "disable" ELSE "enable"

\* restore_checkpoint_serialize_buffer at the end of parse_input_cmd; at the
\* root the buffer is reset.
Restore(b, m) == /\ tlvs' = IF cursor' = "root" THEN << >> ELSE SubSeq(b, 1, m)
                 /\ mark' = IF cursor' = "root" THEN 0 ELSE m

\* What a handler gets; "want" is what the user gave, for the property.
Got(p, b, op, want) == <<[param |-> p, tlvs |-> b, op |-> op, want |-> want]>>

\* The rest of build_tlv_buffer, from a buffer b with checkpoint m where the
\* user has given "had". A command whose last parameter has a callback: it gets
\* a copy of the buffer, with the code of the command at its end, from the
\* dispatcher (task_invoke_appln_cbk_handler). "config" gets no code and becomes
\* the cursor; it marks the copy, which nobody reads.
CommandRuns(b, had, walk, v) ==
  LET p == Last(walk)
      all == b \o Accepted(walk, v)
  IN /\ walk # << >> /\ ~Refused(v) /\ p \in Handlers
     /\ ran' = Got(p, IF p = "config" THEN all ELSE Append(all, Code(p)), RunOp(walk),
                   had \o Accepted(walk, v))
     /\ cursor' = IF p = "config" THEN p ELSE cursor

\* An unknown token, a refused value, a command without handler, "?" and "."
CommandPrints == ran' = << >> /\ UNCHANGED cursor

\* "/": the checkpoint is set before the code of the command is added; then the
\* callback of the mode is called at once, with the buffer itself. That of
\* config sets the checkpoint again, behind the code.
MarkAt_code(p, b) == Len(b) + 1  \* mutant: the checkpoint is set after the code
MarkAt(p, b) == IF p = "config" THEN Len(b) + 1 ELSE Len(b)
CommandEnters(p, b, had, walk, v) ==
  LET all == b \o Accepted(walk, v)
  IN /\ ~Refused(v) /\ Tree[p] # {} /\ p \notin Negations
     /\ cursor' = p /\ entered' = had \o Accepted(walk, v)
     /\ ran' = IF p \in Handlers THEN Got(p, Append(all, Code(p)), EnterOp(walk), entered') ELSE << >>
     /\ Restore(Append(all, Code(p)), MarkAt(p, all))
     /\ spoiled' = (spoiled \/ p = "config")

Build(b, m, walk, v) ==
  /\ holder' = Held(walk, v)
  /\ \/ CommandEnters(IF walk = << >> THEN cursor ELSE Last(walk), b, entered, walk, v)
     \/ /\ CommandRuns(b, entered, walk, v) \/ CommandPrints
        /\ Restore(b \o Accepted(walk, v), m) /\ UNCHANGED <<entered, spoiled>>

------------------------------------------------------------------------------
(* parse_input_cmd *)

Goes == ~stuck /\ ~spoiled
InMode == cursor # "root"

Command ==
  /\ Goes /\ UNCHANGED stuck
  /\ \E walk \in Walks(cursor) : \E v \in Typings(walk) : Build(tlvs, mark, walk, v)

\* "do": an operational command from a mode of the branch config.  The buffer is
\* reset; unless the command enters a mode it is rebuilt from the values that
\* the leaves hold (build_cmd_tree_leaves_data, which goes up and reverses).
Rebuilt(p, h) ==
  LET leaves == LeavesOf(PathTo(p)) IN [i \in DOMAIN leaves |-> Tlv(leaves[i], h[leaves[i]])]
DoWalks == UNION {{<<c>> \o w : w \in Walks(c)} : c \in Hooks \cap Params}
DoCommand ==
  /\ Goes /\ InMode /\ Branch(cursor) = "config" /\ UNCHANGED stuck
  /\ \E walk \in DoWalks : \E v \in Typings(walk) :
       /\ holder' = Held(walk, v)
       /\ \/ CommandEnters(Last(walk), << >>, << >>, walk, v)
          \/ /\ CommandRuns(<< >>, << >>, walk, v) \/ CommandPrints
             /\ tlvs' = Rebuilt(cursor, holder') /\ mark' = Len(tlvs')
             /\ UNCHANGED <<entered, spoiled>>

\* "exit": go_one_level_up_cmd_tree, which takes the value of a leaf back
Rewound(p) == IF p \in Leaves THEN Front(tlvs) ELSE tlvs
Cleared(ps) == [p \in Leaves |-> IF p \in ps THEN Unset ELSE holder[p]]
ExitMode ==
  /\ Goes /\ InMode /\ UNCHANGED <<spoiled, stuck>>
  /\ cursor' = Parent[cursor] /\ ran' = << >>
  /\ holder' = Cleared({cursor})
  /\ tlvs' = IF cursor' = "root" THEN << >> ELSE Rewound(cursor)
  /\ mark' = IF cursor' = "root" THEN 0 ELSE IF cursor \in Leaves THEN Len(tlvs') ELSE mark
  /\ entered' = IF cursor \in Leaves THEN Front(entered) ELSE entered

\* "end": goto_top_of_cmd_tree
EndMode ==
  /\ Goes /\ InMode /\ UNCHANGED <<spoiled, stuck>>
  /\ cursor' = "root" /\ tlvs' = << >> /\ mark' = 0 /\ entered' = << >> /\ ran' = << >>
  /\ holder' = Cleared(Range(PathTo(cursor)))

\* "config load f", from anywhere: parse_file resets the buffer and its
\* checkpoint, then walks each line from the cursor. In a mode the values of
\* its path are lost, which the first line shows.
LoadFile ==
  /\ Goes /\ UNCHANGED stuck
  /\ \E walk \in Walks(cursor) : \E v \in Typings(walk) :
       IF InMode THEN /\ holder' = Held(walk, v) /\ tlvs' = << >> /\ mark' = 0 /\ spoiled' = TRUE
                      /\ CommandRuns(<< >>, entered, walk, v) \/ CommandPrints
                      /\ UNCHANGED entered
       ELSE Build(<< >>, 0, walk, v)

\* "show history" runs in the dispatcher and parses the command of its choice
\* there (clistd.c): a handler is then called by a synchronous task, for which
\* the dispatcher waits while it alone could run it.
ShowHistory ==
  /\ Goes /\ ~InMode /\ stuck' = TRUE
  /\ \E walk \in Walks("root") : walk # << >> /\ Last(walk) \in Handlers
  /\ UNCHANGED <<cursor, tlvs, mark, holder, ran, entered, spoiled>>

Next == Command \/ DoCommand \/ ExitMode \/ EndMode \/ LoadFile \/ ShowHistory

Spec == Init /\ [][Next]_vars

------------------------------------------------------------------------------
(* Properties *)

\* In a mode the next command finds in the buffer the values the user gave on
\* the way there, one for each leaf of the path, in order and nothing else, and
\* the leaves hold the same values for the prompt and for "do"; whatever was
\* typed before: commands that failed half-way, "do", "exit", "end".  A handler
\* gets these values, those of its own command and its code, once, and nothing
\* else. Not so after "config /" and after a file was loaded in a mode.
ContextSound ==
  ~spoiled =>
    /\ mark = Len(tlvs) /\ tlvs = entered /\ entered = Rebuilt(cursor, holder)
    /\ \A i \in DOMAIN ran :
         LET r == ran[i]
         IN /\ r.tlvs = IF r.param = "config" THEN r.want ELSE Append(r.want, Code(r.param))
            /\ [k \in DOMAIN r.want |-> r.want[k].leaf] = LeavesOf(PathTo(r.param))
=============================================================================
