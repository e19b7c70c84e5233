---------------------------- MODULE MCSkillStore ----------------------------
(* The skill store with two sessions, a skill of a definition and at most  *)
(* one further file, and arguments that meet each refusal of the tools.    *)
EXTENDS SkillInv

MCPaths == {"SKILL.md", "skill.md", "a", "A", "a/b", "../a"}
MCKey(p) == CASE p = "skill.md" -> "skill" [] p = "SKILL.md" -> "skill"
              [] p = "A" -> "a" [] OTHER -> p
MCInside(p, q) == p = "a/b" /\ MCKey(q) = "a"

MCDefault == [p \in {"SKILL.md"} |-> <<"front", "x", "y", "x">>]

File(path, text) == [path |-> path, text |-> text, fits |-> TRUE]
Rep(old, new) == [old |-> old, new |-> new]
Edits(path, reps) == << [path |-> path, reps |-> reps] >>

MCInputs ==
  { [op |-> "create", md |-> <<"front", "x", "y">>, files |-> <<File("a", <<"x">>)>>],
    [op |-> "create", md |-> <<"x">>, files |-> <<>>],
    \* two replacements of different lengths, in a file named in another case
    [op |-> "update", files |-> <<>>, edits |-> Edits("skill.md",
       << Rep(<<"front", "x">>, <<"front">>), Rep(<<"y">>, <<"x", "y", "y">>) >>)],
    \* overlapping occurrences: refused
    [op |-> "update", files |-> <<>>, edits |-> Edits("SKILL.md",
       << Rep(<<"x", "y">>, <<"y">>), Rep(<<"y", "x">>, <<"x">>) >>)],
    \* the front matter goes: refused by the validation of the package
    [op |-> "update", files |-> <<>>, edits |-> Edits("SKILL.md",
       << Rep(<<"front">>, <<"x">>) >>)],
    \* too long for a file that is not new
    [op |-> "update", files |-> <<>>, edits |-> Edits("SKILL.md",
       << Rep(<<"x", "y">>, <<"x", "x", "x", "y">>) >>)],
    \* a new file, which may collide with one that is there or be too much
    [op |-> "update", edits |-> <<>>, files |-> <<File("A", <<"y", "y">>)>>],
    [op |-> "update", edits |-> <<>>, files |-> <<File("a/b", <<"y">>)>>] }

=============================================================================
