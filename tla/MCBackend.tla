------------------------------ MODULE MCBackend ------------------------------
(***************************************************************************)
(* Backend with what TLC needs: the values of MCPolicy, contents of the    *)
(* skills directory, settings, and interchangeable identifiers.            *)
(***************************************************************************)
EXTENDS Backend, MCPolicy

Complete == [frontmatter |-> "closed", fields |-> {"name", "description"}]

\* The skills of the repository.
OneSkill == [exists |-> TRUE, files |-> {Complete}]
OnlyOneSkill == {OneSkill}

\* One more that is cut short, lacks a field, or is not a skill at all.
OneBadSkill ==
    {OneSkill, NoDirectory}
    \cup {[OneSkill EXCEPT !.files = @ \cup {file}] :
             file \in {[Complete EXCEPT !.frontmatter = "open"],
                      [Complete EXCEPT !.fields = {"name"}],
                      [Complete EXCEPT !.frontmatter = "none"]}}

\* Everything is configured and checked; nothing is configured or checked.
Strict == {[configured |-> Dependencies, strict |-> TRUE]}
Lenient == {[configured |-> {}, strict |-> FALSE]}

Symmetry == Permutations(Decider) \cup Permutations(Resumer) \cup Permutations(Chat)
            \cup Permutations(Appender) \cup Permutations(Review)
            \cup Permutations(Thread)
=============================================================================
