----------------------------- MODULE MCFileSpace -----------------------------
(***************************************************************************)
(* The instance of FileSpace that TLC checks: two users and a class with    *)
(* its group and its college; the first user has two sessions.              *)
(***************************************************************************)
EXTENDS FileSpace

CONSTANTS ann, bob, group, class, college, groups, classes, colleges,
          docs, work, tildework, tildegroups, workblank, one, two, phone, laptop, desk

MCUsers == {ann, bob}
MCSessions == {phone, laptop, desk}
MCUserOf == phone :> ann @@ laptop :> ann @@ desk :> bob
MCChannelOf == phone :> None @@ laptop :> group @@ desk :> None
MCGroupOf == class :> group
MCOrgsOf == class :> {college}
MCCategoryOf == group :> groups @@ class :> classes @@ college :> colleges

\* The names ~work and ~groups, and work with a blank after it.
MCLeading == tildework :> work @@ tildegroups :> groups
MCTrailing == workblank :> work

Path(first, segments) == [rooted |-> first, segments |-> segments]
Home(segments) == Path(TRUE, segments)
Here(segments) == Path(FALSE, segments)

\* A home with work and a file in it; ann has a directory named like a category,
\* made on the file pages, the class two files named almost like work.
Worked == [p \in DOMAIN Fresh \cup {<<work>>, <<work, work>>} |-> IF p = <<work, work>> THEN one ELSE Dir]
MCInitialTrees ==
  {[s \in Spaces |-> CASE s = ann -> With(With(Worked, <<groups>>, Dir), <<groups, work>>, one)
                      [] s = bob -> Worked
                      [] s = class -> With(With(Worked, <<tildework>>, two), <<workblank>>, two)
                      [] OTHER -> Absent]}
MCInitialCwds == {ann :> <<work>> @@ bob :> <<classes, class>>}
MCInitialFacts == {{<<"cadre", ann, class>>, <<"student", bob, class>>}}
MCChangingFacts == {<<"cadre", ann, class>>, <<"creator", bob, group>>}

MCCommands ==
  [op : {"cd"}, arg : {None, Here(<<Up, Up, work>>), Home(<<classes, class>>)}]
  \cup [op : {"mkdir"}, arg : {Here(<<two>>), Home(<<groups>>), Home(<<tildegroups>>)}]
  \cup [op : {"touch"}, arg : {Here(<<work, two>>), Home(<<groups, group, two>>)}]
  \cup [op : {"rm"}, recursive : {TRUE}, force : {FALSE},
        args : {<<Home(<<work>>), Here(<<work>>)>>, <<Here(<<work>>), Home(<<docs>>)>>,
                <<Home(<<classes, class, tildework>>)>>}]
  \cup [op : {"upload"}, arg : {None, Home(<<classes, class, work>>)},
        files : {<<[name |-> work, content |-> two], [name |-> work, content |-> one]>>}]
  \cup [op : {"find"}, arg : {Home(<<>>), Home(<<classes>>)}]
  \cup [op : {"ls"}, arg : {Home(<<>>), Home(<<tildegroups>>), Home(<<classes, class>>)}]
MCAdminRequests ==
  [op : {"write"}, owner : {ann}, path : {<<work, work>>}, content : {two}]
  \cup [op : {"mkdir"}, owner : {ann}, path : {<<groups, two>>}]
  \cup [op : {"remove"}, owner : {class}, path : {<<work>>}, recursive : {TRUE}]
  \cup [op : {"delete"}, owner : {class}]
=============================================================================
