------------------------------ MODULE MCCampus ------------------------------
(***************************************************************************)
(* The instance of Campus that TLC checks: a manager with a class, a       *)
(* second account in several positions, an administrator, one id to give   *)
(* out, and two persons bound to them in several ways.                     *)
(***************************************************************************)
EXTENDS Campus

CONSTANTS ann, bob, head, second, admin, fresh, c1, c2, ch

World(bob_is, student, offices, mode, tokens, requests, leads) ==
  [used |-> {head, second, admin}, users |-> {head, second, admin},
   binds |-> {<<0, ann, head>>} \cup (IF bob_is = None THEN {} ELSE {<<1, bob, bob_is>>}),
   tokens |-> tokens, teachers |-> {head} \cup {o[1] : o \in offices},
   students |-> [v \in Users |-> IF v = second THEN student ELSE None],
   offices |-> {<<head, c1, "manager">>} \cup offices,
   groups |-> IF leads = 2 THEN <<head, second>> ELSE <<head>>, last |-> 2,
   rows |-> IF leads = 0 THEN {} ELSE {<<0, ch, leads>>},
   classes |-> {c1}, opened |-> {c1}, home |-> [c \in Classes |-> IF c = c1 THEN 1 ELSE 0],
   mode |-> [c \in Classes |-> IF c = c1 THEN mode ELSE "direct"], requests |-> requests, n |-> 2]

\* A newcomer with two tokens; a person of an account that has another; a user who
\* may join, who has asked, who is a student, with tokens of two others, or a
\* second teacher; an administrator.  The channel leads nowhere (0), to the group
\* of the class (1), or to one made when somebody spoke (2).
MCStart ==
  {World(None, None, {}, "direct", {<<0, head>>, <<1, second>>}, {}, 0),
   World(head, None, {}, "invite", {<<1, second>>}, {}, 2),
   World(second, None, {}, "direct", {}, {}, 0),
   World(second, None, {}, "apply", {}, {<<0, second, c1>>}, 1),
   World(second, c1, {}, "invite", {<<0, head>>, <<1, admin>>}, {}, 1),
   World(second, None, {<<second, c1, "teacher">>}, "apply", {}, {<<0, admin, c1>>}, 2),
   World(admin, c1, {}, "direct", {}, {}, 1)}
=============================================================================
