------------------------------- MODULE Campus -------------------------------
(***************************************************************************)
(* Accounts, groups and their bindings to a chat platform, teachers,       *)
(* students and classes (models/models.py, platform/session and the        *)
(* handlers of the user, classes, student and teacher plugins).            *)
(*                                                                         *)
(* A command is a coroutine: its handler reads, asks the user where the    *)
(* code does, and writes in one transaction at a time;                     *)
(* the steps of several commands interleave.  A command may stop anywhere  *)
(* (a refusal for schools, limits or wording left out here, an error, a    *)
(* crash, a user who does not answer or says no): it takes no step then,   *)
(* and nothing says that it must.  What a handler read it keeps:           *)
(* UserDepends puts the user, with the teacher, the classes and the        *)
(* student loaded with it, into the matcher's state, where the handler of  *)
(* the user's answer finds it.                                             *)
(*                                                                         *)
(* The reads between two writes of a handler are one step.  The database   *)
(* enforces its unique and foreign keys.  A teacher or student is named by *)
(* its user, so a row made anew for the same user counts as the old one    *)
(* (SQLite may give it the same id); ids of accounts, groups and classes   *)
(* are not used again.                                                     *)
(***************************************************************************)
EXTENDS Naturals, FiniteSets

CONSTANTS
  Persons,      \* users of a chat platform
  Users,        \* ids of accounts
  Classes,      \* ids of classes
  Channels,     \* chat groups and channels of the platform
  Admins,       \* accounts that manage every class (is_admin, or the college's managers)
  None,
  Start,        \* the databases a run begins with
  MaxCommands   \* bound on the commands that are given

ASSUME CampusAssumption == None \notin Persons \cup Users \cup Classes \cup Channels /\ Admins \subseteq Users

VARIABLES
  db,      \* the tables, and the cache with the binding tokens
  jobs,    \* the commands in progress
  given    \* how many commands have been given
vars == <<db, jobs, given>>

-----------------------------------------------------------------------------
(* The tables: binds are rows <<n, person, user>>, rows those of GroupBind *)
(* <<n, channel, group>>, tokens <<n, user>>, requests <<n, user, class>>, *)
(* offices <<user, class, role>>; groups maps ids to creators, home        *)
(* classes to groups; n counts what was inserted, and used, opened and     *)
(* last are the ids given out.                                             *)

Modes == {"direct", "apply", "invite"}
\* Of a person's or a channel's rows, the first.
First(rows, x) ==
  IF \E b \in rows : b[2] = x
  THEN CHOOSE b \in rows : b[2] = x /\ \A o \in rows : o[2] = x => b[1] <= o[1]
  ELSE None
FirstBind(d, p) == First(d.binds, p)
FirstRow(d, ch) == First(d.rows, ch)
HasClass(d, g) == \E c \in d.classes : d.home[c] = g
Hung(d, g) == \E r \in d.rows : r[3] = g
Bound(d, u) == \E b \in d.binds : b[3] = u
OfficesIn(d, c) == {o \in d.offices : o[2] = c}
ManagersIn(d, c) == {o \in OfficesIn(d, c) : o[3] = "manager"}
Teaches(d, u) == {c \in d.classes : \E o \in d.offices : o[1] = u /\ o[2] = c}
Holds(d, u, c) == <<u, c, "manager">> \in d.offices

\* What the keys of the tables promise of a database: a group's creator exists, a
\* group has one class, an office is held in a class that exists.
Tables == {"used", "users", "binds", "tokens", "teachers", "students", "offices", "groups", "last",
           "rows", "classes", "opened", "home", "mode", "requests", "n"}
Keyed(d) ==
  /\ DOMAIN d = Tables
  /\ DOMAIN d.students = Users /\ DOMAIN d.home = Classes
  /\ \A g \in DOMAIN d.groups : d.groups[g] \in d.users
  /\ d.classes \subseteq Classes /\ d.classes \subseteq d.opened
  /\ \A c, e \in d.classes : d.home[c] = d.home[e] => c = e
  /\ \A o \in d.offices : o[2] \in d.classes

ASSUME StartAssumption == \A d \in Start : Keyed(d)

\* can_manage_class, with the teacher the caller was loaded with.
CanManage(d, u, teacher, c) == u \in Admins \/ (teacher /\ Holds(d, u, c))

\* Students, offices and requests go with their class.
WithoutClasses(d, gone) ==
  [d EXCEPT !.classes = @ \ gone,
            !.students = [v \in Users |-> IF @[v] \in gone THEN None ELSE @[v]],
            !.offices = {o \in @ : o[2] \notin gone},
            !.requests = {r \in @ : r[3] \notin gone}]
\* delete_related_group, and the foreign keys of a group that is deleted.
WithoutGroups(d, gone) ==
  LET e == WithoutClasses(d, {c \in d.classes : d.home[c] \in gone})
  IN [e EXCEPT !.groups = [g \in DOMAIN @ \ gone |-> @[g]], !.rows = {r \in @ : r[3] \notin gone}]
WithoutTeacher(d, u) ==
  [d EXCEPT !.teachers = @ \ {u}, !.offices = {o \in @ : o[1] # u}]
\* delete_account: everything that refers to the user, and to what goes with
\* it; so do the groups the user created, and their classes.
WithoutUser(d, u) ==
  LET e == WithoutTeacher(WithoutGroups(d, {g \in DOMAIN d.groups : d.groups[g] = u}), u)
  IN [e EXCEPT !.users = @ \ {u}, !.students[u] = None,
               !.binds = {b \in @ : b[3] # u}, !.requests = {r \in @ : r[2] # u}]

\* user_join_classes with the student the user was loaded with: a new row, which
\* a row of the same user refuses, or an update of the row if it is still there.
CanJoin(d, v, was, c) == v \in d.users /\ c \in d.classes /\ (was = None => d.students[v] = None)
Joined(d, v, was, c) ==
  IF was = None \/ d.students[v] # None THEN [d EXCEPT !.students[v] = c] ELSE d

-----------------------------------------------------------------------------
(* Commands                                                                *)

NoSight == [teacher |-> FALSE, teaches |-> {}, student |-> None]
Sight(d, u) == [teacher |-> u \in d.teachers, teaches |-> Teaches(d, u), student |-> d.students[u]]

\* who gave the command; user the account it runs for, seen as it was loaded;
\* class, to and arg what the command names; mode, was, saw, row and group what
\* was read or made later; could what the caller was entitled to, or what was
\* so, at some time since (see below).
Job(p, cmd, c, to, arg) ==
  [cmd |-> cmd, who |-> p, class |-> c, to |-> to, arg |-> arg, at |-> IF cmd = "speak" THEN "listen" ELSE "load",
   user |-> None, seen |-> NoSight, mode |-> "direct", was |-> None, saw |-> None, row |-> None, group |-> 0,
   could |-> {}]

\* History, for the properties: what may be done in the caller's name.  "teach" is
\* noted of a teacher in any office, as the handlers of these commands ask no more.
If(holds, fact) == IF holds THEN {fact} ELSE {}
Entitled(d, j) ==
  LET c == j.class IN
  If(j.cmd \in {"approve", "import", "delete"} /\ c \in Teaches(d, j.user), <<"teach", c>>)
    \cup If(j.cmd \in {"add", "appoint"} /\ c \in d.classes /\ CanManage(d, j.user, TRUE, c), <<"manage", c>>)
    \cup If(j.cmd = "join" /\ c \in d.classes /\ d.mode[c] = "direct", <<"open", c>>)
    \cup If(j.cmd \in {"create", "import"} /\ c \in d.classes /\ OfficesIn(d, c) = {}, <<"vacant", c>>)
    \cup {<<"asked", r[2], r[3]>> : r \in {q \in d.requests : j.cmd = "approve" /\ q[3] = c}}
    \cup If(j.cmd = "present" /\ j.arg \in d.tokens, <<"token", j.to>>)
    \cup {<<"deserted", b[3]>> : b \in {x \in {j.saw} \ {None} : ~Bound(d, x[3])}}
    \cup {<<"free", r[3]>> : r \in {x \in {j.row} \ {None} : ~HasClass(d, x[3])}}
    \cup {<<"unhung", r[3]>> : r \in {x \in {j.row} \ {None} : ~Hung(d, x[3])}}

Remember(d, js) == {[j EXCEPT !.could = @ \cup Entitled(d, j)] : j \in js}
\* A step after which j goes on as k, a last step, a step that writes nothing.
Then(j, k, d) == db' = d /\ jobs' = Remember(d, (jobs \ {j}) \cup {k}) /\ UNCHANGED given
End(j, d) == db' = d /\ jobs' = Remember(d, jobs \ {j}) /\ UNCHANGED given
Pass(j, at) == Then(j, [j EXCEPT !.at = at], db)

Receive(j) ==
  /\ given' = given + 1
  /\ jobs' = jobs \cup {j}
  /\ UNCHANGED db

\* Every other command is given to a person who gets an account if need be.
NeedsAccount(j) == j.cmd \notin {"present", "logout"}

\* get_user_or_create_depends; the new account is bound in the steps below.
Load(j) ==
  /\ j.at = "load"
  /\ LET b == FirstBind(db, j.who) IN
     IF b # None
     THEN Then(j, [j EXCEPT !.user = b[3], !.seen = Sight(db, b[3]), !.at = "check"], db)
     ELSE IF ~NeedsAccount(j) THEN Pass(j, "check")
     ELSE \E u \in Users \ db.used :
            Then(j, [j EXCEPT !.user = u, !.at = "select"], [db EXCEPT !.used = @ \cup {u}, !.users = @ \cup {u}])

\* The account a command binds its person to, and what it does then.
Target(j) == IF j.cmd = "present" THEN j.to ELSE j.user
Return(j, d) == IF j.cmd = "present" THEN End(j, d) ELSE Then(j, [j EXCEPT !.at = "check"], d)

\* bind_user: the row of this person is read,
SelectBind(j) ==
  /\ j.at = "select"
  /\ LET b == FirstBind(db, j.who) IN
     IF b # None /\ b[3] = Target(j) THEN Return(j, db)
     ELSE Then(j, [j EXCEPT !.saw = b, !.at = "put"], db)

\* and a new one inserted, or the person's rows moved to the user.
PutBind(j) ==
  /\ j.at = "put" /\ Target(j) \in db.users
  /\ IF j.saw = None
     THEN Return(j, [db EXCEPT !.binds = @ \cup {<<db.n, j.who, Target(j)>>}, !.n = @ + 1])
     ELSE Then(j, [j EXCEPT !.at = "rest"],
               [db EXCEPT !.binds = {IF b[2] = j.who THEN <<b[1], b[2], Target(j)>> ELSE b : b \in @}])

\* Mutant of Deserted: whether the old account is still bound is not looked at.
Deserted_Always(j) == TRUE

\* Whether the old account has a binding left is read after the commit;
Deserted(j) == ~Bound(db, j.saw[3])
RestOfBinds(j) ==
  /\ j.at = "rest"
  /\ Target(j) \in db.users /\ \E b \in db.binds : b[1] = j.saw[1]
  /\ IF Deserted(j) THEN Pass(j, "orphan") ELSE Return(j, db)

\* if it has none it is deleted, in a transaction of its own.
DeleteOrphan(j) ==
  /\ j.at = "orphan"
  /\ Return(j, WithoutUser(db, j.saw[3]))

-----------------------------------------------------------------------------
(* Binding tokens and leaving                                              *)

IssueToken(j) ==
  /\ j.cmd = "token" /\ j.at = "check"
  /\ End(j, [db EXCEPT !.tokens = @ \cup {<<db.n, j.user>>}, !.n = @ + 1])

\* The token is read and deleted in two steps.
ReadToken(j) ==
  /\ j.cmd = "present" /\ j.at = "check"
  /\ j.arg \in db.tokens
  /\ Pass(j, "spend")
SpendToken(j) ==
  /\ j.cmd = "present" /\ j.at = "spend"
  /\ Then(j, [j EXCEPT !.at = IF j.user = None THEN "proved" ELSE "confirm"],
          [db EXCEPT !.tokens = @ \ {j.arg}])
ExpireToken(t) ==
  /\ db' = [db EXCEPT !.tokens = @ \ {t}]
  /\ jobs' = Remember(db', jobs) /\ UNCHANGED given

\* The person's answer, which may come much later.
Confirm(j) ==
  /\ j.at = "confirm"
  /\ Pass(j, IF j.cmd = "present" THEN "proved" ELSE "write")

ReadOldBind(j) ==
  /\ j.cmd = "present" /\ j.at = "proved" /\ j.to \in db.users
  /\ LET b == FirstBind(db, j.who) IN
     Then(j, [j EXCEPT !.saw = b, !.at = IF b = None THEN "select" ELSE "unbind"], db)
DeleteOldBind(j) ==
  /\ j.cmd = "present" /\ j.at = "unbind"
  /\ \E b \in db.binds : b[1] = j.saw[1]
  /\ Then(j, [j EXCEPT !.saw = None, !.at = "select"],
          [db EXCEPT !.binds = {b \in @ : b[1] # j.saw[1]}])

\* logout: what may go is judged by what was loaded with the first message.
AskLogout(j) ==
  /\ j.cmd = "logout" /\ j.at = "check" /\ j.user # None
  /\ CASE j.arg = "teacher" -> j.seen.teacher /\ j.seen.teaches = {}
       [] j.arg = "student" -> j.seen.student # None
       [] j.arg = "user" -> ~j.seen.teacher /\ j.seen.student = None
  /\ Pass(j, "confirm")
Logout(j) ==
  /\ j.cmd = "logout" /\ j.at = "write"
  /\ End(j, CASE j.arg = "teacher" -> WithoutTeacher(db, j.user)
              [] j.arg = "student" -> [db EXCEPT !.students[j.user] = None]
              [] j.arg = "user" -> WithoutUser(db, j.user))

-----------------------------------------------------------------------------
(* Joining and leaving a class                                             *)

\* The class is kept as it was read, with its way of joining.
AskJoin(j) ==
  /\ j.cmd = "join" /\ j.at = "check"
  /\ ~j.seen.teacher /\ j.class \in db.classes /\ j.seen.student # j.class
  /\ Then(j, [j EXCEPT !.mode = db.mode[j.class], !.was = j.seen.student,
                       !.at = IF j.seen.student = None THEN "write" ELSE "confirm"], db)

\* Mutant of Join: a class that only invites takes a request for a joining.
Join_Invited(j) ==
  /\ j.cmd = "join" /\ j.at = "write"
  /\ CanJoin(db, j.user, j.was, j.class)
  /\ End(j, Joined(db, j.user, j.was, j.class))

Join(j) ==
  /\ j.cmd = "join" /\ j.at = "write"
  /\ \/ /\ j.mode = "direct" /\ CanJoin(db, j.user, j.was, j.class)
        /\ End(j, Joined(db, j.user, j.was, j.class))
     \/ /\ j.mode = "apply" /\ j.user \in db.users /\ j.class \in db.classes
        /\ End(j, [db EXCEPT !.requests = @ \cup {<<db.n, j.user, j.class>>}, !.n = @ + 1])

AskExit(j) ==
  /\ j.cmd = "exit" /\ j.at = "check" /\ j.seen.student # None
  /\ Pass(j, "confirm")
Exit(j) ==
  /\ j.cmd = "exit" /\ j.at = "write"
  /\ End(j, [db EXCEPT !.students[j.user] = None])

\* review_join_request: whoever asked, and their student, is read with the
\* request; one who is in the class by now is only taken off the list.
ReadRequest(j) ==
  /\ j.cmd \in {"approve", "reject"} /\ j.at = "check"
  /\ j.arg \in db.requests /\ j.class \in j.seen.teaches
  /\ Then(j, [j EXCEPT !.was = db.students[j.to],
                       !.at = IF j.cmd = "reject" \/ db.students[j.to] = j.class THEN "drop" ELSE "write"], db)
Approve(j) ==
  /\ j.cmd = "approve" /\ j.at = "write"
  /\ CanJoin(db, j.to, j.was, j.class)
  /\ Then(j, [j EXCEPT !.at = "drop"], Joined(db, j.to, j.was, j.class))
DropRequest(j) ==
  /\ j.cmd \in {"approve", "reject"} /\ j.at = "drop" /\ j.arg \in db.requests
  /\ End(j, [db EXCEPT !.requests = @ \ {j.arg}])

AskAdd(j) ==
  /\ j.cmd = "add" /\ j.at = "check"
  /\ j.to \in db.users \ db.teachers /\ db.students[j.to] = None
  /\ j.class \in db.classes /\ CanManage(db, j.user, j.seen.teacher, j.class)
  /\ Pass(j, "write")
Add(j) ==
  /\ j.cmd = "add" /\ j.at = "write"
  /\ CanJoin(db, j.to, None, j.class)
  /\ End(j, Joined(db, j.to, None, j.class))

\* delete_student_profile
AskExpel(j) ==
  /\ j.cmd = "expel" /\ j.at = "check"
  /\ LET c == db.students[j.to] IN
     /\ c # None
     /\ j.user \in Admins \/ (c \in j.seen.teaches /\ Holds(db, j.user, c))
  /\ Pass(j, "write")
Expel(j) ==
  /\ j.cmd = "expel" /\ j.at = "write"
  /\ db.students[j.to] # None
  /\ End(j, [db EXCEPT !.students[j.to] = None])

-----------------------------------------------------------------------------
(* Classes and their teachers                                              *)

\* set_class_teacher
AskAppoint(j) ==
  /\ j.cmd = "appoint" /\ j.at = "check"
  /\ j.class \in db.classes /\ j.to \in db.teachers
  /\ CanManage(db, j.user, j.seen.teacher, j.class)
  /\ Pass(j, "write")
Appointed(d, t, c, role) ==
  [d EXCEPT !.offices = {o \in @ : <<o[1], o[2]>> # <<t, c>>} \cup {<<t, c, role>>}]
Appoint(j) ==
  /\ j.cmd = "appoint" /\ j.at = "write"
  /\ j.class \in db.classes /\ j.to \in db.teachers
  /\ End(j, Appointed(db, j.to, j.class, j.arg))

\* unset_class_teacher: the last manager stays, as far as the count was true.
AskDismiss(j) ==
  /\ j.cmd = "dismiss" /\ j.at = "check"
  /\ j.class \in Teaches(db, j.to) /\ CanManage(db, j.user, j.seen.teacher, j.class)
  /\ Holds(db, j.to, j.class) => Cardinality(ManagersIn(db, j.class)) > 1
  /\ Pass(j, "write")
Dismiss(j) ==
  /\ j.cmd = "dismiss" /\ j.at = "write"
  /\ End(j, [db EXCEPT !.offices = {o \in @ : <<o[1], o[2]>> # <<j.to, j.class>>}])

\* delete_teacher_profile
Fire(j) ==
  /\ j.cmd = "fire" /\ j.at = "check"
  /\ j.to \in db.teachers /\ j.user \in Admins
  /\ End(j, WithoutTeacher(db, j.to))

\* delete_classes
AskDelete(j) ==
  /\ j.cmd = "delete" /\ j.at = "check"
  /\ j.class \in db.classes \cap j.seen.teaches
  /\ Pass(j, IF \E v \in Users : db.students[v] = j.class THEN "confirm" ELSE "write")
Delete(j) ==
  /\ j.cmd = "delete" /\ j.at = "write"
  /\ End(j, IF j.class \in db.classes THEN WithoutGroups(db, {db.home[j.class]}) ELSE db)

SetJoinMode(j) ==
  /\ j.cmd = "mode" /\ j.at = "check"
  /\ j.class \in db.classes \cap j.seen.teaches
  /\ End(j, [db EXCEPT !.mode[j.class] = j.arg])

-----------------------------------------------------------------------------
(* Groups, their channels and the founding of classes                      *)

\* collect_message: the group of the channel, if there is one, takes the message;
\* else whoever speaks makes one (resolve_or_create_bound_group).
Listen(j) ==
  /\ j.at = "listen"
  /\ IF FirstRow(db, j.to) = None THEN Pass(j, "load") ELSE End(j, db)

\* create_classes and import_classes make the caller a teacher,
Hire(j) ==
  /\ j.cmd \in {"create", "import"} /\ j.at = "check" /\ j.seen.student = None
  /\ j.cmd = "create" => \A r \in {FirstRow(db, j.to)} \ {None} : ~HasClass(db, r[3])
  /\ IF j.seen.teacher THEN Pass(j, "class")
     ELSE /\ j.user \in db.users /\ j.user \notin db.teachers
          /\ Then(j, [j EXCEPT !.at = "class"], [db EXCEPT !.teachers = @ \cup {j.user}])

\* and look for the class: the import takes one that nobody else has; to create
\* one the caller has already only hangs this channel to it.
FindClass(j) ==
  /\ j.at = "class" /\ j.class \in db.classes
  /\ \/ j.cmd = "import" /\ j.class \in Teaches(db, j.user) /\ Pass(j, "row")
     \/ j.cmd = "import" /\ OfficesIn(db, j.class) = {} /\ Pass(j, "adopt")
     \/ /\ j.cmd = "create" /\ j.class \in Teaches(db, j.user)
        /\ Then(j, [j EXCEPT !.group = db.home[j.class], !.arg = "attach", !.at = "tie"], db)

\* A new class gets a new group, or the one its channel has, which changes hands.
MakeGroup(j) ==
  /\ j.user \in db.users
  /\ \/ j.cmd = "speak" /\ j.at = "check"
     \/ j.cmd = "import" /\ j.at = "class" /\ j.class \notin db.opened
     \/ j.cmd = "create" /\ j.at = "class" /\ j.class \notin db.opened /\ FirstRow(db, j.to) = None
  /\ LET g == db.last + 1 IN
     Then(j, [j EXCEPT !.group = g, !.at = IF j.cmd = "import" THEN "found" ELSE "tie"],
          [db EXCEPT !.last = g, !.groups = [h \in DOMAIN @ \cup {g} |-> IF h = g THEN j.user ELSE @[h]]])
TakeGroup(j) ==
  /\ j.cmd = "create" /\ j.at = "class" /\ j.class \notin db.opened /\ j.user \in db.users
  /\ LET r == FirstRow(db, j.to) IN
     /\ r # None
     /\ Then(j, [j EXCEPT !.group = r[3], !.at = "tie"], [db EXCEPT !.groups[r[3]] = j.user])

\* bind_group: what follows it,
Tied(j, d) ==
  IF j.cmd = "speak" \/ j.arg = "attach" THEN End(j, d) ELSE Then(j, [j EXCEPT !.at = "found"], d)

\* Mutant of Movable: the class of the old group is not looked at.
Movable_Always(g) == TRUE

\* the channel's row is read, which must not lead to another class,
Movable(g) == ~HasClass(db, g)
SelectRow(j) ==
  /\ j.at = "tie"
  /\ LET r == FirstRow(db, j.to) IN
     CASE r = None -> Pass(j, "hang")
       [] r # None /\ r[3] = j.group -> Tied(j, db)
       [] r # None /\ r[3] # j.group -> Movable(r[3]) /\ Then(j, [j EXCEPT !.row = r, !.at = "move"], db)

\* and a new one inserted, or this one moved to the group.
HangChannel(j) ==
  /\ j.at = "hang" /\ j.group \in DOMAIN db.groups
  /\ Tied(j, [db EXCEPT !.rows = @ \cup {<<db.n, j.to, j.group>>}, !.n = @ + 1])
MoveChannel(j) ==
  /\ j.at = "move" /\ j.group \in DOMAIN db.groups
  /\ \E r \in db.rows : r[1] = j.row[1]
  /\ Then(j, [j EXCEPT !.at = "moved"],
          [db EXCEPT !.rows = {IF r[1] = j.row[1] THEN <<r[1], r[2], j.group>> ELSE r : r \in @}])

\* Whether the old group has a channel left is read after the commit, whether it
\* has a class as well, unless the session answers with what it read before.
LookBack(j) ==
  /\ j.at = "moved"
  /\ LET g == j.row[3] IN
     \/ ~Hung(db, g) /\ g \in DOMAIN db.groups /\ Pass(j, "clear")
     \/ (Hung(db, g) \/ HasClass(db, g) \/ g \notin DOMAIN db.groups) /\ Tied(j, db)
DropGroup(j) ==
  /\ j.at = "clear"
  /\ Tied(j, WithoutGroups(db, {j.row[3]}))

\* The class is created in its group, of which it must be the only one;
Found(j) ==
  /\ j.at = "found"
  /\ j.class \notin db.opened /\ j.group \in DOMAIN db.groups /\ ~HasClass(db, j.group)
  /\ Then(j, [j EXCEPT !.at = "adopt"],
          [db EXCEPT !.opened = @ \cup {j.class}, !.classes = @ \cup {j.class}, !.home[j.class] = j.group])

\* it is bound to its teacher, first in no special role.
Adopt(j) ==
  /\ j.at = "adopt" /\ j.class \in db.classes /\ j.user \in db.teachers
  /\ Then(j, [j EXCEPT !.at = "role"],
          IF j.class \in Teaches(db, j.user) THEN db ELSE Appointed(db, j.user, j.class, "teacher"))
TakeRole(j) ==
  /\ j.at = "role"
  /\ LET d == IF j.class \in Teaches(db, j.user) THEN Appointed(db, j.user, j.class, "manager") ELSE db IN
     IF j.cmd = "create" THEN End(j, d) ELSE Then(j, [j EXCEPT !.at = "row"], d)

\* A row of the import moves the student with this code, or makes a new account.
ImportRow(j) ==
  /\ j.cmd = "import" /\ j.at = "row"
  /\ IF db.students[j.to] # None
     THEN j.class \in db.classes /\ End(j, [db EXCEPT !.students[j.to] = j.class])
     ELSE \E u \in Users \ db.used :
            Then(j, [j EXCEPT !.to = u, !.at = "new"], [db EXCEPT !.used = @ \cup {u}, !.users = @ \cup {u}])
ImportNew(j) ==
  /\ j.cmd = "import" /\ j.at = "new"
  /\ CanJoin(db, j.to, None, j.class)
  /\ End(j, Joined(db, j.to, None, j.class))

-----------------------------------------------------------------------------
Init == db \in Start /\ jobs = {} /\ given = 0

\* What a command names is there when it is given.
Commands(p) ==
  {Job(p, "token", None, None, None), Job(p, "exit", None, None, None)}
    \cup {Job(p, "present", None, t[2], t) : t \in db.tokens}
    \cup {Job(p, "logout", None, None, role) : role \in {"teacher", "student", "user"}}
    \cup {Job(p, "create", c, ch, None) : c \in Classes, ch \in Channels}
    \cup {Job(p, "speak", None, ch, None) : ch \in Channels}
    \cup {Job(p, "import", c, v, None) : c \in Classes, v \in db.users}
    \cup {Job(p, cmd, c, None, None) : cmd \in {"join", "delete"}, c \in db.classes}
    \cup {Job(p, cmd, r[3], r[2], r) : cmd \in {"approve", "reject"}, r \in db.requests}
    \cup {Job(p, cmd, c, v, None) : cmd \in {"add", "dismiss"}, c \in db.classes, v \in db.users}
    \cup {Job(p, cmd, None, v, None) : cmd \in {"expel", "fire"}, v \in db.users}
    \cup {Job(p, "appoint", c, v, role) : c \in db.classes, v \in db.users, role \in {"teacher", "manager"}}
    \cup {Job(p, "mode", c, None, m) : c \in db.classes, m \in Modes}

Bind(j) == Load(j) \/ SelectBind(j) \/ PutBind(j) \/ RestOfBinds(j) \/ DeleteOrphan(j)
Leave(j) == \/ IssueToken(j) \/ ReadToken(j) \/ SpendToken(j) \/ ReadOldBind(j) \/ DeleteOldBind(j)
            \/ AskLogout(j) \/ Logout(j)
Enrol(j) == \/ AskJoin(j) \/ Join(j) \/ AskExit(j) \/ Exit(j) \/ ReadRequest(j) \/ Approve(j)
            \/ DropRequest(j) \/ AskAdd(j) \/ Add(j) \/ AskExpel(j) \/ Expel(j)
Manage(j) == \/ AskAppoint(j) \/ Appoint(j) \/ AskDismiss(j) \/ Dismiss(j) \/ Fire(j) \/ AskDelete(j)
             \/ Delete(j) \/ SetJoinMode(j) \/ Hire(j) \/ FindClass(j) \/ Found(j) \/ Adopt(j) \/ TakeRole(j)
             \/ ImportRow(j) \/ ImportNew(j)
Settle(j) == \/ Listen(j) \/ MakeGroup(j) \/ TakeGroup(j) \/ SelectRow(j) \/ HangChannel(j)
             \/ MoveChannel(j) \/ LookBack(j) \/ DropGroup(j)

Next ==
  \/ given < MaxCommands /\ \E p \in Persons : \E j \in Commands(p) : Receive(j)
  \/ \E j \in jobs : Bind(j) \/ Confirm(j) \/ Leave(j) \/ Enrol(j) \/ Manage(j) \/ Settle(j)
  \/ \E t \in db.tokens : ExpireToken(t)

Spec == Init /\ [][Next]_vars

-----------------------------------------------------------------------------
(* Properties                                                              *)

Admits(j, v, c) ==
  \/ <<"manage", c>> \in j.could
  \/ <<"teach", c>> \in j.could /\ (j.cmd = "import" \/ <<"asked", v, c>> \in j.could)
  \/ j.user = v /\ <<"open", c>> \in j.could
Appoints(j, t, c) == <<"manage", c>> \in j.could \/ (j.user = t /\ <<"vacant", c>> \in j.could)
Proves(j, p, u) == j.who = p /\ (<<"token", u>> \in j.could \/ (j.user = u /\ j.at = "put"))

EntitledStep ==
  /\ \A v \in Users : db'.students[v] \notin {None, db.students[v]} =>
       \E j \in jobs : Admits(j, v, db'.students[v])
  /\ \A o \in db'.offices \ db.offices : o[3] = "manager" => \E j \in jobs : Appoints(j, o[1], o[2])
  /\ \A b \in db'.binds \ db.binds : \E j \in jobs : Proves(j, b[2], b[3])

\* Nobody becomes a student or a manager of a class, and no person is bound to
\* an account, but by a command whose caller was, at some time since it was given,
\* one of those the handler lets do this: a manager of the class, ANY of its
\* teachers for an import or for the approval of a request, whoever joins an open
\* class, founds one or takes over one that has no teacher, the bearer of the
\* account's token, or the sender of a first message.  The handlers decide on what
\* they read before the person's answer, in other transactions, while both the
\* roles and the ways of joining change.  That a plain teacher may import and
\* approve (classes/__init__.py:193, :414) is the code's rule, not that of
\* docs/reference/role-reference.md:293, which leaves the management of a class to
\* its homeroom teacher and counselor: this property is about when the rule is
\* applied, and says nothing for the rule.
EntitledOnly == [][EntitledStep]_vars

AccountsStep ==
  \A u \in db.users \ db'.users : \E j \in jobs :
    \/ j.cmd = "logout" /\ j.arg = "user" /\ j.user = u /\ j.at = "write"
    \/ <<"deserted", u>> \in j.could

\* An account goes only by its owner's confirmed logout, or by a binding moved
\* away from it when at some time since it had none left.  (An administrator may
\* delete any account on a page of the management interface, left out here.)
AccountsAreKept == [][AccountsStep]_vars

ClassesStep ==
  /\ \A c \in db.classes \ db'.classes : \E j \in jobs :
       \/ j.cmd = "delete" /\ <<"teach", c>> \in j.could
       \/ LET u == db.groups[db.home[c]] IN u \in db.users \ db'.users
       \/ j.at = "clear" /\ {<<"free", db.home[c]>>, <<"unhung", db.home[c]>>} \subseteq j.could
  /\ \A r \in db.rows \ db'.rows :
       \/ r[3] \notin DOMAIN db'.groups
       \/ \E j \in jobs : j.at = "move" /\ j.row[1] = r[1] /\ <<"free", j.row[3]>> \in j.could

\* A class goes only by the command of one who taught it at some time since, with
\* the account that made its group, or, when its channel moves away, with a group
\* that at some time since had no class and at some time no channel.  (One who
\* taught it in whatever office: that a plain teacher may delete a class,
\* classes/__init__.py:359, is against docs/reference/role-reference.md:293.)  A channel
\* leaves a group only with it, or by a move decided when the channel led to a
\* group without a class.  The group is judged free before its channel is moved
\* and deleted two transactions later, while others found classes and hang
\* channels; so a channel can be taken from a class, which bind_group means to refuse:
\* two commands read its row while it leads to a free group, the first moves it to the
\* group of a class, the second moves it on by its id alone.  (Deleting a school, a
\* college or a major, with its classes, is left out.)
ClassesAreKept == [][ClassesStep]_vars

=============================================================================
