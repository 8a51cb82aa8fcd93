---------------------------- MODULE Campus_proofs ----------------------------
(***************************************************************************)
(* Proofs about Campus: whatever the commands, their number and the order   *)
(* of their steps, nobody gets into a class, an office or an account who    *)
(* was not entitled to it, and accounts, classes and channels go only by    *)
(* the ways the code means them to.                                         *)
(*                                                                         *)
(* A command acts on what it read some transactions ago.  The invariant     *)
(* says what is known of it at every point where it waits: that what it     *)
(* decided was true when it decided it.  Together with what the keys of the *)
(* tables promise, that is all the writing steps rest on.                   *)
(***************************************************************************)
EXTENDS Campus, TLAPS

Fields == {"cmd", "who", "class", "to", "arg", "at", "user", "seen", "mode", "was", "saw", "row",
           "group", "could"}

\* What is known of a command, by what it is and how far it is.
Teacher(j) ==
  /\ j.cmd \in {"approve", "import", "delete"} /\ j.class \in j.seen.teaches =>
       <<"teach", j.class>> \in j.could
  /\ j.cmd = "delete" /\ j.at \in {"confirm", "write"} => <<"teach", j.class>> \in j.could
  /\ j.cmd = "import" /\ j.at \in {"role", "row", "new"} => <<"teach", j.class>> \in j.could
Founder(j) ==
  /\ j.cmd \in {"create", "import"} => j.class \in Classes
  /\ j.at \in {"class", "found", "adopt", "role"} => j.cmd \in {"create", "import"}
  /\ j.at = "row" => j.cmd = "import"
  /\ j.at \in {"tie", "hang", "move", "moved", "clear"} => j.cmd \in {"create", "speak"}
  /\ j.at \in {"adopt", "role"} => <<"vacant", j.class>> \in j.could
Member(j) ==
  /\ j.cmd = "join" /\ j.at \in {"confirm", "write"} /\ j.mode = "direct" =>
       <<"open", j.class>> \in j.could
  /\ j.cmd \in {"approve", "reject"} => j.arg[2] = j.to /\ j.arg[3] = j.class
  /\ j.cmd = "approve" /\ j.at \in {"confirm", "write"} =>
       <<"teach", j.class>> \in j.could /\ <<"asked", j.to, j.class>> \in j.could
  /\ j.cmd \in {"add", "appoint"} /\ j.at \in {"confirm", "write"} =>
       <<"manage", j.class>> \in j.could
Binder(j) ==
  /\ j.cmd = "present" /\ j.at \notin {"load", "check"} => <<"token", j.to>> \in j.could
  /\ j.at = "rest" => j.saw # None
  /\ j.at = "orphan" => <<"deserted", j.saw[3]>> \in j.could
  /\ j.cmd = "logout" => j.arg \in {"teacher", "student", "user"}
Mover(j) ==
  /\ j.at \in {"move", "moved", "clear"} => j.row # None /\ <<"free", j.row[3]>> \in j.could
  /\ j.at = "clear" => <<"unhung", j.row[3]>> \in j.could

JobOK(j) ==
  DOMAIN j = Fields /\ Teacher(j) /\ Founder(j) /\ Member(j) /\ Binder(j) /\ Mover(j)

IInv == Keyed(db) /\ \A i \in jobs : JobOK(i)

\* A command once what it may do now is remembered.
Now(d, j) == [j EXCEPT !.could = @ \cup Entitled(d, j)]

\* What a command does to the database, as the three properties judge it.
Fair(j, d, e) ==
  /\ Keyed(e)
  /\ \A v \in Users : e.students[v] \notin {None, d.students[v]} => Admits(j, v, e.students[v])
  /\ \A o \in e.offices \ d.offices : o[3] = "manager" => Appoints(j, o[1], o[2])
  /\ \A b \in e.binds \ d.binds : Proves(j, b[2], b[3])
  /\ \A u \in d.users \ e.users :
       \/ j.cmd = "logout" /\ j.arg = "user" /\ j.user = u /\ j.at = "write"
       \/ <<"deserted", u>> \in j.could
  /\ \A c \in d.classes \ e.classes :
       \/ j.cmd = "delete" /\ <<"teach", c>> \in j.could
       \/ d.groups[d.home[c]] \in d.users \ e.users
       \/ j.at = "clear" /\ {<<"free", d.home[c]>>, <<"unhung", d.home[c]>>} \subseteq j.could
  /\ \A r \in d.rows \ e.rows :
       \/ r[3] \notin DOMAIN e.groups
       \/ j.at = "move" /\ j.row[1] = r[1] /\ <<"free", j.row[3]>> \in j.could

\* What a command does to itself.
Advances(j) == (\E k : Then(j, k, db') /\ JobOK(Now(db', k))) \/ End(j, db')

-----------------------------------------------------------------------------
(* What is known of a command stays known, for it forgets nothing.         *)

LEMMA NowIs ==
  ASSUME NEW d, NEW j, DOMAIN j = Fields
  PROVE  /\ DOMAIN Now(d, j) = Fields
         /\ \A f \in Fields \ {"could"} : Now(d, j)[f] = j[f]
         /\ Now(d, j).could = j.could \cup Entitled(d, j)
BY DEF Now, Fields

LEMMA NowKeeps ==
  ASSUME NEW d, NEW j, JobOK(j)
  PROVE  JobOK(Now(d, j))
<1>1. PICK k : k = Now(d, j)
  OBVIOUS
<1>2. /\ DOMAIN k = Fields /\ k.could = j.could \cup Entitled(d, j)
      /\ \A f \in Fields \ {"could"} : k[f] = j[f]
  BY <1>1, NowIs DEF JobOK
<1>3. /\ k.cmd = j.cmd /\ k.class = j.class /\ k.to = j.to /\ k.arg = j.arg /\ k.at = j.at
      /\ k.seen = j.seen /\ k.mode = j.mode /\ k.saw = j.saw /\ k.row = j.row
      /\ j.could \subseteq k.could
  BY <1>2 DEF Fields
<1>4. JobOK(k)
  BY <1>2, <1>3 DEF JobOK, Teacher, Founder, Member, Binder, Mover
<1> QED
  BY <1>1, <1>4

\* What a command may do now.
LEMMA MayNow ==
  ASSUME NEW d, NEW j
  PROVE  /\ j.cmd \in {"approve", "import", "delete"} /\ j.class \in Teaches(d, j.user) =>
              <<"teach", j.class>> \in Entitled(d, j)
         /\ j.cmd \in {"add", "appoint"} /\ j.class \in d.classes /\ CanManage(d, j.user, TRUE, j.class) =>
              <<"manage", j.class>> \in Entitled(d, j)
         /\ j.cmd = "join" /\ j.class \in d.classes /\ d.mode[j.class] = "direct" =>
              <<"open", j.class>> \in Entitled(d, j)
         /\ j.cmd \in {"create", "import"} /\ j.class \in d.classes /\ OfficesIn(d, j.class) = {} =>
              <<"vacant", j.class>> \in Entitled(d, j)
         /\ \A r \in d.requests : j.cmd = "approve" /\ r[3] = j.class =>
              <<"asked", r[2], r[3]>> \in Entitled(d, j)
         /\ j.cmd = "present" /\ j.arg \in d.tokens => <<"token", j.to>> \in Entitled(d, j)
         /\ j.saw # None /\ ~Bound(d, j.saw[3]) => <<"deserted", j.saw[3]>> \in Entitled(d, j)
         /\ j.row # None /\ ~HasClass(d, j.row[3]) => <<"free", j.row[3]>> \in Entitled(d, j)
         /\ j.row # None /\ ~Hung(d, j.row[3]) => <<"unhung", j.row[3]>> \in Entitled(d, j)
BY DEF Entitled, If

LEMMA AllAdvance ==
  ASSUME IInv, NEW j \in jobs, Advances(j)
  PROVE  \A i \in jobs' : JobOK(i)
<1>1. CASE \E k : Then(j, k, db') /\ JobOK(Now(db', k))
  <2>1. PICK k : Then(j, k, db') /\ JobOK(Now(db', k))
    BY <1>1
  <2>2. jobs' = {Now(db', i) : i \in (jobs \ {j}) \cup {k}}
    BY <2>1 DEF Then, Remember, Now
  <2> QED
    BY <2>1, <2>2, NowKeeps DEF IInv
<1>2. CASE End(j, db')
  <2>1. jobs' = {Now(db', i) : i \in jobs \ {j}}
    BY <1>2 DEF End, Remember, Now
  <2> QED
    BY <2>1, NowKeeps DEF IInv
<1> QED
  BY <1>1, <1>2 DEF Advances

-----------------------------------------------------------------------------
(* What the deletions take with them.                                      *)

LEMMA ClassesGone ==
  ASSUME NEW d, Keyed(d), NEW gone, NEW e, e = WithoutClasses(d, gone)
  PROVE  /\ DOMAIN e = Tables /\ e.classes = d.classes \ gone
         /\ DOMAIN e.students = Users /\ \A v \in Users : e.students[v] \in {None, d.students[v]}
         /\ e.offices = {o \in d.offices : o[2] \notin gone}
         /\ e.users = d.users /\ e.binds = d.binds /\ e.groups = d.groups /\ e.home = d.home
         /\ e.opened = d.opened /\ e.rows = d.rows
BY DEF WithoutClasses, Keyed, Tables

LEMMA GroupsGone ==
  ASSUME NEW d, Keyed(d), NEW gone, NEW e, e = WithoutGroups(d, gone)
  PROVE  /\ DOMAIN e = Tables
         /\ e.classes = {c \in d.classes : d.home[c] \notin gone}
         /\ DOMAIN e.students = Users /\ \A v \in Users : e.students[v] \in {None, d.students[v]}
         /\ e.offices = {o \in d.offices : o[2] \in e.classes}
         /\ e.users = d.users /\ e.binds = d.binds /\ e.home = d.home /\ e.opened = d.opened
         /\ DOMAIN e.groups = DOMAIN d.groups \ gone
         /\ \A g \in DOMAIN e.groups : e.groups[g] = d.groups[g]
         /\ e.rows = {r \in d.rows : r[3] \notin gone}
<1>1. PICK x : x = WithoutClasses(d, {c \in d.classes : d.home[c] \in gone})
  OBVIOUS
<1>2. /\ DOMAIN x = Tables /\ x.classes = d.classes \ {c \in d.classes : d.home[c] \in gone}
      /\ DOMAIN x.students = Users /\ \A v \in Users : x.students[v] \in {None, d.students[v]}
      /\ x.offices = {o \in d.offices : o[2] \notin {c \in d.classes : d.home[c] \in gone}}
      /\ x.users = d.users /\ x.binds = d.binds /\ x.groups = d.groups /\ x.home = d.home
      /\ x.opened = d.opened /\ x.rows = d.rows
  BY <1>1, ClassesGone
<1>3. e = [x EXCEPT !.groups = [g \in DOMAIN @ \ gone |-> @[g]], !.rows = {r \in @ : r[3] \notin gone}]
  BY <1>1 DEF WithoutGroups
<1>4. /\ DOMAIN e = Tables /\ e.classes = x.classes /\ e.students = x.students /\ e.offices = x.offices
      /\ e.users = x.users /\ e.binds = x.binds /\ e.home = x.home /\ e.opened = x.opened
      /\ e.groups = [g \in DOMAIN x.groups \ gone |-> x.groups[g]]
      /\ e.rows = {r \in x.rows : r[3] \notin gone}
  BY <1>2, <1>3 DEF Tables
<1>5. e.classes = {c \in d.classes : d.home[c] \notin gone}
  BY <1>2, <1>4
<1>6. e.offices = {o \in d.offices : o[2] \in e.classes}
  <2>1. \A o \in d.offices : o[2] \in d.classes
    BY DEF Keyed
  <2> QED
    BY <1>2, <1>4, <1>5, <2>1
<1> QED
  BY <1>2, <1>4, <1>5, <1>6

\* A group that goes takes its class and its channels, and nothing else.
LEMMA GroupsGoneKeyed ==
  ASSUME NEW d, Keyed(d), NEW gone, NEW e, e = WithoutGroups(d, gone)
  PROVE  Keyed(e)
<1>1. /\ DOMAIN e = Tables /\ e.classes = {c \in d.classes : d.home[c] \notin gone}
      /\ DOMAIN e.students = Users /\ e.offices = {o \in d.offices : o[2] \in e.classes}
      /\ e.users = d.users /\ e.home = d.home /\ e.opened = d.opened
      /\ DOMAIN e.groups = DOMAIN d.groups \ gone
      /\ \A g \in DOMAIN e.groups : e.groups[g] = d.groups[g]
  BY GroupsGone
<1> QED
  BY <1>1 DEF Keyed

LEMMA UserGone ==
  ASSUME NEW d, Keyed(d), NEW u, NEW e, e = WithoutUser(d, u)
  PROVE  /\ Keyed(e) /\ e.users = d.users \ {u}
         /\ \A c \in d.classes \ e.classes : d.groups[d.home[c]] = u /\ d.home[c] \in DOMAIN d.groups
         /\ \A v \in Users : e.students[v] \in {None, d.students[v]}
         /\ e.offices \subseteq d.offices /\ e.binds \subseteq d.binds
         /\ \A r \in d.rows \ e.rows : r[3] \notin DOMAIN e.groups
<1>1. PICK gone : gone = {g \in DOMAIN d.groups : d.groups[g] = u}
  OBVIOUS
<1>2. PICK x : x = WithoutGroups(d, gone)
  OBVIOUS
<1>3. /\ DOMAIN x = Tables /\ x.classes = {c \in d.classes : d.home[c] \notin gone}
      /\ DOMAIN x.students = Users /\ \A v \in Users : x.students[v] \in {None, d.students[v]}
      /\ x.offices = {o \in d.offices : o[2] \in x.classes}
      /\ x.users = d.users /\ x.binds = d.binds /\ x.home = d.home /\ x.opened = d.opened
      /\ DOMAIN x.groups = DOMAIN d.groups \ gone
      /\ \A g \in DOMAIN x.groups : x.groups[g] = d.groups[g]
      /\ x.rows = {r \in d.rows : r[3] \notin gone}
  BY <1>2, GroupsGone
<1>4. PICK y : y = WithoutTeacher(x, u)
  OBVIOUS
<1>5. /\ DOMAIN y = Tables /\ y.offices = {o \in x.offices : o[1] # u}
      /\ y.classes = x.classes /\ y.students = x.students /\ y.users = x.users /\ y.binds = x.binds
      /\ y.home = x.home /\ y.opened = x.opened /\ y.groups = x.groups /\ y.rows = x.rows
  BY <1>3, <1>4 DEF WithoutTeacher, Tables
<1>6. e = [y EXCEPT !.users = @ \ {u}, !.students[u] = None,
                    !.binds = {b \in @ : b[3] # u}, !.requests = {r \in @ : r[2] # u}]
  BY <1>1, <1>2, <1>4 DEF WithoutUser
<1>7. /\ DOMAIN e = Tables /\ e.users = y.users \ {u} /\ e.students = [y.students EXCEPT ![u] = None]
      /\ e.binds = {b \in y.binds : b[3] # u} /\ e.offices = y.offices /\ e.classes = y.classes
      /\ e.home = y.home /\ e.opened = y.opened /\ e.groups = y.groups /\ e.rows = y.rows
  BY <1>5, <1>6 DEF Tables
<1>8. DOMAIN e.students = Users /\ \A v \in Users : e.students[v] \in {None, d.students[v]}
  BY <1>3, <1>5, <1>7
<1>9. \A g \in DOMAIN e.groups : e.groups[g] \in e.users
  <2>1. \A g \in DOMAIN d.groups : d.groups[g] \in d.users
    BY DEF Keyed
  <2> QED
    BY <1>1, <1>3, <1>5, <1>7, <2>1
<1>10. Keyed(e)
  <2>1. e.classes \subseteq d.classes /\ e.home = d.home /\ e.opened = d.opened
    BY <1>3, <1>5, <1>7
  <2>2. \A o \in e.offices : o[2] \in e.classes
    BY <1>3, <1>5, <1>7
  <2> QED
    BY <1>7, <1>8, <1>9, <2>1, <2>2 DEF Keyed
<1>11. \A r \in d.rows \ e.rows : r[3] \notin DOMAIN e.groups
  BY <1>3, <1>5, <1>7
<1>12. \A c \in d.classes \ e.classes : d.groups[d.home[c]] = u /\ d.home[c] \in DOMAIN d.groups
  BY <1>1, <1>3, <1>5, <1>7
<1> QED
  BY <1>3, <1>5, <1>7, <1>8, <1>10, <1>11, <1>12

-----------------------------------------------------------------------------
(* The shapes that what a command writes may have.                         *)

\* Nobody gets in, and what the three properties count stays.
LEMMA OnlyLess ==
  ASSUME NEW j, NEW d, NEW e, Keyed(d), DOMAIN e = Tables,
         DOMAIN e.students = Users, \A v \in Users : e.students[v] \in {None, d.students[v]},
         e.offices \subseteq d.offices, e.binds \subseteq d.binds, d.users \subseteq e.users,
         e.classes = d.classes, e.home = d.home, e.opened = d.opened, e.groups = d.groups,
         d.rows \subseteq e.rows
  PROVE  Fair(j, d, e)
BY DEF Fair, Keyed

LEMMA AccountGoes ==
  ASSUME NEW j, NEW d, Keyed(d), NEW u,
         \/ j.cmd = "logout" /\ j.arg = "user" /\ j.user = u /\ j.at = "write"
         \/ <<"deserted", u>> \in j.could
  PROVE  Fair(j, d, WithoutUser(d, u))
<1>1. PICK e : e = WithoutUser(d, u)
  OBVIOUS
<1>2. /\ Keyed(e) /\ e.users = d.users \ {u}
      /\ \A c \in d.classes \ e.classes : d.groups[d.home[c]] = u /\ d.home[c] \in DOMAIN d.groups
      /\ \A v \in Users : e.students[v] \in {None, d.students[v]}
      /\ e.offices \subseteq d.offices /\ e.binds \subseteq d.binds
      /\ \A r \in d.rows \ e.rows : r[3] \notin DOMAIN e.groups
  BY <1>1, UserGone
<1>3. \A c \in d.classes \ e.classes : d.groups[d.home[c]] \in d.users \ e.users
  BY <1>2 DEF Keyed
<1> QED
  BY <1>1, <1>2, <1>3 DEF Fair

LEMMA GroupGoes ==
  ASSUME NEW j, NEW d, Keyed(d), NEW h,
         \A c \in d.classes : d.home[c] = h =>
           \/ j.cmd = "delete" /\ <<"teach", c>> \in j.could
           \/ j.at = "clear" /\ {<<"free", h>>, <<"unhung", h>>} \subseteq j.could
  PROVE  Fair(j, d, WithoutGroups(d, {h}))
<1>1. PICK e : e = WithoutGroups(d, {h})
  OBVIOUS
<1>2. /\ e.classes = {c \in d.classes : d.home[c] \notin {h}}
      /\ \A v \in Users : e.students[v] \in {None, d.students[v]}
      /\ e.offices = {o \in d.offices : o[2] \in e.classes}
      /\ e.users = d.users /\ e.binds = d.binds
      /\ DOMAIN e.groups = DOMAIN d.groups \ {h}
      /\ e.rows = {r \in d.rows : r[3] \notin {h}}
  BY <1>1, GroupsGone
<1>3. Keyed(e)
  BY <1>1, GroupsGoneKeyed
<1>4. \A c \in d.classes \ e.classes : d.home[c] = h
  BY <1>2
<1>5. \A r \in d.rows \ e.rows : r[3] \notin DOMAIN e.groups
  BY <1>2
<1>6. /\ \A o \in e.offices \ d.offices : FALSE
      /\ \A b \in e.binds \ d.binds : FALSE
      /\ \A u \in d.users \ e.users : FALSE
      /\ \A v \in Users : ~(e.students[v] \notin {None, d.students[v]})
  BY <1>2
<1>7. \A c \in d.classes \ e.classes :
        \/ j.cmd = "delete" /\ <<"teach", c>> \in j.could
        \/ j.at = "clear" /\ {<<"free", d.home[c]>>, <<"unhung", d.home[c]>>} \subseteq j.could
  BY <1>4
<1>8. Fair(j, d, e)
  BY <1>3, <1>5, <1>6, <1>7 DEF Fair
<1> QED
  BY <1>1, <1>8

LEMMA Joins ==
  ASSUME NEW j, NEW d, Keyed(d), NEW v, NEW c, NEW e, e = [d EXCEPT !.students[v] = c],
         Admits(j, v, c)
  PROVE  Fair(j, d, e)
<1>1. /\ DOMAIN e = Tables /\ e.students = [d.students EXCEPT ![v] = c]
      /\ e.offices = d.offices /\ e.binds = d.binds /\ e.users = d.users /\ e.classes = d.classes
      /\ e.home = d.home /\ e.opened = d.opened /\ e.groups = d.groups /\ e.rows = d.rows
  BY DEF Keyed, Tables
<1>2. DOMAIN e.students = Users /\ \A w \in Users : e.students[w] \in {d.students[w], c}
                               /\ (e.students[w] # d.students[w] => w = v)
  BY <1>1 DEF Keyed
<1>3. Keyed(e)
  BY <1>1, <1>2 DEF Keyed
<1>4. \A w \in Users : e.students[w] \notin {None, d.students[w]} => Admits(j, w, e.students[w])
  <2> SUFFICES ASSUME NEW w \in Users, e.students[w] # d.students[w] PROVE Admits(j, w, e.students[w])
    OBVIOUS
  <2>1. w = v /\ e.students[w] = c
    BY <1>2
  <2> QED
    BY <2>1
<1> QED
  BY <1>1, <1>3, <1>4 DEF Fair

LEMMA JoinsIf ==
  ASSUME NEW j, NEW d, Keyed(d), NEW v, NEW was, NEW c, Admits(j, v, c)
  PROVE  Fair(j, d, Joined(d, v, was, c))
<1>1. Fair(j, d, d)
  BY OnlyLess DEF Keyed
<1>2. Fair(j, d, [d EXCEPT !.students[v] = c])
  BY Joins
<1> QED
  BY <1>1, <1>2 DEF Joined

LEMMA Serves ==
  ASSUME NEW j, NEW d, Keyed(d), NEW t, NEW c \in d.classes, NEW role,
         role = "manager" => Appoints(j, t, c)
  PROVE  Fair(j, d, Appointed(d, t, c, role))
<1>1. PICK e : e = Appointed(d, t, c, role)
  OBVIOUS
<1>2. /\ DOMAIN e = Tables /\ e.students = d.students /\ e.binds = d.binds
      /\ e.offices = {o \in d.offices : <<o[1], o[2]>> # <<t, c>>} \cup {<<t, c, role>>}
      /\ e.users = d.users /\ e.classes = d.classes
      /\ e.home = d.home /\ e.opened = d.opened /\ e.groups = d.groups /\ e.rows = d.rows
  BY <1>1 DEF Appointed, Keyed, Tables
<1>3. \A o \in e.offices \ d.offices : o[1] = t /\ o[2] = c /\ o[3] = role
  BY <1>2
<1>4. Keyed(e)
  <2>1. \A o \in e.offices : o[2] \in e.classes
    BY <1>2 DEF Keyed
  <2> QED
    BY <1>2, <2>1 DEF Keyed
<1>5. \A o \in e.offices \ d.offices : o[3] = "manager" => Appoints(j, o[1], o[2])
  BY <1>3
<1>6. Fair(j, d, e)
  BY <1>2, <1>4, <1>5 DEF Fair
<1> QED
  BY <1>1, <1>6

-----------------------------------------------------------------------------
(* The shapes that a step of a command may have.                           *)

LEMMA Ends ==
  ASSUME NEW j, NEW d, End(j, d), Fair(j, db, d)
  PROVE  Advances(j) /\ Fair(j, db, db')
BY DEF Advances, End

LEMMA GoesOn ==
  ASSUME NEW j, NEW k, NEW d, Then(j, k, d), Fair(j, db, d), JobOK(k) \/ JobOK(Now(d, k))
  PROVE  Advances(j) /\ Fair(j, db, db')
<1>1. db' = d
  BY DEF Then
<1>2. JobOK(Now(d, k))
  BY NowKeeps
<1> QED
  BY <1>1, <1>2 DEF Advances

LEMMA Stays ==
  ASSUME NEW j, Keyed(db)
  PROVE  Fair(j, db, db)
BY OnlyLess DEF Keyed

\* A command that only goes on to another point.
LEMMA PassesTo ==
  ASSUME NEW j, JobOK(j), Keyed(db), NEW a, Pass(j, a),
         JobOK([j EXCEPT !.at = a]) \/ JobOK(Now(db, [j EXCEPT !.at = a]))
  PROVE  Advances(j) /\ Fair(j, db, db')
BY GoesOn, Stays DEF Pass

-----------------------------------------------------------------------------
(* Accounts and their bindings.                                            *)

LEMMA LoadOK ==
  ASSUME NEW j, JobOK(j), Keyed(db), Load(j)
  PROVE  Advances(j) /\ Fair(j, db, db')
<1>0. j.at = "load"
  BY DEF Load
<1>1. CASE FirstBind(db, j.who) # None
  <2>1. PICK u, k : /\ k = [j EXCEPT !.user = u, !.seen = Sight(db, u), !.at = "check"]
                    /\ Then(j, k, db)
    BY <1>1 DEF Load
  <2>2. PICK n : n = Now(db, k)
    OBVIOUS
  <2>3. /\ DOMAIN n = Fields /\ n.cmd = j.cmd /\ n.class = j.class /\ n.to = j.to /\ n.arg = j.arg
        /\ n.at = "check" /\ n.user = u /\ n.seen = Sight(db, u) /\ n.mode = j.mode
        /\ n.saw = j.saw /\ n.row = j.row /\ n.could = j.could \cup Entitled(db, k)
        /\ k.cmd = j.cmd /\ k.class = j.class /\ k.user = u
    <3>1. /\ DOMAIN k = Fields /\ k.cmd = j.cmd /\ k.class = j.class /\ k.to = j.to /\ k.arg = j.arg
          /\ k.at = "check" /\ k.user = u /\ k.seen = Sight(db, u) /\ k.mode = j.mode
          /\ k.saw = j.saw /\ k.row = j.row /\ k.could = j.could
      BY <2>1 DEF JobOK, Fields
    <3>2. n.could = k.could \cup Entitled(db, k) /\ DOMAIN n = Fields
          /\ \A f \in Fields \ {"could"} : n[f] = k[f]
      BY <2>2, <3>1, NowIs
    <3> QED
      BY <3>1, <3>2 DEF Fields
  <2>4. n.cmd \in {"approve", "import", "delete"} /\ n.class \in n.seen.teaches =>
          <<"teach", n.class>> \in n.could
    <3>1. n.seen.teaches = Teaches(db, u)
      BY <2>3 DEF Sight
    <3>2. k.cmd \in {"approve", "import", "delete"} /\ k.class \in Teaches(db, k.user) =>
            <<"teach", k.class>> \in Entitled(db, k)
      BY MayNow
    <3> QED
      BY <2>3, <3>1, <3>2
  <2>5. JobOK(n)
    BY <1>0, <2>3, <2>4 DEF JobOK, Teacher, Founder, Member, Binder, Mover
  <2> QED
    BY <2>1, <2>2, <2>5, GoesOn, Stays
<1>2. CASE FirstBind(db, j.who) = None /\ ~NeedsAccount(j)
  <2>1. Pass(j, "check")
    BY <1>2 DEF Load
  <2>2. JobOK([j EXCEPT !.at = "check"])
    BY <1>0 DEF JobOK, Fields, Teacher, Founder, Member, Binder, Mover
  <2> QED
    BY <2>1, <2>2, PassesTo
<1>3. CASE FirstBind(db, j.who) = None /\ NeedsAccount(j)
  <2>1. PICK u, k, d : /\ k = [j EXCEPT !.user = u, !.at = "select"]
                       /\ d = [db EXCEPT !.used = @ \cup {u}, !.users = @ \cup {u}]
                       /\ Then(j, k, d)
    BY <1>3 DEF Load
  <2>2. JobOK(k)
    BY <1>0, <1>3, <2>1 DEF NeedsAccount, JobOK, Fields, Teacher, Founder, Member, Binder, Mover
  <2>3. Fair(j, db, d)
    BY <2>1, OnlyLess DEF Keyed, Tables
  <2> QED
    BY <2>1, <2>2, <2>3, GoesOn
<1> QED
  BY <1>1, <1>2, <1>3

\* The end of a binding: the command is over, or goes on with its account.
LEMMA Returns ==
  ASSUME NEW j, JobOK(j), NEW d, Fair(j, db, d), Return(j, d)
  PROVE  Advances(j) /\ Fair(j, db, db')
<1>1. CASE j.cmd = "present"
  BY <1>1, Ends DEF Return
<1>2. CASE j.cmd # "present"
  <2>1. JobOK([j EXCEPT !.at = "check"])
    BY <1>2 DEF JobOK, Fields, Teacher, Founder, Member, Binder, Mover
  <2> QED
    BY <1>2, <2>1, GoesOn DEF Return
<1> QED
  BY <1>1, <1>2

LEMMA SelectBindOK ==
  ASSUME NEW j, JobOK(j), Keyed(db), SelectBind(j)
  PROVE  Advances(j) /\ Fair(j, db, db')
<1>1. CASE Return(j, db)
  BY <1>1, Returns, Stays
<1>2. CASE \E b : Then(j, [j EXCEPT !.saw = b, !.at = "put"], db)
  <2>1. PICK b : Then(j, [j EXCEPT !.saw = b, !.at = "put"], db)
    BY <1>2
  <2>2. JobOK([j EXCEPT !.saw = b, !.at = "put"])
    BY DEF SelectBind, JobOK, Fields, Teacher, Founder, Member, Binder, Mover
  <2> QED
    BY <2>1, <2>2, GoesOn, Stays
<1> QED
  BY <1>1, <1>2 DEF SelectBind

LEMMA PutBindOK ==
  ASSUME NEW j, JobOK(j), Keyed(db), PutBind(j)
  PROVE  Advances(j) /\ Fair(j, db, db')
<1>0. j.at = "put" /\ Proves(j, j.who, Target(j))
  BY DEF PutBind, Proves, Target, JobOK, Binder
<1>2. CASE j.saw = None
  <2>1. PICK d : d = [db EXCEPT !.binds = @ \cup {<<db.n, j.who, Target(j)>>}, !.n = @ + 1] /\ Return(j, d)
    BY <1>2 DEF PutBind
  <2>2. Fair(j, db, d)
    <3>1. /\ DOMAIN d = Tables /\ d.binds = db.binds \cup {<<db.n, j.who, Target(j)>>}
          /\ d.students = db.students /\ d.offices = db.offices /\ d.users = db.users
          /\ d.classes = db.classes /\ d.home = db.home /\ d.opened = db.opened
          /\ d.groups = db.groups /\ d.rows = db.rows
      BY <2>1 DEF Keyed, Tables
    <3>2. \A b \in d.binds \ db.binds : Proves(j, b[2], b[3])
      BY <1>0, <3>1
    <3> QED
      BY <3>1, <3>2 DEF Fair, Keyed
  <2> QED
    BY <2>1, <2>2, Returns
<1>3. CASE j.saw # None
  <2>1. PICK d : /\ d = [db EXCEPT !.binds = {IF b[2] = j.who THEN <<b[1], b[2], Target(j)>> ELSE b : b \in @}]
                 /\ Then(j, [j EXCEPT !.at = "rest"], d)
    BY <1>3 DEF PutBind
  <2>2. Fair(j, db, d)
    <3>1. /\ DOMAIN d = Tables
          /\ d.binds = {IF b[2] = j.who THEN <<b[1], b[2], Target(j)>> ELSE b : b \in db.binds}
          /\ d.students = db.students /\ d.offices = db.offices /\ d.users = db.users
          /\ d.classes = db.classes /\ d.home = db.home /\ d.opened = db.opened
          /\ d.groups = db.groups /\ d.rows = db.rows
      BY <2>1 DEF Keyed, Tables
    <3>2. \A b \in d.binds \ db.binds : b[2] = j.who /\ b[3] = Target(j)
      BY <3>1
    <3>3. \A b \in d.binds \ db.binds : Proves(j, b[2], b[3])
      BY <1>0, <3>2
    <3> QED
      BY <3>1, <3>3 DEF Fair, Keyed
  <2>3. JobOK([j EXCEPT !.at = "rest"])
    BY <1>0, <1>3 DEF JobOK, Fields, Teacher, Founder, Member, Binder, Mover
  <2> QED
    BY <2>1, <2>2, <2>3, GoesOn
<1> QED
  BY <1>2, <1>3

LEMMA RestOfBindsOK ==
  ASSUME NEW j, JobOK(j), Keyed(db), RestOfBinds(j)
  PROVE  Advances(j) /\ Fair(j, db, db')
<1>1. j.at = "rest" /\ j.saw # None
  BY DEF RestOfBinds, JobOK, Binder
<1>2. CASE Deserted(j)
  <2>1. PICK k : k = [j EXCEPT !.at = "orphan"] /\ Then(j, k, db)
    BY <1>2 DEF RestOfBinds, Pass
  <2>2. PICK n : n = Now(db, k)
    OBVIOUS
  <2>3. /\ DOMAIN n = Fields /\ n.cmd = j.cmd /\ n.class = j.class /\ n.to = j.to /\ n.arg = j.arg
        /\ n.at = "orphan" /\ n.seen = j.seen /\ n.mode = j.mode
        /\ n.saw = j.saw /\ n.row = j.row /\ n.could = j.could \cup Entitled(db, k) /\ k.saw = j.saw
    BY <2>1, <2>2, NowIs DEF JobOK, Fields
  <2>4. <<"deserted", j.saw[3]>> \in Entitled(db, k)
    BY <1>1, <1>2, <2>3, MayNow DEF Deserted
  <2>5. JobOK(n)
    BY <1>1, <2>3, <2>4 DEF JobOK, Teacher, Founder, Member, Binder, Mover
  <2> QED
    BY <2>1, <2>2, <2>5, GoesOn, Stays
<1>3. CASE ~Deserted(j)
  BY <1>3, Returns, Stays DEF RestOfBinds
<1> QED
  BY <1>2, <1>3

LEMMA DeleteOrphanOK ==
  ASSUME NEW j, JobOK(j), Keyed(db), DeleteOrphan(j)
  PROVE  Advances(j) /\ Fair(j, db, db')
<1>1. <<"deserted", j.saw[3]>> \in j.could
  BY DEF DeleteOrphan, JobOK, Binder
<1>2. Fair(j, db, WithoutUser(db, j.saw[3]))
  BY <1>1, AccountGoes
<1> QED
  BY <1>2, Returns DEF DeleteOrphan

-----------------------------------------------------------------------------
(* Binding tokens and leaving.                                             *)

\* n is the command j at its next point a, called k before what it may do by now
\* is remembered.
IsNow(n, d, j, k, a) ==
  /\ DOMAIN n = Fields /\ n.at = a
  /\ n.cmd = j.cmd /\ n.class = j.class /\ n.to = j.to /\ n.arg = j.arg
  /\ n.seen = j.seen /\ n.mode = j.mode /\ n.saw = j.saw /\ n.row = j.row
  /\ n.could = j.could \cup Entitled(d, k)
  /\ k.cmd = j.cmd /\ k.class = j.class /\ k.to = j.to /\ k.arg = j.arg /\ k.user = j.user
  /\ k.saw = j.saw /\ k.row = j.row

LEMMA AtNow ==
  ASSUME NEW d, NEW j, DOMAIN j = Fields, NEW a, NEW k, k = [j EXCEPT !.at = a], NEW n, n = Now(d, k)
  PROVE  IsNow(n, d, j, k, a)
<1>1. /\ DOMAIN k = Fields /\ k.at = a
      /\ k.cmd = j.cmd /\ k.class = j.class /\ k.to = j.to /\ k.arg = j.arg /\ k.user = j.user
      /\ k.seen = j.seen /\ k.mode = j.mode /\ k.saw = j.saw /\ k.row = j.row /\ k.could = j.could
  BY DEF Fields
<1>2. n.could = k.could \cup Entitled(d, k) /\ DOMAIN n = Fields
      /\ \A f \in Fields \ {"could"} : n[f] = k[f]
  <2>1. DOMAIN k = Fields
    BY <1>1
  <2>2. /\ DOMAIN Now(d, k) = Fields
        /\ \A f \in Fields \ {"could"} : Now(d, k)[f] = k[f]
        /\ Now(d, k).could = k.could \cup Entitled(d, k)
    BY ONLY <2>1, NowIs
  <2> QED
    BY <2>2
<1> QED
  BY <1>1, <1>2 DEF Fields, IsNow

LEMMA TokensOK ==
  ASSUME NEW j, JobOK(j), Keyed(db), IssueToken(j) \/ ReadToken(j) \/ SpendToken(j)
  PROVE  Advances(j) /\ Fair(j, db, db')
<1>1. CASE IssueToken(j)
  <2>1. PICK d : d = [db EXCEPT !.tokens = @ \cup {<<db.n, j.user>>}, !.n = @ + 1] /\ End(j, d)
    BY <1>1 DEF IssueToken
  <2>2. Fair(j, db, d)
    BY <2>1, OnlyLess DEF Keyed, Tables
  <2> QED
    BY <2>1, <2>2, Ends
<1>2. CASE ReadToken(j)
  <2>1. PICK k : k = [j EXCEPT !.at = "spend"] /\ Then(j, k, db)
    BY <1>2 DEF ReadToken, Pass
  <2>2. PICK n : n = Now(db, k)
    OBVIOUS
  <2>3. /\ DOMAIN n = Fields /\ n.at = "spend"
        /\ n.cmd = j.cmd /\ n.class = j.class /\ n.to = j.to /\ n.arg = j.arg
        /\ n.seen = j.seen /\ n.mode = j.mode /\ n.saw = j.saw /\ n.row = j.row
        /\ n.could = j.could \cup Entitled(db, k) /\ k.cmd = j.cmd /\ k.to = j.to /\ k.arg = j.arg
    <3>1. DOMAIN j = Fields
      BY DEF JobOK
    <3>2. IsNow(n, db, j, k, "spend")
      BY <2>1, <2>2, <3>1, AtNow
    <3> QED
      BY <3>2 DEF IsNow
  <2>4. <<"token", j.to>> \in n.could
    BY <1>2, <2>3, MayNow DEF ReadToken
  <2>5. JobOK(n)
    BY <1>2, <2>3, <2>4 DEF ReadToken, JobOK, Teacher, Founder, Member, Binder, Mover
  <2> QED
    BY <2>1, <2>2, <2>5, GoesOn, Stays
<1>3. CASE SpendToken(j)
  <2>1. PICK k, d, a : /\ k = [j EXCEPT !.at = a] /\ a \in {"proved", "confirm"}
                       /\ d = [db EXCEPT !.tokens = @ \ {j.arg}] /\ Then(j, k, d)
    BY <1>3 DEF SpendToken
  <2>2. Fair(j, db, d)
    BY <2>1, OnlyLess DEF Keyed, Tables
  <2>3. JobOK(k)
    BY <1>3, <2>1 DEF SpendToken, JobOK, Fields, Teacher, Founder, Member, Binder, Mover
  <2> QED
    BY <2>1, <2>2, <2>3, GoesOn
<1> QED
  BY <1>1, <1>2, <1>3

LEMMA ConfirmOK ==
  ASSUME NEW j, JobOK(j), Keyed(db), Confirm(j)
  PROVE  Advances(j) /\ Fair(j, db, db')
<1>1. PICK a : /\ Pass(j, a) /\ a = IF j.cmd = "present" THEN "proved" ELSE "write"
  BY DEF Confirm
<1>2. JobOK([j EXCEPT !.at = a])
  BY <1>1 DEF Confirm, JobOK, Fields, Teacher, Founder, Member, Binder, Mover
<1> QED
  BY <1>1, <1>2, PassesTo

LEMMA OldBindOK ==
  ASSUME NEW j, JobOK(j), Keyed(db), ReadOldBind(j) \/ DeleteOldBind(j)
  PROVE  Advances(j) /\ Fair(j, db, db')
<1>1. CASE ReadOldBind(j)
  <2>1. PICK b, a : /\ Then(j, [j EXCEPT !.saw = b, !.at = a], db) /\ a \in {"select", "unbind"}
    BY <1>1 DEF ReadOldBind
  <2>2. JobOK([j EXCEPT !.saw = b, !.at = a])
    BY <1>1, <2>1 DEF ReadOldBind, JobOK, Fields, Teacher, Founder, Member, Binder, Mover
  <2> QED
    BY <2>1, <2>2, GoesOn, Stays
<1>2. CASE DeleteOldBind(j)
  <2>1. PICK d : /\ d = [db EXCEPT !.binds = {b \in @ : b[1] # j.saw[1]}]
                 /\ Then(j, [j EXCEPT !.saw = None, !.at = "select"], d)
    BY <1>2 DEF DeleteOldBind
  <2>2. Fair(j, db, d)
    BY <2>1, OnlyLess DEF Keyed, Tables
  <2>3. JobOK([j EXCEPT !.saw = None, !.at = "select"])
    BY <1>2 DEF DeleteOldBind, JobOK, Fields, Teacher, Founder, Member, Binder, Mover
  <2> QED
    BY <2>1, <2>2, <2>3, GoesOn
<1> QED
  BY <1>1, <1>2

\* A student who leaves, a teacher who goes.
LEMMA StudentGoes ==
  ASSUME NEW j, Keyed(db), NEW v
  PROVE  Fair(j, db, [db EXCEPT !.students[v] = None])
<1>1. PICK d : d = [db EXCEPT !.students[v] = None]
  OBVIOUS
<1>2. /\ DOMAIN d = Tables /\ d.students = [db.students EXCEPT ![v] = None]
      /\ d.offices = db.offices /\ d.binds = db.binds /\ d.users = db.users /\ d.classes = db.classes
      /\ d.home = db.home /\ d.opened = db.opened /\ d.groups = db.groups /\ d.rows = db.rows
  BY <1>1 DEF Keyed, Tables
<1>3. DOMAIN d.students = Users /\ \A u \in Users : d.students[u] \in {None, db.students[u]}
  BY <1>2 DEF Keyed
<1> QED
  BY <1>1, <1>2, <1>3, OnlyLess

LEMMA TeacherGoes ==
  ASSUME NEW j, Keyed(db), NEW u
  PROVE  Fair(j, db, WithoutTeacher(db, u))
<1>1. PICK d : d = WithoutTeacher(db, u)
  OBVIOUS
<1>2. /\ DOMAIN d = Tables /\ d.students = db.students /\ d.offices \subseteq db.offices
      /\ d.binds = db.binds /\ d.users = db.users /\ d.classes = db.classes
      /\ d.home = db.home /\ d.opened = db.opened /\ d.groups = db.groups /\ d.rows = db.rows
  BY <1>1 DEF WithoutTeacher, Keyed, Tables
<1> QED
  BY <1>1, <1>2, OnlyLess DEF Keyed

LEMMA LogoutOK ==
  ASSUME NEW j, JobOK(j), Keyed(db), AskLogout(j) \/ Logout(j)
  PROVE  Advances(j) /\ Fair(j, db, db')
<1>1. CASE AskLogout(j)
  <2>1. JobOK([j EXCEPT !.at = "confirm"])
    BY <1>1 DEF AskLogout, JobOK, Fields, Teacher, Founder, Member, Binder, Mover
  <2> QED
    BY <1>1, <2>1, PassesTo DEF AskLogout
<1>2. CASE Logout(j)
  <2>1. j.cmd = "logout" /\ j.at = "write" /\ j.arg \in {"teacher", "student", "user"}
    BY <1>2 DEF Logout, JobOK, Binder
  <2>2. CASE j.arg = "teacher"
    BY <1>2, <2>2, TeacherGoes, Ends DEF Logout
  <2>3. CASE j.arg = "student"
    BY <1>2, <2>3, StudentGoes, Ends DEF Logout
  <2>4. CASE j.arg = "user"
    <3>1. End(j, WithoutUser(db, j.user))
      BY <1>2, <2>4 DEF Logout
    <3>2. Fair(j, db, WithoutUser(db, j.user))
      BY <2>1, <2>4, AccountGoes
    <3> QED
      BY <3>1, <3>2, Ends
  <2> QED
    BY <2>1, <2>2, <2>3, <2>4
<1> QED
  BY <1>1, <1>2

-----------------------------------------------------------------------------
(* Joining and leaving a class.                                            *)

LEMMA AskJoinOK ==
  ASSUME NEW j, JobOK(j), Keyed(db), AskJoin(j)
  PROVE  Advances(j) /\ Fair(j, db, db')
<1>1. PICK m, w, a, k : /\ m = db.mode[j.class] /\ k = [j EXCEPT !.mode = m, !.was = w, !.at = a]
                        /\ a \in {"write", "confirm"} /\ Then(j, k, db)
  BY DEF AskJoin
<1>2. /\ DOMAIN k = Fields /\ k.at = a /\ k.mode = m
      /\ k.cmd = j.cmd /\ k.class = j.class /\ k.to = j.to /\ k.arg = j.arg
      /\ k.seen = j.seen /\ k.saw = j.saw /\ k.row = j.row /\ k.could = j.could
  BY <1>1 DEF JobOK, Fields
<1>3. PICK n : n = Now(db, k)
  OBVIOUS
<1>4. /\ DOMAIN n = Fields /\ n.could = k.could \cup Entitled(db, k)
      /\ \A f \in Fields \ {"could"} : n[f] = k[f]
  BY <1>2, <1>3, NowIs
<1>5. /\ n.at = a /\ n.mode = m
      /\ n.cmd = j.cmd /\ n.class = j.class /\ n.to = j.to /\ n.arg = j.arg
      /\ n.seen = j.seen /\ n.saw = j.saw /\ n.row = j.row
  BY <1>2, <1>4 DEF Fields
<1>6. n.mode = "direct" => <<"open", j.class>> \in n.could
  <2>1. k.cmd = "join" /\ k.class \in db.classes /\ m = db.mode[k.class]
    BY <1>1, <1>2 DEF AskJoin
  <2>2. m = "direct" => <<"open", k.class>> \in Entitled(db, k)
    BY <2>1, MayNow
  <2> QED
    BY <1>2, <1>4, <1>5, <2>2
<1>7. JobOK(n)
  BY <1>1, <1>2, <1>4, <1>5, <1>6 DEF AskJoin, JobOK, Teacher, Founder, Member, Binder, Mover
<1> QED
  BY <1>1, <1>3, <1>7, GoesOn, Stays

LEMMA JoinOK ==
  ASSUME NEW j, JobOK(j), Keyed(db), Join(j)
  PROVE  Advances(j) /\ Fair(j, db, db')
<1>1. CASE j.mode = "direct" /\ End(j, Joined(db, j.user, j.was, j.class))
  <2>1. Admits(j, j.user, j.class)
    BY <1>1 DEF Join, JobOK, Member, Admits
  <2> QED
    BY <1>1, <2>1, JoinsIf, Ends
<1>2. CASE End(j, [db EXCEPT !.requests = @ \cup {<<db.n, j.user, j.class>>}, !.n = @ + 1])
  <2>1. PICK d : d = [db EXCEPT !.requests = @ \cup {<<db.n, j.user, j.class>>}, !.n = @ + 1]
    OBVIOUS
  <2>2. Fair(j, db, d)
    BY <2>1, OnlyLess DEF Keyed, Tables
  <2> QED
    BY <1>2, <2>1, <2>2, Ends
<1> QED
  BY <1>1, <1>2 DEF Join

LEMMA ExitOK ==
  ASSUME NEW j, JobOK(j), Keyed(db), AskExit(j) \/ Exit(j)
  PROVE  Advances(j) /\ Fair(j, db, db')
<1>1. CASE AskExit(j)
  <2>1. JobOK([j EXCEPT !.at = "confirm"])
    BY <1>1 DEF AskExit, JobOK, Fields, Teacher, Founder, Member, Binder, Mover
  <2> QED
    BY <1>1, <2>1, PassesTo DEF AskExit
<1>2. CASE Exit(j)
  BY <1>2, StudentGoes, Ends DEF Exit
<1> QED
  BY <1>1, <1>2

LEMMA ReadRequestOK ==
  ASSUME NEW j, JobOK(j), Keyed(db), ReadRequest(j)
  PROVE  Advances(j) /\ Fair(j, db, db')
<1>1. PICK w, a, k : /\ k = [j EXCEPT !.was = w, !.at = a] /\ Then(j, k, db)
                     /\ a \in {"drop", "write"} /\ (a = "write" => j.cmd = "approve")
  <2>1. PICK a : a = IF j.cmd = "reject" \/ db.students[j.to] = j.class THEN "drop" ELSE "write"
    OBVIOUS
  <2>2. Then(j, [j EXCEPT !.was = db.students[j.to], !.at = a], db)
    BY <2>1 DEF ReadRequest
  <2>3. a \in {"drop", "write"} /\ (a = "write" => j.cmd = "approve")
    BY <2>1 DEF ReadRequest
  <2> QED
    BY <2>2, <2>3
<1>2. /\ DOMAIN k = Fields /\ k.at = a /\ k.mode = j.mode
      /\ k.cmd = j.cmd /\ k.class = j.class /\ k.to = j.to /\ k.arg = j.arg
      /\ k.seen = j.seen /\ k.saw = j.saw /\ k.row = j.row /\ k.could = j.could
  BY <1>1 DEF JobOK, Fields
<1>3. PICK n : n = Now(db, k)
  OBVIOUS
<1>4. /\ DOMAIN n = Fields /\ n.could = k.could \cup Entitled(db, k)
      /\ \A f \in Fields \ {"could"} : n[f] = k[f]
  BY <1>2, <1>3, NowIs
<1>5. /\ n.at = a /\ n.mode = j.mode
      /\ n.cmd = j.cmd /\ n.class = j.class /\ n.to = j.to /\ n.arg = j.arg
      /\ n.seen = j.seen /\ n.saw = j.saw /\ n.row = j.row
  BY <1>2, <1>4 DEF Fields
<1>6. j.cmd = "approve" => <<"asked", j.to, j.class>> \in n.could
  <2>1. j.arg \in db.requests /\ j.arg[2] = j.to /\ j.arg[3] = j.class
    BY DEF ReadRequest, JobOK, Member
  <2>2. k.cmd = "approve" /\ j.arg[3] = k.class => <<"asked", j.arg[2], j.arg[3]>> \in Entitled(db, k)
    BY <2>1, MayNow
  <2> QED
    BY <1>2, <1>4, <2>1, <2>2
<1>7. j.cmd = "approve" => <<"teach", j.class>> \in n.could
  BY <1>2, <1>4 DEF ReadRequest, JobOK, Teacher
<1>8. JobOK(n)
  BY <1>1, <1>2, <1>4, <1>5, <1>6, <1>7 DEF ReadRequest, JobOK, Teacher, Founder, Member, Binder, Mover
<1> QED
  BY <1>1, <1>3, <1>8, GoesOn, Stays

LEMMA ReviewOK ==
  ASSUME NEW j, JobOK(j), Keyed(db), Approve(j) \/ DropRequest(j)
  PROVE  Advances(j) /\ Fair(j, db, db')
<1>1. CASE Approve(j)
  <2>1. Admits(j, j.to, j.class)
    BY <1>1 DEF Approve, JobOK, Member, Admits
  <2>2. JobOK([j EXCEPT !.at = "drop"])
    BY <1>1 DEF Approve, JobOK, Fields, Teacher, Founder, Member, Binder, Mover
  <2>3. Fair(j, db, Joined(db, j.to, j.was, j.class))
    BY <2>1, JoinsIf
  <2> QED
    BY <1>1, <2>2, <2>3, GoesOn DEF Approve
<1>2. CASE DropRequest(j)
  <2>1. PICK d : d = [db EXCEPT !.requests = @ \ {j.arg}] /\ End(j, d)
    BY <1>2 DEF DropRequest
  <2>2. Fair(j, db, d)
    BY <2>1, OnlyLess DEF Keyed, Tables
  <2> QED
    BY <2>1, <2>2, Ends
<1> QED
  BY <1>1, <1>2

\* To add a student or to appoint a teacher one must manage the class.
LEMMA Manages ==
  ASSUME NEW j, JobOK(j), Keyed(db), Pass(j, "write"), j.cmd \in {"add", "appoint"}, j.at = "check",
         j.class \in db.classes, CanManage(db, j.user, j.seen.teacher, j.class)
  PROVE  Advances(j) /\ Fair(j, db, db')
<1>1. PICK k : k = [j EXCEPT !.at = "write"] /\ Then(j, k, db)
  BY DEF Pass
<1>2. PICK n : n = Now(db, k)
  OBVIOUS
<1>3. /\ DOMAIN n = Fields /\ n.at = "write"
      /\ n.cmd = j.cmd /\ n.class = j.class /\ n.to = j.to /\ n.arg = j.arg
      /\ n.seen = j.seen /\ n.mode = j.mode /\ n.saw = j.saw /\ n.row = j.row
      /\ n.could = j.could \cup Entitled(db, k) /\ k.cmd = j.cmd /\ k.class = j.class /\ k.user = j.user
  <2>1. DOMAIN j = Fields
    BY DEF JobOK
  <2>2. IsNow(n, db, j, k, "write")
    BY <1>1, <1>2, <2>1, AtNow
  <2> QED
    BY <2>2 DEF IsNow
<1>4. <<"manage", j.class>> \in n.could
  <2>1. CanManage(db, k.user, TRUE, k.class)
    BY <1>3 DEF CanManage
  <2> QED
    BY <1>3, <2>1, MayNow
<1>5. JobOK(n)
  BY <1>3, <1>4 DEF JobOK, Teacher, Founder, Member, Binder, Mover
<1> QED
  BY <1>1, <1>2, <1>5, GoesOn, Stays

LEMMA AddOK ==
  ASSUME NEW j, JobOK(j), Keyed(db), AskAdd(j) \/ Add(j)
  PROVE  Advances(j) /\ Fair(j, db, db')
<1>1. CASE AskAdd(j)
  BY <1>1, Manages DEF AskAdd
<1>2. CASE Add(j)
  <2>1. Admits(j, j.to, j.class)
    BY <1>2 DEF Add, JobOK, Member, Admits
  <2> QED
    BY <1>2, <2>1, JoinsIf, Ends DEF Add
<1> QED
  BY <1>1, <1>2

LEMMA ExpelOK ==
  ASSUME NEW j, JobOK(j), Keyed(db), AskExpel(j) \/ Expel(j)
  PROVE  Advances(j) /\ Fair(j, db, db')
<1>1. CASE AskExpel(j)
  <2>1. JobOK([j EXCEPT !.at = "write"])
    BY <1>1 DEF AskExpel, JobOK, Fields, Teacher, Founder, Member, Binder, Mover
  <2> QED
    BY <1>1, <2>1, PassesTo DEF AskExpel
<1>2. CASE Expel(j)
  BY <1>2, StudentGoes, Ends DEF Expel
<1> QED
  BY <1>1, <1>2

-----------------------------------------------------------------------------
(* Classes and their teachers.                                             *)

LEMMA AppointOK ==
  ASSUME NEW j, JobOK(j), Keyed(db), AskAppoint(j) \/ Appoint(j)
  PROVE  Advances(j) /\ Fair(j, db, db')
<1>1. CASE AskAppoint(j)
  BY <1>1, Manages DEF AskAppoint
<1>2. CASE Appoint(j)
  <2>1. Appoints(j, j.to, j.class)
    BY <1>2 DEF Appoint, JobOK, Member, Appoints
  <2> QED
    BY <1>2, <2>1, Serves, Ends DEF Appoint
<1> QED
  BY <1>1, <1>2

LEMMA DismissOK ==
  ASSUME NEW j, JobOK(j), Keyed(db), AskDismiss(j) \/ Dismiss(j) \/ Fire(j)
  PROVE  Advances(j) /\ Fair(j, db, db')
<1>1. CASE AskDismiss(j)
  <2>1. JobOK([j EXCEPT !.at = "write"])
    BY <1>1 DEF AskDismiss, JobOK, Fields, Teacher, Founder, Member, Binder, Mover
  <2> QED
    BY <1>1, <2>1, PassesTo DEF AskDismiss
<1>2. CASE Dismiss(j)
  <2>1. PICK d : /\ d = [db EXCEPT !.offices = {o \in @ : <<o[1], o[2]>> # <<j.to, j.class>>}]
                 /\ End(j, d)
    BY <1>2 DEF Dismiss
  <2>2. Fair(j, db, d)
    BY <2>1, OnlyLess DEF Keyed, Tables
  <2> QED
    BY <2>1, <2>2, Ends
<1>3. CASE Fire(j)
  BY <1>3, TeacherGoes, Ends DEF Fire
<1> QED
  BY <1>1, <1>2, <1>3

LEMMA DeleteOK ==
  ASSUME NEW j, JobOK(j), Keyed(db), AskDelete(j) \/ Delete(j)
  PROVE  Advances(j) /\ Fair(j, db, db')
<1>1. CASE AskDelete(j)
  <2>1. PICK a : Pass(j, a) /\ a \in {"confirm", "write"}
    BY <1>1 DEF AskDelete
  <2>2. JobOK([j EXCEPT !.at = a])
    BY <1>1, <2>1 DEF AskDelete, JobOK, Fields, Teacher, Founder, Member, Binder, Mover
  <2> QED
    BY <2>1, <2>2, PassesTo
<1>2. CASE Delete(j) /\ j.class \in db.classes
  <2>1. <<"teach", j.class>> \in j.could /\ j.cmd = "delete"
    BY <1>2 DEF Delete, JobOK, Teacher
  <2>2. \A c \in db.classes : db.home[c] = db.home[j.class] => c = j.class
    BY <1>2 DEF Keyed
  <2>3. Fair(j, db, WithoutGroups(db, {db.home[j.class]}))
    BY <2>1, <2>2, GroupGoes
  <2> QED
    BY <1>2, <2>3, Ends DEF Delete
<1>3. CASE Delete(j) /\ j.class \notin db.classes
  BY <1>3, Stays, Ends DEF Delete
<1> QED
  BY <1>1, <1>2, <1>3

LEMMA SetJoinModeOK ==
  ASSUME NEW j, JobOK(j), Keyed(db), SetJoinMode(j)
  PROVE  Advances(j) /\ Fair(j, db, db')
<1>1. PICK d : d = [db EXCEPT !.mode[j.class] = j.arg] /\ End(j, d)
  BY DEF SetJoinMode
<1>2. Fair(j, db, d)
  BY <1>1, OnlyLess DEF Keyed, Tables
<1> QED
  BY <1>1, <1>2, Ends

LEMMA HireOK ==
  ASSUME NEW j, JobOK(j), Keyed(db), Hire(j)
  PROVE  Advances(j) /\ Fair(j, db, db')
<1>1. JobOK([j EXCEPT !.at = "class"])
  BY DEF Hire, JobOK, Fields, Teacher, Founder, Member, Binder, Mover
<1>2. CASE Pass(j, "class")
  BY <1>1, <1>2, PassesTo
<1>3. CASE Then(j, [j EXCEPT !.at = "class"], [db EXCEPT !.teachers = @ \cup {j.user}])
  <2>1. PICK d : d = [db EXCEPT !.teachers = @ \cup {j.user}]
    OBVIOUS
  <2>2. Fair(j, db, d)
    BY <2>1, OnlyLess DEF Keyed, Tables
  <2> QED
    BY <1>1, <1>3, <2>1, <2>2, GoesOn
<1> QED
  BY <1>2, <1>3 DEF Hire

LEMMA FindClassOK ==
  ASSUME NEW j, JobOK(j), Keyed(db), FindClass(j)
  PROVE  Advances(j) /\ Fair(j, db, db')
<1>0. j.at = "class" /\ j.class \in db.classes /\ DOMAIN j = Fields
  BY DEF FindClass, JobOK
<1>1. ASSUME NEW a \in {"row", "adopt"}, j.cmd = "import", Pass(j, a),
             a = "row" => j.class \in Teaches(db, j.user),
             a = "adopt" => OfficesIn(db, j.class) = {}
      PROVE  Advances(j) /\ Fair(j, db, db')
  <2>1. PICK k : k = [j EXCEPT !.at = a] /\ Then(j, k, db)
    BY <1>1 DEF Pass
  <2>2. PICK n : n = Now(db, k)
    OBVIOUS
  <2>3. /\ DOMAIN n = Fields /\ n.at = a
        /\ n.cmd = j.cmd /\ n.class = j.class /\ n.to = j.to /\ n.arg = j.arg
        /\ n.seen = j.seen /\ n.mode = j.mode /\ n.saw = j.saw /\ n.row = j.row
        /\ n.could = j.could \cup Entitled(db, k) /\ k.cmd = j.cmd /\ k.class = j.class /\ k.user = j.user
    <3>1. IsNow(n, db, j, k, a)
      BY <1>0, <2>1, <2>2, AtNow
    <3> QED
      BY <3>1 DEF IsNow
  <2>4. a = "row" => <<"teach", j.class>> \in n.could
    BY <1>1, <2>3, MayNow
  <2>5. a = "adopt" => <<"vacant", j.class>> \in n.could
    BY <1>0, <1>1, <2>3, MayNow
  <2>6. JobOK(n)
    BY <1>0, <1>1, <2>3, <2>4, <2>5 DEF JobOK, Teacher, Founder, Member, Binder, Mover
  <2> QED
    BY <2>1, <2>2, <2>6, GoesOn, Stays
<1>2. CASE j.cmd = "import"
  BY <1>1, <1>2 DEF FindClass
<1>3. CASE j.cmd = "create"
  <2>1. PICK k : /\ k = [j EXCEPT !.group = db.home[j.class], !.arg = "attach", !.at = "tie"]
                 /\ Then(j, k, db)
    BY <1>3 DEF FindClass
  <2>2. JobOK(k)
    BY <1>0, <1>3, <2>1 DEF JobOK, Fields, Teacher, Founder, Member, Binder, Mover
  <2> QED
    BY <2>1, <2>2, GoesOn, Stays
<1> QED
  BY <1>2, <1>3 DEF FindClass

LEMMA MakeGroupOK ==
  ASSUME NEW j, JobOK(j), Keyed(db), MakeGroup(j)
  PROVE  Advances(j) /\ Fair(j, db, db')
<1>0. j.cmd \in {"speak", "import", "create"} /\ j.user \in db.users
  BY DEF MakeGroup
<1>1. PICK g, a, k, d :
        /\ g = db.last + 1 /\ a = IF j.cmd = "import" THEN "found" ELSE "tie"
        /\ k = [j EXCEPT !.group = g, !.at = a] /\ Then(j, k, d)
        /\ d = [db EXCEPT !.last = g,
                          !.groups = [h \in DOMAIN @ \cup {g} |-> IF h = g THEN j.user ELSE @[h]]]
  BY DEF MakeGroup
<1>2. JobOK(k)
  BY <1>0, <1>1 DEF JobOK, Fields, Teacher, Founder, Member, Binder, Mover
<1>3. Fair(j, db, d)
  <2>1. /\ DOMAIN d = Tables
        /\ d.groups = [h \in DOMAIN db.groups \cup {g} |-> IF h = g THEN j.user ELSE db.groups[h]]
        /\ d.students = db.students /\ d.offices = db.offices /\ d.binds = db.binds /\ d.users = db.users
        /\ d.classes = db.classes /\ d.home = db.home /\ d.opened = db.opened /\ d.rows = db.rows
    BY <1>1 DEF Keyed, Tables
  <2>2. \A h \in DOMAIN d.groups : d.groups[h] \in d.users
    BY <1>0, <2>1 DEF Keyed
  <2> QED
    BY <2>1, <2>2 DEF Fair, Keyed
<1> QED
  BY <1>1, <1>2, <1>3, GoesOn

LEMMA TakeGroupOK ==
  ASSUME NEW j, JobOK(j), Keyed(db), TakeGroup(j)
  PROVE  Advances(j) /\ Fair(j, db, db')
<1>0. j.cmd = "create" /\ j.user \in db.users
  BY DEF TakeGroup
<1>1. PICK g, k, d : /\ k = [j EXCEPT !.group = g, !.at = "tie"] /\ Then(j, k, d)
                     /\ d = [db EXCEPT !.groups[g] = j.user]
  BY DEF TakeGroup
<1>2. JobOK(k)
  BY <1>0, <1>1 DEF JobOK, Fields, Teacher, Founder, Member, Binder, Mover
<1>3. Fair(j, db, d)
  <2>1. /\ DOMAIN d = Tables /\ d.groups = [db.groups EXCEPT ![g] = j.user]
        /\ d.students = db.students /\ d.offices = db.offices /\ d.binds = db.binds /\ d.users = db.users
        /\ d.classes = db.classes /\ d.home = db.home /\ d.opened = db.opened /\ d.rows = db.rows
    BY <1>1 DEF Keyed, Tables
  <2>2. \A h \in DOMAIN d.groups : d.groups[h] \in d.users
    BY <1>0, <2>1 DEF Keyed
  <2> QED
    BY <2>1, <2>2 DEF Fair, Keyed
<1> QED
  BY <1>1, <1>2, <1>3, GoesOn

\* The class is the only one of its group, and new: nobody holds an office in it.
LEMMA FoundOK ==
  ASSUME NEW j, JobOK(j), Keyed(db), Found(j)
  PROVE  Advances(j) /\ Fair(j, db, db')
<1>0. /\ j.at = "found" /\ j.cmd \in {"create", "import"} /\ j.class \in Classes
      /\ j.class \notin db.opened /\ j.class \notin db.classes /\ DOMAIN j = Fields
      /\ \A c \in db.classes : db.home[c] # j.group
  BY DEF Found, HasClass, JobOK, Founder, Keyed
<1>1. PICK k, d :
        /\ k = [j EXCEPT !.at = "adopt"] /\ Then(j, k, d)
        /\ d = [db EXCEPT !.opened = @ \cup {j.class}, !.classes = @ \cup {j.class},
                          !.home[j.class] = j.group]
  BY DEF Found
<1>2. /\ DOMAIN d = Tables /\ d.opened = db.opened \cup {j.class}
      /\ d.classes = db.classes \cup {j.class} /\ d.home = [db.home EXCEPT ![j.class] = j.group]
      /\ d.students = db.students /\ d.offices = db.offices /\ d.binds = db.binds /\ d.users = db.users
      /\ d.groups = db.groups /\ d.rows = db.rows
  BY <1>1 DEF Keyed, Tables
<1>3. Keyed(d)
  <2>1. \A c \in db.classes : c \in Classes /\ d.home[c] = db.home[c] /\ c # j.class
    BY <1>0, <1>2 DEF Keyed
  <2>2. d.home[j.class] = j.group /\ DOMAIN d.home = Classes
    BY <1>0, <1>2 DEF Keyed
  <2>3. \A c, e \in d.classes : d.home[c] = d.home[e] => c = e
    BY <1>0, <1>2, <2>1, <2>2 DEF Keyed
  <2> QED
    BY <1>0, <1>2, <2>2, <2>3 DEF Keyed
<1>4. Fair(j, db, d)
  BY <1>2, <1>3 DEF Fair
<1>5. PICK n : n = Now(d, k)
  OBVIOUS
<1>6. /\ DOMAIN n = Fields /\ n.at = "adopt"
      /\ n.cmd = j.cmd /\ n.class = j.class /\ n.to = j.to /\ n.arg = j.arg
      /\ n.seen = j.seen /\ n.mode = j.mode /\ n.saw = j.saw /\ n.row = j.row
      /\ n.could = j.could \cup Entitled(d, k) /\ k.cmd = j.cmd /\ k.class = j.class
  <2>1. DOMAIN j = Fields
    BY <1>0, <1>1, <1>5
  <2>2. k = [j EXCEPT !.at = "adopt"]
    BY <1>0, <1>1, <1>5
  <2>3. n = Now(d, k)
    BY <1>0, <1>1, <1>5
  <2>4. IsNow(n, d, j, k, "adopt")
    BY <2>1, <2>2, <2>3, AtNow
  <2> QED
    BY <2>4 DEF IsNow
<1>7. <<"vacant", j.class>> \in n.could
  <2>1. \A o \in db.offices : o[2] # j.class
    BY <1>0 DEF Keyed
  <2>2. OfficesIn(d, k.class) = {}
    BY <1>2, <1>6, <2>1 DEF OfficesIn
  <2> QED
    BY <1>0, <1>2, <1>6, <2>2, MayNow
<1>8. JobOK(n)
  BY <1>0, <1>6, <1>7 DEF JobOK, Teacher, Founder, Member, Binder, Mover
<1> QED
  BY <1>1, <1>4, <1>5, <1>8, GoesOn

LEMMA AdoptOK ==
  ASSUME NEW j, JobOK(j), Keyed(db), Adopt(j)
  PROVE  Advances(j) /\ Fair(j, db, db')
<1>0. /\ j.at = "adopt" /\ j.cmd \in {"create", "import"} /\ <<"vacant", j.class>> \in j.could
      /\ j.class \in db.classes /\ DOMAIN j = Fields
  BY DEF Adopt, JobOK, Founder
<1>1. PICK k, d :
        /\ k = [j EXCEPT !.at = "role"] /\ Then(j, k, d)
        /\ d = IF j.class \in Teaches(db, j.user) THEN db ELSE Appointed(db, j.user, j.class, "teacher")
  BY DEF Adopt
<1>2. Fair(j, db, d)
  <2>1. Fair(j, db, Appointed(db, j.user, j.class, "teacher"))
    BY <1>0, Serves
  <2> QED
    BY <1>1, <2>1, Stays
<1>3. j.class \in Teaches(d, j.user)
  <2>1. CASE j.class \in Teaches(db, j.user)
    BY <1>1, <2>1
  <2>2. CASE d = Appointed(db, j.user, j.class, "teacher")
    <3>1. <<j.user, j.class, "teacher">> \in d.offices /\ d.classes = db.classes
      BY <2>2 DEF Appointed, Keyed, Tables
    <3> QED
      BY <1>0, <3>1 DEF Teaches
  <2> QED
    BY <1>1, <2>1, <2>2
<1>4. PICK n : n = Now(d, k)
  OBVIOUS
<1>5. /\ DOMAIN n = Fields /\ n.at = "role"
      /\ n.cmd = j.cmd /\ n.class = j.class /\ n.to = j.to /\ n.arg = j.arg
      /\ n.seen = j.seen /\ n.mode = j.mode /\ n.saw = j.saw /\ n.row = j.row
      /\ n.could = j.could \cup Entitled(d, k) /\ k.cmd = j.cmd /\ k.class = j.class /\ k.user = j.user
  <2>1. DOMAIN j = Fields
    BY <1>0, <1>1, <1>4
  <2>2. k = [j EXCEPT !.at = "role"]
    BY <1>0, <1>1, <1>4
  <2>3. n = Now(d, k)
    BY <1>0, <1>1, <1>4
  <2>4. IsNow(n, d, j, k, "role")
    BY <2>1, <2>2, <2>3, AtNow
  <2> QED
    BY <2>4 DEF IsNow
<1>6. n.cmd = "import" => <<"teach", j.class>> \in n.could
  BY <1>3, <1>5, MayNow
<1>7. JobOK(n)
  BY <1>0, <1>5, <1>6 DEF JobOK, Teacher, Founder, Member, Binder, Mover
<1> QED
  BY <1>1, <1>2, <1>4, <1>7, GoesOn

LEMMA TakeRoleOK ==
  ASSUME NEW j, JobOK(j), Keyed(db), TakeRole(j)
  PROVE  Advances(j) /\ Fair(j, db, db')
<1>0. j.at = "role" /\ Appoints(j, j.user, j.class) /\ j.cmd \in {"create", "import"}
  BY DEF TakeRole, JobOK, Founder, Appoints
<1>1. PICK d : /\ d = IF j.class \in Teaches(db, j.user)
                     THEN Appointed(db, j.user, j.class, "manager") ELSE db
               /\ IF j.cmd = "create" THEN End(j, d) ELSE Then(j, [j EXCEPT !.at = "row"], d)
  BY DEF TakeRole
<1>2. Fair(j, db, d)
  <2>1. j.class \in Teaches(db, j.user) => j.class \in db.classes
    BY DEF Teaches
  <2> QED
    BY <1>0, <1>1, <2>1, Serves, Stays
<1>3. CASE j.cmd = "create"
  BY <1>1, <1>2, <1>3, Ends
<1>4. CASE j.cmd = "import"
  <2>1. JobOK([j EXCEPT !.at = "row"])
    BY <1>0, <1>4 DEF JobOK, Fields, Teacher, Founder, Member, Binder, Mover
  <2> QED
    BY <1>1, <1>2, <1>4, <2>1, GoesOn
<1> QED
  BY <1>0, <1>3, <1>4

LEMMA ImportOK ==
  ASSUME NEW j, JobOK(j), Keyed(db), ImportRow(j) \/ ImportNew(j)
  PROVE  Advances(j) /\ Fair(j, db, db')
<1>0. j.cmd = "import" /\ \A v : Admits(j, v, j.class)
  BY DEF ImportRow, ImportNew, JobOK, Teacher, Admits
<1>1. CASE ImportRow(j) /\ db.students[j.to] # None
  <2>1. PICK d : d = [db EXCEPT !.students[j.to] = j.class] /\ End(j, d)
    BY <1>1 DEF ImportRow
  <2>2. Fair(j, db, d)
    BY <1>0, <2>1, Joins
  <2> QED
    BY <2>1, <2>2, Ends
<1>2. CASE ImportRow(j) /\ db.students[j.to] = None
  <2>1. PICK u, k, d : /\ k = [j EXCEPT !.to = u, !.at = "new"] /\ Then(j, k, d)
                       /\ d = [db EXCEPT !.used = @ \cup {u}, !.users = @ \cup {u}]
    BY <1>2 DEF ImportRow
  <2>2. JobOK(k)
    BY <1>0, <1>2, <2>1 DEF ImportRow, JobOK, Fields, Teacher, Founder, Member, Binder, Mover
  <2>3. Fair(j, db, d)
    BY <2>1, OnlyLess DEF Keyed, Tables
  <2> QED
    BY <2>1, <2>2, <2>3, GoesOn
<1>3. CASE ImportNew(j)
  BY <1>0, <1>3, JoinsIf, Ends DEF ImportNew
<1> QED
  BY <1>1, <1>2, <1>3

-----------------------------------------------------------------------------
(* Groups and their channels.                                              *)

LEMMA ListenOK ==
  ASSUME NEW j, JobOK(j), Keyed(db), Listen(j)
  PROVE  Advances(j) /\ Fair(j, db, db')
<1>1. CASE Pass(j, "load")
  <2>1. JobOK([j EXCEPT !.at = "load"])
    BY DEF Listen, JobOK, Fields, Teacher, Founder, Member, Binder, Mover
  <2> QED
    BY <1>1, <2>1, PassesTo
<1>2. CASE End(j, db)
  BY <1>2, Stays, Ends
<1> QED
  BY <1>1, <1>2 DEF Listen

\* The end of bind_group: the command is over, or founds its class.
LEMMA Ties ==
  ASSUME NEW j, JobOK(j), j.at \in {"tie", "hang", "moved", "clear"}, NEW d, Fair(j, db, d), Tied(j, d)
  PROVE  Advances(j) /\ Fair(j, db, db')
<1>1. CASE End(j, d)
  BY <1>1, Ends
<1>2. CASE j.cmd # "speak" /\ Then(j, [j EXCEPT !.at = "found"], d)
  <2>1. JobOK([j EXCEPT !.at = "found"])
    BY <1>2 DEF JobOK, Fields, Teacher, Founder, Member, Binder, Mover
  <2> QED
    BY <1>2, <2>1, GoesOn
<1> QED
  BY <1>1, <1>2 DEF Tied

LEMMA SelectRowOK ==
  ASSUME NEW j, JobOK(j), Keyed(db), SelectRow(j)
  PROVE  Advances(j) /\ Fair(j, db, db')
<1>0. j.at = "tie" /\ DOMAIN j = Fields /\ j.cmd \in {"create", "speak"}
  BY DEF SelectRow, JobOK, Founder
<1>1. PICK r : r = FirstRow(db, j.to)
  OBVIOUS
<1>2. CASE r = None
  <2>1. Pass(j, "hang")
    BY <1>1, <1>2 DEF SelectRow
  <2>2. JobOK([j EXCEPT !.at = "hang"])
    BY <1>0 DEF JobOK, Fields, Teacher, Founder, Member, Binder, Mover
  <2> QED
    BY <2>1, <2>2, PassesTo
<1>3. CASE r # None /\ r[3] = j.group
  <2>1. Tied(j, db)
    BY <1>1, <1>3 DEF SelectRow
  <2> QED
    BY <1>0, <2>1, Ties, Stays
<1>4. CASE r # None /\ r[3] # j.group
  <2>1. PICK k : k = [j EXCEPT !.row = r, !.at = "move"] /\ Then(j, k, db) /\ Movable(r[3])
    BY <1>1, <1>4 DEF SelectRow
  <2>2. /\ DOMAIN k = Fields /\ k.at = "move" /\ k.row = r
        /\ k.cmd = j.cmd /\ k.class = j.class /\ k.to = j.to /\ k.arg = j.arg
        /\ k.seen = j.seen /\ k.mode = j.mode /\ k.saw = j.saw /\ k.could = j.could
    BY <1>0, <2>1 DEF Fields
  <2>3. PICK n : n = Now(db, k)
    OBVIOUS
  <2>4. /\ DOMAIN n = Fields /\ n.could = k.could \cup Entitled(db, k)
        /\ \A f \in Fields \ {"could"} : n[f] = k[f]
    BY <2>2, <2>3, NowIs
  <2>5. /\ n.at = "move" /\ n.row = r
        /\ n.cmd = j.cmd /\ n.class = j.class /\ n.to = j.to /\ n.arg = j.arg
        /\ n.seen = j.seen /\ n.mode = j.mode /\ n.saw = j.saw
    BY <2>2, <2>4 DEF Fields
  <2>6. <<"free", r[3]>> \in n.could
    BY <1>4, <2>1, <2>2, <2>4, MayNow DEF Movable
  <2>7. JobOK(n)
    BY <1>0, <1>4, <2>2, <2>4, <2>5, <2>6 DEF JobOK, Teacher, Founder, Member, Binder, Mover
  <2> QED
    BY <2>1, <2>3, <2>7, GoesOn, Stays
<1> QED
  BY <1>2, <1>3, <1>4

LEMMA HangChannelOK ==
  ASSUME NEW j, JobOK(j), Keyed(db), HangChannel(j)
  PROVE  Advances(j) /\ Fair(j, db, db')
<1>1. PICK d : d = [db EXCEPT !.rows = @ \cup {<<db.n, j.to, j.group>>}, !.n = @ + 1] /\ Tied(j, d)
  BY DEF HangChannel
<1>2. Fair(j, db, d)
  BY <1>1, OnlyLess DEF Keyed, Tables
<1> QED
  BY <1>1, <1>2, Ties DEF HangChannel

LEMMA MoveChannelOK ==
  ASSUME NEW j, JobOK(j), Keyed(db), MoveChannel(j)
  PROVE  Advances(j) /\ Fair(j, db, db')
<1>0. j.at = "move" /\ <<"free", j.row[3]>> \in j.could
  BY DEF MoveChannel, JobOK, Mover
<1>1. PICK d : /\ Then(j, [j EXCEPT !.at = "moved"], d)
               /\ d = [db EXCEPT !.rows =
                         {IF r[1] = j.row[1] THEN <<r[1], r[2], j.group>> ELSE r : r \in @}]
  BY DEF MoveChannel
<1>2. /\ DOMAIN d = Tables
      /\ d.rows = {IF r[1] = j.row[1] THEN <<r[1], r[2], j.group>> ELSE r : r \in db.rows}
      /\ d.students = db.students /\ d.offices = db.offices /\ d.binds = db.binds /\ d.users = db.users
      /\ d.classes = db.classes /\ d.home = db.home /\ d.opened = db.opened /\ d.groups = db.groups
  BY <1>1 DEF Keyed, Tables
<1>3. \A r \in db.rows \ d.rows : j.row[1] = r[1]
  BY <1>2
<1>4. Fair(j, db, d)
  BY <1>0, <1>2, <1>3 DEF Fair, Keyed
<1>5. JobOK([j EXCEPT !.at = "moved"])
  BY <1>0 DEF JobOK, Fields, Teacher, Founder, Member, Binder, Mover
<1> QED
  BY <1>1, <1>4, <1>5, GoesOn

LEMMA LookBackOK ==
  ASSUME NEW j, JobOK(j), Keyed(db), LookBack(j)
  PROVE  Advances(j) /\ Fair(j, db, db')
<1>0. j.at = "moved" /\ DOMAIN j = Fields /\ j.row # None
  BY DEF LookBack, JobOK, Mover
<1>1. CASE Tied(j, db)
  BY <1>0, <1>1, Ties, Stays
<1>2. CASE ~Hung(db, j.row[3]) /\ Pass(j, "clear")
  <2>1. PICK k : k = [j EXCEPT !.at = "clear"] /\ Then(j, k, db)
    BY <1>2 DEF Pass
  <2>2. PICK n : n = Now(db, k)
    OBVIOUS
  <2>3. /\ DOMAIN n = Fields /\ n.at = "clear"
        /\ n.cmd = j.cmd /\ n.class = j.class /\ n.to = j.to /\ n.arg = j.arg
        /\ n.seen = j.seen /\ n.mode = j.mode /\ n.saw = j.saw /\ n.row = j.row
        /\ n.could = j.could \cup Entitled(db, k) /\ k.row = j.row
    <3>1. DOMAIN j = Fields
      BY <1>0, <2>1, <2>2
    <3>2. k = [j EXCEPT !.at = "clear"]
      BY <1>0, <2>1, <2>2
    <3>3. n = Now(db, k)
      BY <1>0, <2>1, <2>2
    <3>4. IsNow(n, db, j, k, "clear")
      BY <3>1, <3>2, <3>3, AtNow
    <3> QED
      BY <3>4 DEF IsNow
  <2>4. <<"unhung", j.row[3]>> \in n.could
    BY <1>0, <1>2, <2>3, MayNow
  <2>5. JobOK(n)
    BY <1>0, <2>3, <2>4 DEF JobOK, Teacher, Founder, Member, Binder, Mover
  <2> QED
    BY <2>1, <2>2, <2>5, GoesOn, Stays
<1> QED
  BY <1>1, <1>2 DEF LookBack

LEMMA DropGroupOK ==
  ASSUME NEW j, JobOK(j), Keyed(db), DropGroup(j)
  PROVE  Advances(j) /\ Fair(j, db, db')
<1>1. {<<"free", j.row[3]>>, <<"unhung", j.row[3]>>} \subseteq j.could /\ j.at = "clear"
  BY DEF DropGroup, JobOK, Mover
<1>2. Fair(j, db, WithoutGroups(db, {j.row[3]}))
  BY <1>1, GroupGoes
<1> QED
  BY <1>1, <1>2, Ties DEF DropGroup

-----------------------------------------------------------------------------
(* The whole system.                                                       *)

\* A command that was just given.
LEMMA GivenOK ==
  ASSUME NEW p, NEW cmd, NEW c, NEW to, NEW arg,
         cmd \in {"create", "import"} => c \in Classes,
         cmd \in {"approve", "reject"} => arg[2] = to /\ arg[3] = c,
         cmd = "logout" => arg \in {"teacher", "student", "user"}
  PROVE  JobOK(Job(p, cmd, c, to, arg))
<1>1. PICK j : j = Job(p, cmd, c, to, arg)
  OBVIOUS
<1>2. /\ DOMAIN j = Fields /\ j.cmd = cmd /\ j.class = c /\ j.to = to /\ j.arg = arg
      /\ j.at \in {"listen", "load"} /\ j.seen = NoSight
  BY <1>1 DEF Job, Fields
<1>3. j.cmd = "speak" \/ j.at = "load"
  BY <1>1 DEF Job
<1>4. j.seen.teaches = {}
  BY <1>2 DEF NoSight
<1>5. JobOK(j)
  BY <1>2, <1>3, <1>4 DEF JobOK, Teacher, Founder, Member, Binder, Mover
<1> QED
  BY <1>1, <1>5

LEMMA ReceiveOK ==
  ASSUME IInv, NEW p, NEW j \in Commands(p), Receive(j)
  PROVE  IInv' /\ db' = db
<1>1. JobOK(j)
  <2>1. CASE j \in {Job(p, "create", c, ch, None) : c \in Classes, ch \in Channels}
                     \cup {Job(p, "import", c, v, None) : c \in Classes, v \in db.users}
    BY <2>1, GivenOK
  <2>2. CASE j \in {Job(p, cmd, r[3], r[2], r) : cmd \in {"approve", "reject"}, r \in db.requests}
    BY <2>2, GivenOK
  <2>3. CASE j \in {Job(p, "logout", None, None, role) : role \in {"teacher", "student", "user"}}
    BY <2>3, GivenOK
  <2>4. CASE \E cmd, c, to, arg : /\ j = Job(p, cmd, c, to, arg)
                                 /\ cmd \notin {"create", "import", "approve", "reject", "logout"}
    BY <2>4, GivenOK
  <2>5. \/ j \in {Job(p, "token", None, None, None), Job(p, "exit", None, None, None)}
        \/ j \in {Job(p, "present", None, t[2], t) : t \in db.tokens}
        \/ j \in {Job(p, "speak", None, ch, None) : ch \in Channels}
        \/ j \in {Job(p, cmd, c, None, None) : cmd \in {"join", "delete"}, c \in db.classes}
        \/ j \in {Job(p, cmd, c, v, None) : cmd \in {"add", "dismiss"}, c \in db.classes, v \in db.users}
        \/ j \in {Job(p, cmd, None, v, None) : cmd \in {"expel", "fire"}, v \in db.users}
        \/ j \in {Job(p, "appoint", c, v, role) :
                    c \in db.classes, v \in db.users, role \in {"teacher", "manager"}}
        \/ j \in {Job(p, "mode", c, None, m) : c \in db.classes, m \in Modes}
        => \E cmd, c, to, arg : /\ j = Job(p, cmd, c, to, arg)
                                /\ cmd \notin {"create", "import", "approve", "reject", "logout"}
    OBVIOUS
  <2> QED
    BY <2>1, <2>2, <2>3, <2>4, <2>5 DEF Commands
<1> QED
  BY <1>1 DEF IInv, Receive

LEMMA ExpireOK ==
  ASSUME IInv, NEW t, ExpireToken(t)
  PROVE  /\ IInv' /\ db'.students = db.students /\ db'.offices = db.offices /\ db'.binds = db.binds
         /\ db'.users = db.users /\ db'.classes = db.classes /\ db'.rows = db.rows
<1>1. /\ DOMAIN db' = Tables /\ db'.students = db.students /\ db'.offices = db.offices
      /\ db'.binds = db.binds /\ db'.users = db.users /\ db'.classes = db.classes
      /\ db'.home = db.home /\ db'.opened = db.opened /\ db'.groups = db.groups /\ db'.rows = db.rows
  BY DEF ExpireToken, IInv, Keyed, Tables
<1>2. Keyed(db')
  BY <1>1 DEF IInv, Keyed
<1>3. jobs' = {Now(db', i) : i \in jobs}
  BY DEF ExpireToken, Remember, Now
<1> QED
  BY <1>1, <1>2, <1>3, NowKeeps DEF IInv

LEMMA CommandOK ==
  ASSUME NEW j, JobOK(j), Keyed(db),
         Bind(j) \/ Confirm(j) \/ Leave(j) \/ Enrol(j) \/ Manage(j) \/ Settle(j)
  PROVE  Advances(j) /\ Fair(j, db, db')
<1>1. CASE Bind(j)
  BY <1>1, LoadOK, SelectBindOK, PutBindOK, RestOfBindsOK, DeleteOrphanOK DEF Bind
<1>2. CASE Confirm(j)
  BY <1>2, ConfirmOK
<1>3. CASE Leave(j)
  BY <1>3, TokensOK, OldBindOK, LogoutOK DEF Leave
<1>4. CASE Enrol(j)
  BY <1>4, AskJoinOK, JoinOK, ExitOK, ReadRequestOK, ReviewOK, AddOK, ExpelOK DEF Enrol
<1>5. CASE Manage(j)
  BY <1>5, AppointOK, DismissOK, DeleteOK, SetJoinModeOK, HireOK, FindClassOK, FoundOK, AdoptOK,
     TakeRoleOK, ImportOK DEF Manage
<1>6. CASE Settle(j)
  BY <1>6, ListenOK, MakeGroupOK, TakeGroupOK, SelectRowOK, HangChannelOK, MoveChannelOK,
     LookBackOK, DropGroupOK DEF Settle
<1> QED
  BY <1>1, <1>2, <1>3, <1>4, <1>5, <1>6

\* What a step does with the tables, as the three properties want it.
LEMMA FairMeans ==
  ASSUME NEW j \in jobs, Fair(j, db, db')
  PROVE  EntitledStep /\ AccountsStep /\ ClassesStep
<1>1. EntitledStep
  BY DEF Fair, EntitledStep
<1>2. AccountsStep
  BY DEF Fair, AccountsStep
<1>3. ClassesStep
  BY DEF Fair, ClassesStep
<1> QED
  BY <1>1, <1>2, <1>3

LEMMA NothingGone ==
  ASSUME db'.students = db.students, db'.offices = db.offices, db'.binds = db.binds,
         db'.users = db.users, db'.classes = db.classes, db'.rows = db.rows
  PROVE  EntitledStep /\ AccountsStep /\ ClassesStep
BY DEF EntitledStep, AccountsStep, ClassesStep

LEMMA CampusNext ==
  ASSUME IInv, [Next]_vars
  PROVE  IInv' /\ [EntitledStep /\ AccountsStep /\ ClassesStep]_vars
<1>1. CASE \E p \in Persons : \E j \in Commands(p) : Receive(j)
  BY <1>1, ReceiveOK, NothingGone
<1>2. CASE \E j \in jobs : Bind(j) \/ Confirm(j) \/ Leave(j) \/ Enrol(j) \/ Manage(j) \/ Settle(j)
  <2>1. PICK j \in jobs : Bind(j) \/ Confirm(j) \/ Leave(j) \/ Enrol(j) \/ Manage(j) \/ Settle(j)
    BY <1>2
  <2>2. JobOK(j) /\ Keyed(db)
    BY DEF IInv
  <2>3. Advances(j) /\ Fair(j, db, db')
    BY <2>1, <2>2, CommandOK
  <2>4. \A i \in jobs' : JobOK(i)
    BY <2>3, AllAdvance
  <2>5. Keyed(db')
    BY <2>3 DEF Fair
  <2> QED
    BY <2>3, <2>4, <2>5, FairMeans DEF IInv
<1>3. CASE \E t \in db.tokens : ExpireToken(t)
  BY <1>3, ExpireOK, NothingGone
<1>4. CASE UNCHANGED vars
  BY <1>4 DEF vars, IInv
<1> QED
  BY <1>1, <1>2, <1>3, <1>4 DEF Next

\* The tables keep their promises, and of every command under way it is known that
\* what it decided was true when it decided it.
THEOREM CommandsAreSound == Spec => []IInv
<1>1. Init => IInv
  BY StartAssumption DEF Init, IInv
<1>2. IInv /\ [Next]_vars => IInv'
  BY CampusNext
<1> QED
  BY <1>1, <1>2, PTL DEF Spec

\* For any persons, accounts, classes and channels, any number of commands and every
\* order of their steps: nobody becomes a student or a manager of a class, and no
\* person is bound to an account, but by a command whose caller was entitled to it at
\* some time since it was given.
THEOREM NobodySlipsIn == Spec => EntitledOnly
<1>1. IInv /\ [Next]_vars => [EntitledStep]_vars
  BY CampusNext
<1> QED
  BY <1>1, CommandsAreSound, PTL DEF Spec, EntitledOnly

\* An account goes only by its owner's logout, or when it had no binding left.
THEOREM AccountsStay == Spec => AccountsAreKept
<1>1. IInv /\ [Next]_vars => [AccountsStep]_vars
  BY CampusNext
<1> QED
  BY <1>1, CommandsAreSound, PTL DEF Spec, AccountsAreKept

\* A class goes only by the command of one who taught it, with its creator's account,
\* or with a group that was judged free; a channel leaves a group only with it, or by
\* a move decided when it led to a group without a class.
THEOREM ClassesStay == Spec => ClassesAreKept
<1>1. IInv /\ [Next]_vars => [ClassesStep]_vars
  BY CampusNext
<1> QED
  BY <1>1, CommandsAreSound, PTL DEF Spec, ClassesAreKept

=============================================================================
