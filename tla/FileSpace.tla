------------------------------ MODULE FileSpace ------------------------------
(***************************************************************************)
(* File spaces (core/storage/files.py), the virtual workspace the file      *)
(* commands work in (plugins/.../file_manager), the file pages of the       *)
(* management interface (interfaces/http/managers/storage/files.py), and    *)
(* what the deletion of an account or of a class does to them.              *)
(*                                                                         *)
(* Every user, group, class, college and school owns a directory tree.  A   *)
(* command of a user reads, with awaits, who the user is and which trees    *)
(* may be read or written (the mounts), and then works on the disk without  *)
(* an await; in between other commands, a change of role, a deletion or an  *)
(* administrator may come.  A session is one chat a user writes commands    *)
(* in; all of a user's sessions share one current directory.                *)
(*                                                                         *)
(* A file is its content.  An upload whose name is taken is stored under a  *)
(* numbered copy of the name, <<name, n>>.  A path that is read drops white  *)
(* space at its ends and a ~ in front, and a virtual path is read a second   *)
(* time, within its space: Leading and Trailing are the names that change    *)
(* when they stand first or last in it.  Names that would change again, or    *)
(* to nothing or to .., are left out.  The cwd.json of the physical layer is *)
(* left out: only FileSpace.cd sets it, which nothing in src/ calls, so the  *)
(* physical layer always resolves from its home.                             *)
(***************************************************************************)
EXTENDS Naturals, Sequences, FiniteSets, SequencesExt

CONSTANTS
  Users, Groups, Classes, Orgs,  \* the owners; Orgs: colleges and schools
  GroupOf, OrgsOf,               \* the group of a class, its college and school
  CategoryOf,                    \* the virtual directory an owner is mounted in
  DefaultDirs,                   \* documents, videos, images, audio
  Leading, Trailing,             \* name -> the name it is read as, when first or last
  Sessions, UserOf, ChannelOf,   \* who writes in a session; the group it is in
  InitialTrees, InitialCwds, InitialFacts,
  Commands, AdminRequests,       \* the inputs
  ChangingFacts, Mortal,         \* facts that come and go; users, groups, classes that may be deleted
  MaxCommands, MaxChanges,       \* bounds: commands; changes by anyone else
  Dir, Empty, Up, None           \* a directory; an empty file; the segment ..; nothing

Shared == Groups \cup Classes \cup Orgs
Spaces == Users \cup Shared
Reserved == {CategoryOf[s] : s \in Shared}

VARIABLES
  tree,     \* per owner: the paths that exist, each a directory or a content
  cwd,      \* file_manager_cwd.json of each user, None if there is none
  rows,     \* owners the database knows
  doomed,   \* owners whose row is gone and whose space is about to be removed
  facts,    \* who is what, according to the database
  job,      \* the command of each session
  reply,    \* what a command was told by the step just taken
  commands, changes  \* history: how many of each so far

disk == <<tree, cwd>>
vars == <<disk, rows, doomed, facts, job, reply, commands, changes>>

-----------------------------------------------------------------------------
(* The physical space.                                                       *)

Fresh == [p \in {<<>>} \cup {<<d>> : d \in DefaultDirs} |-> Dir]

\* FileSpace.ensure_ready: any use of a space creates what it lacks.
EnsureReady(t) == [p \in DOMAIN t \cup DOMAIN Fresh |-> IF p \in DOMAIN t THEN t[p] ELSE Dir]
Ready(trees, owners) == [s \in Spaces |-> IF s \in owners THEN EnsureReady(trees[s]) ELSE trees[s]]
Absent == [p \in {} |-> Dir]

Exists(t, p) == p \in DOMAIN t
IsDir(t, p) == Exists(t, p) /\ t[p] = Dir

\* A space is there with its home and default directories or not at all, and
\* everything in it has a directory above it.
IsPath(p) == p \in Seq(ToSet(p))
TreeOK(t) ==
  /\ IsFiniteSet(DOMAIN t) /\ \A p \in DOMAIN t : IsPath(p)
  /\ t = Absent \/ /\ \A p \in DOMAIN Fresh : IsDir(t, p)
                   /\ \A p \in DOMAIN t \ {<<>>} : IsDir(t, Front(p))

\* What the commands and the requests name; what there is at the start.
Argument(arg) == arg = None \/ IsPath(arg.segments)
Command(c) ==
  /\ c.op \in {"cd", "mkdir", "touch", "upload", "ls", "find"} => Argument(c.arg)
  /\ c.op = "rm" => IsPath(c.args) /\ \A i \in DOMAIN c.args : Argument(c.args[i])
  /\ c.op = "upload" => IsPath(c.files)
ASSUME FileSpaceAssumption ==
  /\ Users \cap Shared = {} /\ Groups \cap Classes = {} /\ Orgs \cap (Groups \cup Classes) = {}
  /\ None \notin Spaces /\ IsFiniteSet(DefaultDirs)
  /\ (Spaces \cup Reserved) \cap DOMAIN Trailing = {} /\ DOMAIN Leading \cap DOMAIN Trailing = {}
  /\ \A n \in DOMAIN Leading : Leading[n] \notin DOMAIN Leading \cup DOMAIN Trailing \cup {Up}
  /\ \A n \in DOMAIN Trailing : Trailing[n] \notin DOMAIN Leading \cup DOMAIN Trailing \cup {Up}
  /\ GroupOf \in [Classes -> Groups] /\ OrgsOf \in [Classes -> SUBSET Orgs]
  /\ UserOf \in [Sessions -> Users] /\ ChannelOf \in [Sessions -> Groups \cup {None}]
  /\ \A t \in InitialTrees : DOMAIN t = Spaces /\ \A s \in Spaces : TreeOK(t[s])
  /\ \A c \in InitialCwds : DOMAIN c = Users /\ \A u \in Users : c[u] = None \/ IsPath(c[u])
  /\ \A c \in Commands : Command(c)
  /\ \A r \in AdminRequests : r.owner \in Spaces /\ (r.op # "delete" => IsPath(r.path))
  /\ Mortal \subseteq Users \cup Groups \cup Classes

With(t, p, node) == [q \in DOMAIN t \cup {p} |-> IF q = p THEN node ELSE t[q]]
Below(t, p) == {q \in DOMAIN t : IsPrefix(p, q)}

\* _ensure_removable.
Removable(p) == ~(p = <<>> \/ (Len(p) = 1 /\ p[1] \in DefaultDirs))

\* mkdir and touch; FALSE stands for the error the user is shown.
CanCreate(t, p) == ~Exists(t, p) /\ IsDir(t, Front(p))

CanRemove(t, p, recursive) == Exists(t, p) /\ Removable(p) /\ (t[p] = Dir => recursive)
Removed(t, p) == [q \in DOMAIN t \ Below(t, p) |-> t[q]]

\* Mutant of UniqueChild: an upload takes the name it comes with.
UniqueChild_Same(t, dir, name) == Append(dir, name)

UniqueChild(t, dir, name) ==
  LET Candidate(n) == Append(dir, IF n = 0 THEN name ELSE <<name, n>>)
      free == {n \in 0 .. Cardinality(DOMAIN t) : ~Exists(t, Candidate(n))}
  IN  Candidate(CHOOSE n \in free : \A m \in free : n <= m)
Saved(t, dir, file) == With(t, UniqueChild(t, dir, file.name), file.content)

\* One attachment after another.
AllSaved(t, dir, files) ==
  LET after[i \in 0 .. Len(files)] == IF i = 0 THEN t ELSE Saved(after[i - 1], dir, files[i])
  IN  after[Len(files)]

-----------------------------------------------------------------------------
(* The virtual workspace: ~ is the user's own space, ~/category/owner a      *)
(* mounted one.  `mounts` maps the owners mounted to whether they may be     *)
(* written.                                                                  *)

\* The path walked from `base`: `escaped` once it has tried to leave ~.
Step(at, seg) ==
  IF seg # Up THEN [at EXCEPT !.parts = Append(@, seg)]
  ELSE IF at.parts = <<>> THEN [at EXCEPT !.escaped = TRUE]
  ELSE [at EXCEPT !.parts = Front(@)]
Walk(base, segments) ==
  LET at[i \in 0 .. Len(segments)] ==
        IF i = 0 THEN [parts |-> base, escaped |-> FALSE] ELSE Step(at[i - 1], segments[i])
  IN  at[Len(segments)]

\* What is left of a path when it is typed in again as it was shown: strip cuts
\* the white space at its end.
Typed(path) ==
  [i \in DOMAIN path |->
     IF i = Len(path) /\ path[i] \in DOMAIN Trailing THEN Trailing[path[i]] ELSE path[i]]

\* path_from_parts and FileSpace.resolve: a path read within its space, where the
\* ~ that a name begins with is taken for the home.  The operations of FileSpace
\* read it once more, which changes nothing.
Physical(path) ==
  [i \in DOMAIN path |->
     IF i = 1 /\ path[i] \in DOMAIN Leading THEN Leading[path[i]] ELSE Typed(path)[i]]
Frayed(path) == path # <<>> /\ (path[1] \in DOMAIN Leading \/ path[Len(path)] \in DOMAIN Trailing)

\* _target_for_parts.
Target(u, mounts, parts) ==
  IF parts = <<>> THEN [type |-> "root"]
  ELSE IF parts[1] \notin Reserved THEN [type |-> "space", owner |-> u, path |-> Physical(parts)]
  ELSE IF Len(parts) = 1 THEN [type |-> "category", category |-> parts[1]]
  ELSE IF parts[2] \in DOMAIN mounts /\ CategoryOf[parts[2]] = parts[1]
       THEN [type |-> "space", owner |-> parts[2], path |-> Physical(SubSeq(parts, 3, Len(parts)))]
  ELSE [type |-> "missing"]

\* cwd_parts: the stored directory if it can still be entered, else ~.
CwdParts(u, mounts, trees) ==
  LET parts == IF cwd[u] = None THEN <<>> ELSE cwd[u]
      target == Target(u, mounts, parts)
      entered == \/ target.type \in {"root", "category"}
                 \/ target.type = "space" /\ IsDir(trees[target.owner], target.path)
  IN  IF entered THEN parts ELSE <<>>

\* _parse_parts.  An argument is None or [rooted, segments].
Parse(u, mounts, trees, arg) ==
  IF arg = None THEN [parts |-> CwdParts(u, mounts, trees), escaped |-> FALSE]
  ELSE Walk(IF arg.rooted THEN <<>> ELSE CwdParts(u, mounts, trees), arg.segments)

\* resolve(reject_escape=True).
Resolve(u, mounts, trees, arg) ==
  LET at == Parse(u, mounts, trees, arg)
  IN  IF at.escaped THEN [type |-> "missing"] ELSE Target(u, mounts, at.parts)

\* Mutant of Writable: a mounted space may be written by whoever sees it.
Writable_Visible(u, mounts, target) == target.type = "space"

\* _ensure_writable.
Writable(u, mounts, target) ==
  /\ target.type = "space"
  /\ target.owner # u => mounts[target.owner]
  /\ target.owner = u => target.path[1] \notin Reserved

-----------------------------------------------------------------------------
(* Who may do what.  Facts: <<"admin", u>>, <<"creator", u, group>>,         *)
(* <<"teaches", u, class>>, <<"student", u, class>>, <<"cadre", u, class>>   *)
(* (a student with a post), <<"member", u, org>> (a teacher's college or     *)
(* school).  `snap` holds those that are read with the user's own row, `now` *)
(* those that are read later.                                                *)

OwnRow == {"admin", "student", "cadre", "member"}
FactsOf(u) == {f \in facts : f[2] = u /\ f[1] \in OwnRow}

CanWriteClass(u, c, snap, now) ==
  \/ <<"admin", u>> \in snap
  \/ <<"creator", u, GroupOf[c]>> \in now
  \/ <<"teaches", u, c>> \in now
  \/ <<"cadre", u, c>> \in snap
CanWriteGroup(u, g, snap, now) ==
  \/ <<"admin", u>> \in snap
  \/ <<"creator", u, g>> \in now
  \/ \E c \in Classes \cap rows : GroupOf[c] = g /\ CanWriteClass(u, c, snap, now)
CanWrite(u, s, snap, now) ==
  \/ s \in Classes /\ CanWriteClass(u, s, snap, now)
  \/ s \in Groups /\ CanWriteGroup(u, s, snap, now)
  \/ s \in Orgs /\ <<"admin", u>> \in snap

ClassesOf(u, snap, now) ==
  {c \in Classes \cap rows :
     <<"student", u, c>> \in snap \/ <<"cadre", u, c>> \in snap \/ <<"teaches", u, c>> \in now}
MountedBy(u, snap, now) ==
  {g \in Groups \cap rows : <<"creator", u, g>> \in now}
  \cup ClassesOf(u, snap, now)
  \cup (UNION {OrgsOf[c] : c \in ClassesOf(u, snap, now)} \cap rows)
  \cup {o \in Orgs \cap rows : <<"member", u, o>> \in snap}

\* build_user_file_workspace; without a user (snap = None) only the group of the chat.
BuildMounts(u, channel, snap) ==
  LET mounted == ({channel} \cap rows) \cup (IF snap = None THEN {} ELSE MountedBy(u, snap, facts))
  IN  [s \in mounted |-> snap # None /\ CanWrite(u, s, snap, facts)]

-----------------------------------------------------------------------------
(* A command.  born and seen are history: the owners there were when it      *)
(* came, and all the facts that have been true since.                        *)

NoJob == [pc |-> "idle", command |-> None, snap |-> None, mounts |-> <<>>, born |-> {}, seen |-> {}]
NoReply == [to |-> None, command |-> None, status |-> None, at |-> None, mounts |-> <<>>, shown |-> {}]

Init ==
  /\ tree \in InitialTrees
  /\ cwd \in InitialCwds
  /\ rows = Spaces
  /\ doomed = {}
  /\ facts \in InitialFacts
  /\ job = [s \in Sessions |-> NoJob]
  /\ reply = NoReply
  /\ commands = 0
  /\ changes = 0

\* Mutant of Receive: the user is remembered from an earlier message.
Receive_CachedUser(s) ==
  /\ job[s].pc = "idle"
  /\ commands < MaxCommands
  /\ \E c \in Commands :
       job' = [job EXCEPT ![s] = [NoJob EXCEPT !.pc = "received", !.command = c, !.born = rows,
                                               !.snap = {}, !.seen = facts]]
  /\ commands' = commands + 1
  /\ reply' = NoReply
  /\ UNCHANGED <<disk, rows, doomed, facts, changes>>

\* The user of the message is known before the command starts.
Receive(s) ==
  /\ job[s].pc = "idle"
  /\ UserOf[s] \in rows
  /\ commands < MaxCommands
  /\ \E c \in Commands :
       job' = [job EXCEPT ![s] = [NoJob EXCEPT !.pc = "received", !.command = c, !.born = rows,
                                               !.snap = FactsOf(UserOf[s]), !.seen = facts]]
  /\ commands' = commands + 1
  /\ reply' = NoReply
  /\ UNCHANGED <<disk, rows, doomed, facts, changes>>

\* The row is read again.  If it has gone a message goes on with the user it
\* came with, a command called by the agent with none.
ReadUser(s) ==
  LET u == UserOf[s] IN
  /\ job[s].pc = "received"
  /\ tree' = Ready(tree, {u})
  /\ \E snap \in IF u \in rows THEN {FactsOf(u)} ELSE {job[s].snap, None} :
       job' = [job EXCEPT ![s].pc = "read", ![s].snap = snap]
  /\ reply' = NoReply
  /\ UNCHANGED <<cwd, rows, doomed, facts, commands, changes>>

\* The queries of a mount's owner, its classes and its rights come one after
\* another; here they are one.  A mount is writable by a single fact, read at one
\* of these moments, and what a change between two queries does to one mount is
\* what the change does before or after all of them.
ReadMounts(s) ==
  LET mounts == BuildMounts(UserOf[s], ChannelOf[s], job[s].snap) IN
  /\ job[s].pc = "read"
  /\ tree' = Ready(tree, DOMAIN mounts)
  /\ job' = [job EXCEPT ![s].pc = "mounted", ![s].mounts = mounts]
  /\ reply' = NoReply
  /\ UNCHANGED <<cwd, rows, doomed, facts, commands, changes>>

-----------------------------------------------------------------------------
(* What the commands do once the workspace is there.                         *)

Doing(s, op) == job[s].pc = "mounted" /\ job[s].command.op = op

\* `at` is the path the command worked on, `shown` what it displayed.
Answer(s, status, at, shown) ==
  /\ reply' = [to |-> s, command |-> job[s].command, status |-> status, at |-> at,
               mounts |-> job[s].mounts, shown |-> shown]
  /\ job' = [job EXCEPT ![s] = NoJob]
  /\ UNCHANGED <<rows, doomed, facts, commands, changes>>

\* A path outside ~ is ~ to cd, whatever follows the last "..".
Cd(s) ==
  LET u == UserOf[s]  m == job[s].mounts  arg == job[s].command.arg
      at == IF arg = None THEN [parts |-> <<>>, escaped |-> FALSE] ELSE Parse(u, m, tree, arg)
      parts == IF at.escaped THEN <<>> ELSE at.parts
      target == Target(u, m, parts)
      found == \/ target.type \in {"root", "category"}
               \/ target.type = "space" /\ IsDir(tree[target.owner], target.path)
  IN  /\ Doing(s, "cd")
      /\ cwd' = IF found THEN [cwd EXCEPT ![u] = parts] ELSE cwd
      /\ Answer(s, IF found THEN "done" ELSE "error", parts, {})
      /\ UNCHANGED tree

\* mkdir and touch.
Create(s, op, node) ==
  LET u == UserOf[s]  m == job[s].mounts  arg == job[s].command.arg
      target == Resolve(u, m, tree, arg)
      writable == Writable(u, m, target)
      creates == writable /\ CanCreate(tree[target.owner], target.path)
  IN  /\ Doing(s, op)
      /\ tree' = IF creates THEN [tree EXCEPT ![target.owner] = With(@, target.path, node)] ELSE tree
      /\ Answer(s, IF creates THEN "done" ELSE IF writable \/ target.type = "missing" THEN "error" ELSE "unwritable",
                Parse(u, m, tree, arg).parts, {})
      /\ UNCHANGED cwd
Mkdir(s) == Create(s, "mkdir", Dir)
Touch(s) == Create(s, "touch", Empty)

\* One path of an rm after another; an error leaves what was removed before it
\* removed.  The code that would bring the current directory back to ~ never
\* does: it asks for the directory after removing it, and one that is gone reads
\* as ~ (CwdParts).
RemoveOne(u, m, command, done, arg) ==
  LET target == Resolve(u, m, done.trees, arg)
      writable == Writable(u, m, target)
      present == writable /\ Exists(done.trees[target.owner], target.path)
      removes == present /\ CanRemove(done.trees[target.owner], target.path, command.recursive)
  IN  IF done.failed THEN done
      ELSE IF removes THEN [done EXCEPT !.trees[target.owner] = Removed(@, target.path)]
      ELSE [done EXCEPT !.failed = ~(writable /\ ~present /\ command.force)]
RemoveAll(u, m, command) ==
  LET done[i \in 0 .. Len(command.args)] ==
        IF i = 0 THEN [trees |-> tree, failed |-> FALSE]
        ELSE RemoveOne(u, m, command, done[i - 1], command.args[i])
  IN  done[Len(command.args)]
Rm(s) ==
  LET done == RemoveAll(UserOf[s], job[s].mounts, job[s].command)
  IN  /\ Doing(s, "rm")
      /\ tree' = done.trees
      /\ Answer(s, IF done.failed THEN "error" ELSE "done", None, {})
      /\ UNCHANGED cwd

\* The attachments go one by one into the directory named, or the current one.
Upload(s) ==
  LET u == UserOf[s]  m == job[s].mounts  arg == job[s].command.arg
      target == Resolve(u, m, tree, arg)
      writable == Writable(u, m, target)
      saves == writable /\ IsDir(tree[target.owner], target.path)
  IN  /\ Doing(s, "upload")
      /\ tree' = IF saves THEN [tree EXCEPT ![target.owner] = AllSaved(@, target.path, job[s].command.files)] ELSE tree
      /\ Answer(s, IF saves THEN "done" ELSE IF writable \/ target.type = "missing" THEN "error" ELSE "unwritable",
                Parse(u, m, tree, arg).parts, {})
      /\ UNCHANGED cwd

\* Mutant of Shown: the path within the mounted space.
Shown_Physical(u, owner, path) == [parts |-> path, owner |-> owner, path |-> path]

\* What a listing shows: a virtual path and the node it stands for (the owner
\* and its path; a mount category has no owner).
Shown(u, owner, path) ==
  [parts |-> IF owner = u THEN path ELSE <<CategoryOf[owner], owner>> \o path, owner |-> owner, path |-> path]
ShownCategory(c) == [parts |-> <<c>>, owner |-> None, path |-> <<>>]
Children(t, p) == {q \in Below(t, p) : Len(q) = Len(p) + 1}
Inside(t, p) == IF IsDir(t, p) THEN Below(t, p) \ {p} ELSE Below(t, p)
MountsIn(mounts, c) == {o \in DOMAIN mounts : CategoryOf[o] = c}

\* list_entries: in ~, a directory of the user with the name of a category is hidden.
Listing(u, mounts, target) ==
  CASE target.type = "root" ->
         {ShownCategory(CategoryOf[o]) : o \in DOMAIN mounts}
         \cup {Shown(u, u, q) : q \in {c \in Children(tree[u], <<>>) : c[1] \notin Reserved}}
    [] target.type = "category" -> {Shown(u, o, <<>>) : o \in MountsIn(mounts, target.category)}
    [] target.type = "space" ->
         {Shown(u, target.owner, q) :
            q \in IF IsDir(tree[target.owner], target.path) THEN Children(tree[target.owner], target.path)
                  ELSE {target.path}}

\* search_targets and the walk below each of them (find and grep).
Found(u, mounts, target) ==
  LET roots == CASE target.type = "root" -> {<<o, <<>>>> : o \in {u} \cup DOMAIN mounts}
                 [] target.type = "category" -> {<<o, <<>>>> : o \in MountsIn(mounts, target.category)}
                 [] target.type = "space" -> {<<target.owner, target.path>>}
  IN  UNION {{Shown(u, r[1], q) : q \in Inside(tree[r[1]], r[2])} : r \in roots}

\* ls, find and grep.
Look(s) ==
  LET u == UserOf[s]  m == job[s].mounts  arg == job[s].command.arg
      target == Resolve(u, m, tree, arg)
      there == target.type \in {"root", "category"} \/ (target.type = "space" /\ Exists(tree[target.owner], target.path))
  IN  \E op \in {"ls", "find"} :
        /\ Doing(s, op)
        /\ Answer(s, IF there THEN "done" ELSE "error", Parse(u, m, tree, arg).parts,
                  IF ~there THEN {} ELSE IF op = "ls" THEN Listing(u, m, target) ELSE Found(u, m, target))
        /\ UNCHANGED disk

Execute(s) == Cd(s) \/ Mkdir(s) \/ Touch(s) \/ Rm(s) \/ Upload(s) \/ Look(s)

-----------------------------------------------------------------------------
(* Everyone else.                                                            *)

Change == changes < MaxChanges /\ changes' = changes + 1 /\ reply' = NoReply /\ UNCHANGED commands

\* A role, a class or a group of somebody changes.
ChangeFact(f) ==
  /\ Change
  /\ facts' = IF f \in facts THEN facts \ {f} ELSE facts \cup {f}
  /\ job' = [s \in Sessions |-> [job[s] EXCEPT !.seen = @ \cup facts']]
  /\ UNCHANGED <<disk, rows, doomed>>

\* Owners that go with the row of o: a class and its group take each other along,
\* a user the groups it created and their classes.  Only a deleted user's own
\* space is removed afterwards, and both of a class and its group.
WithRow(o) ==
  CASE o \in Classes -> {o, GroupOf[o]}
    [] o \in Groups -> {o} \cup {c \in Classes : GroupOf[c] = o}
    [] o \in Users -> LET created == {g \in Groups : <<"creator", o, g>> \in facts}
                      IN  {o} \cup created \cup {c \in Classes : GroupOf[c] \in created}
DropRow(o) ==
  LET gone == WithRow(o) \cap rows IN
  /\ Change
  /\ o \in rows
  /\ rows' = rows \ gone
  /\ doomed' = doomed \cup (IF o \in Users THEN {o} ELSE gone)
  /\ facts' = {f \in facts : \A i \in DOMAIN f : f[i] \notin gone}
  /\ UNCHANGED <<disk, job>>

\* delete_space after the commit; its failure is only logged.
Cleanup(o) ==
  /\ doomed' = doomed \ {o}
  /\ \/ /\ tree' = [tree EXCEPT ![o] = Absent]
        /\ cwd' = [u \in Users |-> IF u = o THEN None ELSE cwd[u]]
     \/ UNCHANGED disk
  /\ reply' = NoReply
  /\ UNCHANGED <<rows, facts, job, commands, changes>>

\* A request to the file pages, on a space that is there.
AdminTree(t, r) ==
  CASE r.op = "write" /\ r.path # <<>> /\ ~IsDir(t, r.path) /\ IsDir(t, Front(r.path)) -> With(t, r.path, r.content)
    [] r.op = "mkdir" /\ CanCreate(t, r.path) -> With(t, r.path, Dir)
    [] r.op = "remove" /\ CanRemove(t, r.path, r.recursive) -> Removed(t, r.path)
    [] r.op = "delete" -> Absent
    [] OTHER -> t
AdminRequest(r) ==
  /\ Change
  /\ tree[r.owner] # Absent
  /\ tree' = [tree EXCEPT ![r.owner] = AdminTree(EnsureReady(@), r)]
  /\ cwd' = [u \in Users |-> IF u = r.owner /\ r.op = "delete" THEN None ELSE cwd[u]]
  /\ UNCHANGED <<rows, doomed, facts, job>>

Next ==
  \/ \E s \in Sessions : Receive(s) \/ ReadUser(s) \/ ReadMounts(s) \/ Execute(s)
  \/ \E f \in ChangingFacts : ChangeFact(f)
  \/ \E o \in Mortal : DropRow(o)
  \/ \E o \in doomed : Cleanup(o)
  \/ \E r \in AdminRequests : AdminRequest(r)

Spec == Init /\ [][Next]_vars

-----------------------------------------------------------------------------
(* Every space is well-formed (TreeOK), whatever was made and removed in it; *)
(* a command under way knows which user it works for.                        *)
TypeOK ==
  /\ DOMAIN tree = Spaces /\ \A s \in Spaces : TreeOK(tree[s])
  /\ DOMAIN cwd = Users /\ \A u \in Users : cwd[u] = None \/ IsPath(cwd[u])
  /\ rows \subseteq Spaces /\ doomed \subseteq Spaces \ rows
  /\ \A s \in Sessions : job[s].pc # "idle" => UserOf[s] \in job[s].born

Commanded == \E s \in Sessions : job[s].pc = "mounted" /\ job'[s].pc = "idle"
Actor == CHOOSE s \in Sessions : job[s].pc = "mounted" /\ job'[s].pc = "idle"
Changed(t, u) == {p \in DOMAIN t \cup DOMAIN u : ~(p \in DOMAIN t \cap DOMAIN u /\ t[p] = u[p])}

\* What a command changes is its user's own, or belongs to an owner in which the
\* user had, at some time since the command came, a right to write (the mounts
\* are read before, and the user's row before them).
Tied(o) == {o} \cup {GroupOf[c] : c \in Classes \cap {o}} \cup {c \in Classes : GroupOf[c] = o}
MightWrite(u, o, known) ==
  \/ o = u
  \/ <<"admin", u>> \in known
  \/ o \notin Orgs /\ \E role \in {"creator", "teaches", "cadre"}, t \in Tied(o) : <<role, u, t>> \in known
WritesAreAuthorised ==
  [][Commanded => \A o \in Spaces : tree'[o] # tree[o] =>
       MightWrite(UserOf[Actor], o, job[Actor].seen)]_vars

\* A file keeps its content until it is removed by rm or rewritten through the
\* management interface: no upload, touch or mkdir of two users loses a file.
NothingOverwritten ==
  [][Commanded => \A o \in Spaces : \A p \in DOMAIN tree[o] :
       \/ p \in DOMAIN tree'[o] /\ tree'[o][p] = tree[o][p]
       \/ p \notin DOMAIN tree'[o] /\ job[Actor].command.op = "rm"]_vars

\* Every path that ls or find shows leads back to what was shown when it is typed
\* in, except where a name at one of its ends is read as another: then it leads
\* elsewhere, though to no space of another owner.  And what find finds in a
\* directory of the user named like a mount category, or ls by a path that was
\* itself read as one, is taken for the category.
ShownResolves ==
  \A e \in reply.shown :
    LET target == Target(UserOf[reply.to], reply.mounts, Typed(e.parts))
    IN  \/ target.type = "space" /\ target.owner = e.owner /\ target.path = e.path
        \/ target.type = "category" /\ e.owner = None
        \/ Frayed(e.path) /\ (target.type = "space" => target.owner = e.owner)
        \/ /\ e.owner = UserOf[reply.to] /\ e.path[1] \in Reserved
           /\ reply.command.op = "find" \/ Frayed(reply.at)

\* Once the row of an owner has gone, its space takes nothing more from commands
\* that come afterwards; one that came before may still bring the space back.
DeletedTakesNothing ==
  [][Commanded => \A o \in Spaces \ rows :
       DOMAIN tree'[o] \subseteq DOMAIN tree[o] \/ o \in job[Actor].born]_vars
=============================================================================
