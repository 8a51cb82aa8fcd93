----------------------------- MODULE ChatHistory -----------------------------
(***************************************************************************)
(* The chat history: what is written when a message is collected, when a    *)
(* command is recognised and when the bot has answered                      *)
(* (plugins/library/message_history), the store of one database per user    *)
(* and group with the daily mirror of a user (core/storage/chat_history.py),*)
(* and the deletion of a chat space by an administrator.                    *)
(*                                                                         *)
(* Every recording runs in a thread of its own: it commits the row and,     *)
(* for a user, then appends the line of the mirror.  A platform may deliver *)
(* a message again; the process may die in between.  Which owner a          *)
(* platform chat belongs to is fixed here; a text is the set of its words.  *)
(* Whatever _ensure_schema repairs in old rows besides the old table is     *)
(* left out: the rows here are complete.                                    *)
(***************************************************************************)
EXTENDS Naturals, Sequences, FiniteSets, SequencesExt

CONSTANTS
  Users, Groups,       \* the owners
  Messages,            \* [owner, channel, sender, id, time, words, command]: what users write
  Replies,             \* [owner, channel, sender, id, words]: what the bot answers
  Legacy,              \* per group: the rows of the old table group_messages
  Wipeable,            \* the owners whose chat space may be deleted
  MaxRecords, MaxTime, MaxCrashes,  \* bounds: recordings, clock, crashes
  None                 \* no message id; no usable time

Owners == Users \cup Groups

ASSUME ChatHistoryAssumption ==
  /\ MaxRecords \in Nat
  /\ Users \cap Groups = {}
  /\ \A e \in Messages : e.owner \in Owners /\ e.time \in Nat \cup {None}
  /\ \A r \in Replies : r.owner \in Owners
  /\ Wipeable \subseteq Owners
  /\ Legacy = [g \in Groups |-> Legacy[g]]
  /\ \A g \in Groups : Legacy[g] \in Seq(ToSet(Legacy[g]))

\* _migrate_legacy_group_table copies every row as a collected message, with the
\* key it has, which is unique in the old table.  That table knew no kinds of
\* record, so its keys are none that build_event_key makes now.
ASSUME LegacyAssumption ==
  \A g \in Groups : \A l, m \in ToSet(Legacy[g]) :
    /\ m.kind = "collect" /\ m.role = "user" /\ m.at \in Nat
    /\ m.key[1] \notin {"collect", "chat"} /\ m.of \notin Messages \cup Replies
    /\ l.key = m.key \/ l.of = m.of => l = m

Jobs == 1 .. MaxRecords
Idle == [pc |-> "idle"]

VARIABLES
  rows,        \* per owner: the table messages, in the order of its ids
  legacy,      \* per group: what the old table holds
  daily,       \* per user: the rows of which the daily files have a line
  jobs,        \* the recordings in flight
  now,         \* the clock
  started, crashes,  \* history: recordings begun; crashes
  said,        \* history: per owner, what was recorded; of a group, what is shown
  interrupted, \* history: rows of users whose recording ended before the mirror
  wiped        \* history: owners whose chat space was deleted

store == <<rows, legacy, daily>>
history == <<started, crashes, said, interrupted, wiped>>
vars == <<store, jobs, now, history>>

-----------------------------------------------------------------------------
(* One message of the store.                                                 *)

\* Mutant of EventKey: the key does not tell the use of the message.
EventKey_AnyKind(kind, role, e, at) ==
  IF e.id # None THEN <<"", role, e.id>> ELSE <<"", role, e.sender, at, e.words>>

\* build_event_key, within one owner; the direction follows from the role, and
\* neither the platform nor the channel is part of the key.
EventKey(kind, role, e, at) ==
  IF e.id # None THEN <<kind, role, e.id>> ELSE <<kind, role, e.sender, at, e.words>>

\* A row holds the message e: its sender, channel, id and words are columns.
Row(kind, role, e, at) ==
  [kind |-> kind, role |-> role, at |-> at, key |-> EventKey(kind, role, e, at), of |-> e]

Keys(table) == {table[i].key : i \in DOMAIN table}

\* INSERT OR IGNORE.
Inserted(table, m) == IF m.key \in Keys(table) THEN table ELSE Append(table, m)

\* Mutant of Migrated: the old rows are copied every time the database is opened.
Migrated_Again(table, old) == table \o old

\* _migrate_legacy_group_table: the old table is kept and copied at every opening.
Migrated(table, old) ==
  LET copied[k \in 0 .. Len(old)] == IF k = 0 THEN table ELSE Inserted(copied[k - 1], old[k])
  IN  copied[Len(old)]

Opened(o) == IF o \in Groups THEN Migrated(rows[o], legacy[o]) ELSE rows[o]

-----------------------------------------------------------------------------
(* Reading.                                                                  *)

Latest(s, n) == SubSeq(s, IF Len(s) > n THEN Len(s) - n + 1 ELSE 1, Len(s))

\* The rows I of a table in the order of created_ts and id.
InTime(table, I) ==
  LET Earlier(i) ==
        {j \in I : table[j].at < table[i].at \/ (table[j].at = table[i].at /\ j < i)}
  IN  [k \in 1 .. Cardinality(I) |-> table[CHOOSE i \in I : Cardinality(Earlier(i)) = k - 1]]

\* What is left of s at the indexes I.
Keeping(s, I) ==
  [k \in 1 .. Cardinality(I) |-> s[CHOOSE i \in I : Cardinality({j \in I : j < i}) = k - 1]]

\* _load_recent_rows.
RecentRows(o, limit, kinds) ==
  LET table == Opened(o)
  IN  Latest(InTime(table, {i \in DOMAIN table : table[i].kind \in kinds}), limit)

MaxOf(a, b) == IF a > b THEN a ELSE b

\* The rows a search looks for: without the excluded message, with all terms.
Found(recent, terms, exclude) ==
  Keeping(recent, {i \in DOMAIN recent :
                     (exclude = None \/ recent[i].of.id # exclude) /\ terms \subseteq recent[i].of.words})

\* Mutant of SearchMessages: only the newest `limit` rows are looked at.
SearchMessages_NoWindow(o, terms, limit, window, exclude, kinds) ==
  Found(RecentRows(o, limit, kinds), terms, exclude)

\* _search_messages_sync; terms are words of the text.
SearchMessages(o, terms, limit, window, exclude, kinds) ==
  Latest(Found(RecentRows(o, MaxOf(limit, window), kinds), terms, exclude), limit)

\* Mutant of Shown: a command is shown as it was collected and as it was recognised.
Shown_All(m) == TRUE

\* _filter_group_chat_history_records.
Shown(m) == m.kind = "collect" \/ m.role = "assistant"
View(records) == Keeping(records, {i \in DOMAIN records : Shown(records[i])})

\* _search_group_chat_history_records_sync.
SearchGroup(g, terms, limit, window, exclude) ==
  LET found == SearchMessages(g, terms, MaxOf(limit, window), window, exclude, {"collect", "chat"})
  IN  Latest(View(found), limit)

\* search_user_chat_messages.
SearchUser(u, terms, limit, window, exclude) ==
  SearchMessages(u, terms, limit, window, exclude, {"chat"})

\* _load_group_chat_history_records_sync: what the index of a group is built from.
LoadGroupHistory(g, limit) == View(RecentRows(g, limit, {"collect", "chat"}))

-----------------------------------------------------------------------------
(* Recording.                                                                *)

Begin(o, m) ==
  /\ started < MaxRecords
  /\ started' = started + 1
  /\ jobs' = [jobs EXCEPT ![started + 1] = [pc |-> "insert", owner |-> o, m |-> m]]
  /\ UNCHANGED <<store, now, crashes, said, interrupted, wiped>>

\* resolve_created_at.
CreatedAt(e) == IF e.time = None THEN now ELSE e.time

\* collect_message: the collector sees every message that has a text.
Collect(e) ==
  /\ e.words # {}
  /\ Begin(e.owner, Row(IF e.owner \in Groups THEN "collect" ELSE "chat", "user", e, CreatedAt(e)))

\* record_command_message: the hook of the commands records it as chat.
RecordCommand(e) ==
  /\ e.command
  /\ e.words # {}
  /\ Begin(e.owner, Row("chat", "user", e, CreatedAt(e)))

\* record_assistant_message: the hook of Bot.send.
RecordReply(r) ==
  /\ r.words # {}
  /\ Begin(r.owner, Row("chat", "assistant", r, now))

\* What was said, apart from how it is stored.
Heard(m) == [of |-> m.of, role |-> m.role, at |-> m.at]

\* Mutant of AfterInsert: the mirror is written whether the row is new or not.
AfterInsert_Always(o, new) == IF o \in Users THEN "append" ELSE "done"

AfterInsert(o, new) == IF new /\ o \in Users THEN "append" ELSE "done"

\* _record_message_sync up to the commit.
Insert(j) ==
  /\ jobs[j].pc = "insert"
  /\ LET o == jobs[j].owner
         m == jobs[j].m
         new == m.key \notin Keys(Opened(o))
     IN  /\ rows' = [rows EXCEPT ![o] = Inserted(Opened(o), m)]
         /\ jobs' = [jobs EXCEPT ![j].pc = AfterInsert(o, new)]
         /\ said' = IF o \in Groups => Shown(m) THEN [said EXCEPT ![o] = @ \cup {Heard(m)}] ELSE said
  /\ UNCHANGED <<legacy, daily, now, started, crashes, interrupted, wiped>>

\* _append_user_daily_message.
AppendDaily(j) ==
  /\ jobs[j].pc = "append"
  /\ daily' = [daily EXCEPT ![jobs[j].owner] = Append(@, jobs[j].m)]
  /\ jobs' = [jobs EXCEPT ![j].pc = "done"]
  /\ UNCHANGED <<rows, legacy, now, history>>

\* The line cannot be written; the row is committed.
AppendFails(j) ==
  /\ jobs[j].pc = "append"
  /\ jobs' = [jobs EXCEPT ![j].pc = "done"]
  /\ interrupted' = interrupted \cup {<<jobs[j].owner, jobs[j].m>>}
  /\ UNCHANGED <<store, now, started, crashes, said, wiped>>

\* delete_chat_space removes the directory chat of the owner, mirror included.
DeleteChatSpace(o) ==
  /\ rows[o] # <<>>
  /\ rows' = [rows EXCEPT ![o] = <<>>]
  /\ legacy' = IF o \in Groups THEN [legacy EXCEPT ![o] = <<>>] ELSE legacy
  /\ daily' = IF o \in Users THEN [daily EXCEPT ![o] = <<>>] ELSE daily
  /\ said' = [said EXCEPT ![o] = {}]
  /\ wiped' = wiped \cup {o}
  /\ UNCHANGED <<jobs, now, started, crashes, interrupted>>

Pending == {j \in Jobs : jobs[j].pc = "append"}

\* The process dies; only files survive.
Crash ==
  /\ crashes < MaxCrashes
  /\ crashes' = crashes + 1
  /\ interrupted' = interrupted \cup {<<jobs[j].owner, jobs[j].m>> : j \in Pending}
  /\ jobs' = [j \in Jobs |-> IF jobs[j].pc \in {"insert", "append"} THEN [jobs[j] EXCEPT !.pc = "done"] ELSE jobs[j]]
  /\ UNCHANGED <<store, now, started, said, wiped>>

Tick == now < MaxTime /\ now' = now + 1 /\ UNCHANGED <<store, jobs, history>>

Init ==
  /\ rows = [o \in Owners |-> <<>>]
  /\ legacy = Legacy
  /\ daily = [u \in Users |-> <<>>]
  /\ jobs = [j \in Jobs |-> Idle]
  /\ now = 1
  /\ started = 0 /\ crashes = 0
  /\ said = [o \in Owners |-> IF o \in Groups THEN {Heard(m) : m \in ToSet(Legacy[o])} ELSE {}]
  /\ interrupted = {}
  /\ wiped = {}

Next ==
  \/ \E e \in Messages : Collect(e) \/ RecordCommand(e)
  \/ \E r \in Replies : RecordReply(r)
  \/ \E j \in Jobs : Insert(j) \/ AppendDaily(j) \/ AppendFails(j)
  \/ \E o \in Wipeable : DeleteChatSpace(o)
  \/ Crash
  \/ Tick

Spec == Init /\ [][Next]_vars

-----------------------------------------------------------------------------
(* Properties.                                                               *)

\* Things that bear the same mark: the message id, or else sender, time and text.
\* The key does not tell the platforms of a user or the channels of a group
\* apart, so of two such things the second is dropped.
Alike(s, t) ==
  /\ s.role = t.role /\ s.of.id = t.of.id
  /\ s.of.id = None => s.of.sender = t.of.sender /\ s.at = t.at /\ s.of.words = t.of.words
Distinct(s, o) == \A t \in said[o] : Alike(s, t) => t.of = s.of

\* A platform that gives a message neither an id nor a time has it stamped with
\* the time of its recording, and recorded again later it is another message.
Stable(s) == s.of.id # None \/ (s.role = "user" /\ s.of.time # None)
Same(s, t) == s.of = t.of /\ s.role = t.role

\* The mirror of a user is the database: each row has one line, and it misses
\* only what a crash or an error cut off between the commit and the line
\* (chat_history.py:590).  The database in turn has everything that was recorded
\* but for the second of two things alike, and redelivery, two hooks that record
\* the same private message at once and a crash never make the mirror say a
\* stable thing twice.  An administrator who deletes the space between the commit
\* and the line leaves a line without a row: such users are excepted.
DailyMirrors ==
  \A u \in Users \ wiped :
    LET Lines(row) == Cardinality({i \in DOMAIN daily[u] : daily[u][i] = row})
                      + Cardinality({j \in Pending : jobs[j].owner = u /\ jobs[j].m = row})
    IN  /\ ToSet(daily[u]) \subseteq ToSet(rows[u])
        /\ \A row \in ToSet(rows[u]) : Lines(row) = IF <<u, row>> \in interrupted THEN 0 ELSE 1
        /\ \A s \in said[u] : Distinct(s, u) => \E row \in ToSet(rows[u]) : Same(Heard(row), s)
        /\ \A i, j \in DOMAIN daily[u] :
             Stable(Heard(daily[u][i])) /\ Same(Heard(daily[u][i]), Heard(daily[u][j])) => i = j

\* What a model or an index is given of a group is the conversation: nothing but
\* what was collected or answered there, all of it but for the second of two
\* things alike, each stable thing once, commands not a second time although they
\* are recorded twice, the old table's messages included, in order of time; and a
\* limit cuts off the oldest, never one in the middle.
GroupViewIsConversation ==
  \A g \in Groups :
    LET all == LoadGroupHistory(g, Len(Opened(g)))
    IN  /\ \A i \in DOMAIN all : Heard(all[i]) \in said[g]
        /\ \A s \in said[g] : Distinct(s, g) => \E i \in DOMAIN all : Same(Heard(all[i]), s)
        /\ \A i, j \in DOMAIN all :
             Stable(Heard(all[i])) /\ Same(Heard(all[i]), Heard(all[j])) => i = j
        /\ \A i, j \in DOMAIN all : i < j => all[i].at <= all[j].at
        /\ \A limit \in 1 .. 2 :
             /\ IsSuffix(LoadGroupHistory(g, limit), all)
             /\ \A window \in limit .. 2 : IsSuffix(SearchGroup(g, {}, limit, window, None), all)

\* A question is answered from the past: what a search is told to leave out is
\* not in it, every hit has the words asked for, and a hit inside the window is
\* missing only when there are `limit` later ones.
SearchFinds ==
  \A u \in Users :
    LET window == RecentRows(u, 2, {"chat"})
    IN  \A m \in Messages : m.owner = u => \A limit \in 1 .. 2 :
      LET found == SearchUser(u, m.words, limit, 2, m.id)
          Hit(row) == m.words \subseteq row.of.words /\ (m.id = None \/ row.of.id # m.id)
      IN  /\ \A i \in DOMAIN found : Hit(found[i])
          /\ \A i \in DOMAIN window : Hit(window[i]) =>
               \/ window[i] \in ToSet(found)
               \/ Cardinality({k \in DOMAIN window : k > i /\ Hit(window[k])}) >= limit
=============================================================================
