---------------------------- MODULE MCChatHistory ----------------------------
(***************************************************************************)
(* The instance of ChatHistory that TLC checks: a user with two platforms   *)
(* whose message ids collide and a platform without ids or times, and a     *)
(* group with two channels whose message ids collide, a command, an answer  *)
(* and a row of the old table.                                              *)
(***************************************************************************)
EXTENDS ChatHistory

CONSTANTS ann, group, bot, hello, ask

Said(o, channel, id, time, words, command) ==
  [owner |-> o, channel |-> channel, sender |-> ann, id |-> id, time |-> time, words |-> words, command |-> command]

MCMessages == {
  Said(ann, 1, 1, 1, {hello}, FALSE), Said(ann, 2, 1, 2, {ask}, TRUE), Said(ann, 3, None, None, {ask}, TRUE),
  Said(group, 1, 1, 2, {hello}, FALSE), Said(group, 2, 1, 1, {ask}, TRUE), Said(group, 1, None, 2, {ask}, FALSE),
  Said(group, 1, 3, 2, {}, FALSE)}
MCReplies == {[owner |-> group, channel |-> 1, sender |-> bot, id |-> 2, words |-> {hello}]}
MCLegacy ==
  group :> <<[kind |-> "collect", role |-> "user", at |-> 1, key |-> <<"old", 7>>,
              of |-> Said(group, 1, 0, 1, {ask}, FALSE)]>>
=============================================================================
