----------------------------- MODULE MCLocalRag -----------------------------
(***************************************************************************)
(* The instance of LocalRag that TLC checks: up to two files of which one   *)
(* is indexed, two messages, two turns; a text is cut into pieces of two  *)
(* words that overlap by one, and a piece has two terms at most: the names  *)
(* have words, too, so that not every word of a piece leads to it.          *)
(* The first text of notes is too long for the direct search, that of the   *)
(* agenda for the index, too; the first message is soon beyond the window   *)
(* of the direct search, and no longer beyond that of the index.            *)
(***************************************************************************)
EXTENDS LocalRag

CONSTANTS agenda, notes, exam, date, room, the, one, two

MCTurns == {one, two}
Symmetry == Permutations(MCTurns)

MCFiles == <<agenda, notes>>
MCNameWords == agenda :> {room} @@ notes :> {exam}
MCInitialFiles == agenda :> <<exam, date, exam, date>> @@ notes :> <<room, the, date>>
MCContents == {<<date, exam>>}
MCTalk == <<[id |-> 1, author |-> {}, text |-> <<exam, date>>, shown |-> TRUE],
            [id |-> 2, author |-> {date}, text |-> <<exam, room>>, shown |-> TRUE]>>
MCQueries == {{exam, date}}
MCLexicon == <<exam, room, date>>
=============================================================================
