------------------------------- MODULE LocalRag -------------------------------
(***************************************************************************)
(* The retrieval of local knowledge for a turn (core/agent/runtime/         *)
(* knowledge.py) from the chat and the files of one owner, through the      *)
(* index of core/storage/local_rag.py: a table of text pieces (chunks) and  *)
(* an inverted table of their terms.                                        *)
(*                                                                         *)
(* Each retrieval first brings the index up to date, in a thread, in many   *)
(* small transactions, then searches it, and when that finds nothing or     *)
(* fails looks into the files or the messages themselves.  Retrievals of    *)
(* several turns overlap (a group has many members), files come and go, an  *)
(* administrator deletes the chat directory with the index in it, and the   *)
(* process may die between any two steps.                                   *)
(*                                                                         *)
(* A text is a sequence of words, its size their number, and a query a set  *)
(* of words; scores are left out: which of several hits is shown, and       *)
(* whether a piece that has none of the words is similar enough, is open.   *)
(* The limits are those on the terms of a piece, on the sizes and numbers   *)
(* of files and on the messages looked at; how many results are shown is    *)
(* left out, and so are hidden files, which neither search looks at.        *)
(***************************************************************************)
EXTENDS Naturals, Sequences, FiniteSets, SequencesExt

CONSTANTS
  Files,               \* the names of files and directories in the order of a listing
  TextFiles,           \* those of them with the suffix of a text
  NameWords,           \* function: names to the words in them
  InitialFiles,        \* function: names to texts
  Contents,            \* the texts a file may be given
  Talk,                \* the messages of the owner in order: [id, author, text, shown]
  Queries, Turns,      \* queries; who retrieves
  Lexicon,             \* the words that are no stop words, longer ones first
  MaxTerms,            \* limit of build_chunk_terms
  ChunkSize, Overlap,  \* of split_text_into_chunks
  MaxFiles, MaxScan,   \* max_files of the index; max_scan of the direct search
  IndexSize, ScanSize, \* longest text that goes into the index, that the direct search reads
  RefreshLimit, SearchWindow,  \* newest messages that are indexed, that are searched
  MaxRetrievals, MaxChanges, MaxRagCrashes  \* bounds

Words(text) == ToSet(text)
Texts == Contents \cup {InitialFiles[f] : f \in DOMAIN InitialFiles}

ASSUME RagAssumption ==
  /\ Files \in Seq(ToSet(Files)) /\ IsInjective(Files)
  /\ DOMAIN InitialFiles \subseteq ToSet(Files)
  /\ \A text \in Texts : text \in Seq(Words(text))
  /\ ChunkSize \in Nat \ {0} /\ Overlap \in Nat /\ MaxScan \in Nat
  /\ Lexicon \in Seq(ToSet(Lexicon)) /\ IsInjective(Lexicon) /\ MaxTerms \in Nat

VARIABLES
  files,     \* the files there are: names to texts
  told, dropped,  \* messages recorded so far; those of them that were deleted
  database,  \* whether there is a database; without one its tables count as empty
  chunks,    \* rag_chunks: chunk keys to texts
  terms,     \* rag_terms: pairs of a word and a chunk key
  turn,      \* the retrieval of each turn
  retrievals, changes, ragCrashes  \* history

index == <<database, chunks, terms>>
world == <<files, told, dropped>>
bounds == <<retrievals, changes, ragCrashes>>
ragVars == <<world, index, turn, bounds>>

-----------------------------------------------------------------------------
(* Pieces of a text.                                                         *)

\* Mutant of NextStart: pieces do not overlap and one word is skipped.
NextStart_Skips(start, end) == end + 2

\* Where the next piece starts, given that one covers start .. end.
NextStart(start, end) ==
  LET back == (end + 1) - Overlap IN IF back > start + 1 THEN back ELSE start + 1

PieceEnd(text, start) == IF start + ChunkSize - 1 < Len(text) THEN start + ChunkSize - 1 ELSE Len(text)

\* split_text_into_chunks.
Split(text) ==
  LET pieces[start \in 1 .. Len(text) + 1] ==
        IF start > Len(text) THEN <<>>
        ELSE <<SubSeq(text, start, PieceEnd(text, start))>>
             \o (IF PieceEnd(text, start) = Len(text) THEN <<>>
                 ELSE pieces[NextStart(start, PieceEnd(text, start))])
  IN  pieces[1]

\* chunk_key: the owner, the source and the number of the piece.
ChunkKeys(type, source, text) == {<<type, source, i>> : i \in DOMAIN Split(text)}
ChunksOf(type, source, text) == [k \in ChunkKeys(type, source, text) |-> Split(text)[k[3]]]

\* tokenize_for_recall.
Tokens(words) == words \cap ToSet(Lexicon)

\* The words a piece can be found by, its title's included: the name of the file
\* or of the author.
OwnWords(k, piece) ==
  Tokens(Words(piece) \cup IF k[1] = "file" THEN NameWords[k[2]] ELSE Talk[k[2]].author)

Position(w) == CHOOSE i \in DOMAIN Lexicon : Lexicon[i] = w
Before(v, w) == Position(v) < Position(w)

\* build_chunk_terms: the longest of them, up to the limit.
FirstTerms(words) == {w \in words : Cardinality({v \in words : Before(v, w)}) < MaxTerms}
TermsOf(chunk) == UNION {{<<w, k>> : w \in FirstTerms(OwnWords(k, chunk[k]))} : k \in DOMAIN chunk}

Over(new, old) == [k \in DOMAIN old \cup DOMAIN new |-> IF k \in DOMAIN new THEN new[k] ELSE old[k]]
Minus(old, keys) == [k \in DOMAIN old \ keys |-> old[k]]
NoChunks == [k \in {} |-> <<>>]

-----------------------------------------------------------------------------
(* The index: one operator per transaction.                                  *)

\* Mutant of UpsertChunks: the terms of the replaced piece stay.
UpsertChunks_KeepsTerms(new) ==
  /\ chunks' = Over(new, chunks)
  /\ terms' = terms \cup TermsOf(new)
  /\ UNCHANGED database

\* upsert_chunks: a piece and its terms are replaced together.
UpsertChunks(new) ==
  /\ chunks' = Over(new, chunks)
  /\ terms' = {t \in terms : t[2] \notin DOMAIN new} \cup TermsOf(new)
  /\ UNCHANGED database

KeysOf(f) == {k \in DOMAIN chunks : k[1] = "file" /\ k[2] = f}
KeysNotOf(names) == {k \in DOMAIN chunks : k[1] = "file" /\ k[2] \notin names}

\* delete_source and delete_sources_not_in: the keys were read before, outside
\* the transaction, the chunks are those there are now.
DeleteChunks(seen, now) ==
  /\ chunks' = Minus(chunks, now)
  /\ terms' = {t \in terms : t[2] \notin seen}
  /\ UNCHANGED database

-----------------------------------------------------------------------------
(* A retrieval of a turn.                                                    *)

\* A retrieval at the start of one of its parts, or at rest.  left holds the places
\* in the listing that are still to come.
Part(pc, source, query, current, quiet, steady) ==
  [pc |-> pc, source |-> source, query |-> query, current |-> current, quiet |-> quiet, steady |-> steady,
   left |-> {}, active |-> {}, seen |-> {}, text |-> <<>>, loaded |-> {}, scanned |-> 0, found |-> FALSE]
Rest(pc) == Part(pc, "file", {}, 0, FALSE, {})
At(r, pc, quiet) == Part(pc, r.source, r.query, r.current, quiet, r.steady)

Move(t, to) == turn' = [turn EXCEPT ![t] = to]
Busy(t) == turn[t].pc \notin {"idle", "hit", "miss"}

\* A listing of the files in the order of their names, and its next file.
Listing == {i \in DOMAIN Files : Files[i] \in DOMAIN files}
FileAt(left) == Files[Min(left)]
Beyond(left) == left \ {Min(left)}

Records == {i \in 1 .. told : i \notin dropped}
Newest(n) == {i \in Records : Cardinality({j \in Records : j > i}) < n}

\* should_index_file.
Indexable(f) == f \in DOMAIN files /\ f \in TextFiles /\ Len(files[f]) <= IndexSize
IndexableFiles == {f \in DOMAIN files : Indexable(f)}

\* render_file_match: a large text, or what is none, is known by its name only.
ScannedWords(f) ==
  NameWords[f] \cup
  IF f \in DOMAIN files /\ f \in TextFiles /\ Len(files[f]) <= ScanSize THEN Words(files[f]) ELSE {}
\* _row_matches_query.
SaidWords(i) == Talk[i].author \cup Words(Talk[i].text)

\* retrieve_source; `current` is the message that asks, for its id.  The index is
\* opened, and created if there is none, in the thread of the refresh.
Retrieve(t, source, query, current) ==
  /\ ~Busy(t)
  /\ retrievals < MaxRetrievals
  /\ retrievals' = retrievals + 1
  /\ turn' = [u \in Turns |->
       IF u = t
       THEN Part(IF source = "file" THEN "list" ELSE "load", source, query, current,
                 \A v \in Turns \ {t} : ~Busy(v),
                 IF source = "file" THEN DOMAIN files ELSE Records)
       ELSE IF Busy(u) THEN [turn[u] EXCEPT !.quiet = FALSE] ELSE turn[u]]
  /\ UNCHANGED <<world, index, changes, ragCrashes>>

\* retrieve_file_rag, retrieve_user_chat_rag and the group's catch whatever a
\* refresh or a search raises; nothing found goes the same way.
Direct(r) == At(r, IF r.source = "file" THEN "list_direct" ELSE "direct", FALSE)

\* A statement on a database that was deleted fails.
Broken(t) ==
  /\ turn[t].pc \in {"select", "delete", "upsert", "stale", "prune", "store"}
  /\ ~database
  /\ Move(t, Direct(turn[t]))
  /\ UNCHANGED <<world, index, bounds>>

\* index_file_space_sync, its listing.
ListFiles(t) ==
  /\ turn[t].pc = "list"
  /\ database' = TRUE
  /\ Move(t, [turn[t] EXCEPT !.pc = "select", !.left = Listing])
  /\ UNCHANGED <<world, chunks, terms, bounds>>

\* The next file: one that has gone or is not indexed is passed over, MaxFiles ends
\* the refresh without the last deletion; the old chunks of the file are looked up.
SelectFile(t) ==
  LET r == turn[t] IN
  /\ r.pc = "select"
  /\ database
  /\ Move(t, IF r.left = {} THEN [r EXCEPT !.pc = "stale"]
             ELSE IF Cardinality(r.active) >= MaxFiles THEN At(r, "search", FALSE)
             ELSE IF ~Indexable(FileAt(r.left)) THEN [r EXCEPT !.left = Beyond(@)]
             ELSE [r EXCEPT !.pc = "delete", !.active = @ \cup {FileAt(r.left)}, !.seen = KeysOf(FileAt(r.left))])
  /\ UNCHANGED <<world, index, bounds>>

\* Mutant of DeleteFile: the chunks of the file are only overwritten.
DeleteFile_Keeps(t) ==
  /\ turn[t].pc = "delete"
  /\ database
  /\ Move(t, [turn[t] EXCEPT !.pc = "read"])
  /\ UNCHANGED <<world, index, bounds>>

DeleteFile(t) ==
  /\ turn[t].pc = "delete"
  /\ database
  /\ DeleteChunks(turn[t].seen, KeysOf(FileAt(turn[t].left)))
  /\ Move(t, [turn[t] EXCEPT !.pc = "read", !.seen = {}])
  /\ UNCHANGED <<world, bounds>>

\* A file that has gone by now raises, and ends the refresh.
ReadFile(t) ==
  LET r == turn[t] IN
  /\ r.pc = "read"
  /\ Move(t, IF FileAt(r.left) \in DOMAIN files THEN [r EXCEPT !.pc = "upsert", !.text = files[FileAt(r.left)]]
             ELSE Direct(r))
  /\ UNCHANGED <<world, index, bounds>>

UpsertFile(t) ==
  LET r == turn[t] IN
  /\ r.pc = "upsert"
  /\ database
  /\ UpsertChunks(ChunksOf("file", FileAt(r.left), r.text))
  /\ Move(t, [r EXCEPT !.pc = "select", !.left = Beyond(@), !.text = <<>>])
  /\ UNCHANGED <<world, bounds>>

\* delete_sources_not_in, in the same two halves.
SelectStale(t) ==
  /\ turn[t].pc = "stale"
  /\ database
  /\ Move(t, [turn[t] EXCEPT !.pc = "prune", !.seen = KeysNotOf(turn[t].active)])
  /\ UNCHANGED <<world, index, bounds>>

Prune(t) ==
  /\ turn[t].pc = "prune"
  /\ database
  /\ DeleteChunks(turn[t].seen, KeysNotOf(turn[t].active))
  /\ Move(t, At(turn[t], "search", turn[t].quiet))
  /\ UNCHANGED <<world, bounds>>

\* _refresh_chat_sync: the newest messages are read from one database, the chunks
\* written to another.  In a group, rows that the conversation does not show count
\* towards the limit and are then left out.
LoadChat(t) ==
  /\ turn[t].pc = "load"
  /\ database' = TRUE
  /\ Move(t, [turn[t] EXCEPT !.pc = "store", !.loaded = {i \in Newest(RefreshLimit) : Talk[i].shown}])
  /\ UNCHANGED <<world, chunks, terms, bounds>>

StoreChat(t) ==
  LET Piece(k) == Split(Talk[k[2]].text)[k[3]]
      new == [k \in UNION {ChunkKeys("chat", i, Talk[i].text) : i \in turn[t].loaded} |-> Piece(k)]
  IN  /\ turn[t].pc = "store"
      /\ database
      /\ UpsertChunks(new)
      /\ Move(t, At(turn[t], "search", turn[t].quiet))
      /\ UNCHANGED <<world, bounds>>

\* filter_current_message.
Visible(r, k) == r.source = "chat" => Talk[k[2]].id # r.current

\* search: what shares a term with the query, or else the newest pieces, which
\* may be similar enough and are so for a query without a term.  The message that
\* asks is taken out of the results last, and may have kept others out of them.
Search(t) ==
  LET r == turn[t]
      mine == {k \in DOMAIN chunks : k[1] = r.source}
      asked == Tokens(r.query)
      candidates == IF asked = {} THEN mine ELSE {k \in mine : \E w \in asked : <<w, k>> \in terms}
      hits == {k \in candidates : Visible(r, k)}
      similar == IF candidates = {} THEN {k \in mine : Visible(r, k)} ELSE {}
  IN  /\ r.pc = "search"
      /\ database' = TRUE
      /\ \/ hits \cup similar # {} /\ Move(t, Rest("hit"))
         \/ (hits = {} \/ hits # candidates) /\ Move(t, Direct(r))
      /\ UNCHANGED <<world, chunks, terms, bounds>>

\* search_file_space_sync: the files themselves, at most MaxScan of them.
ListDirect(t) ==
  /\ turn[t].pc = "list_direct"
  /\ Move(t, [turn[t] EXCEPT !.pc = "scan", !.left = Listing])
  /\ UNCHANGED <<world, index, bounds>>

\* Mutant of Scan: the search ends at the first file that does not match.
Scan_StopsEarly(t) ==
  LET r == turn[t]
      match == r.left # {} /\ r.query \subseteq ScannedWords(FileAt(r.left))
  IN  /\ r.pc = "scan"
      /\ Move(t, Rest(IF match THEN "hit" ELSE "miss"))
      /\ UNCHANGED <<world, index, bounds>>

Scan(t) ==
  LET r == turn[t]
      match == r.query \subseteq ScannedWords(FileAt(r.left))
  IN  /\ r.pc = "scan"
      /\ IF r.left = {} \/ r.scanned >= MaxScan
         THEN Move(t, Rest(IF r.found THEN "hit" ELSE "miss"))
         ELSE Move(t, [r EXCEPT !.left = Beyond(@), !.scanned = @ + 1, !.found = @ \/ match])
      /\ UNCHANGED <<world, index, bounds>>

\* search_user_chat_messages and search_group_messages: the newest messages, without
\* the one that asks.
SearchChatDirect(t) ==
  LET r == turn[t]
      found == {i \in Newest(SearchWindow) :
                  Talk[i].shown /\ r.query \subseteq SaidWords(i) /\ Talk[i].id # r.current}
  IN  /\ r.pc = "direct"
      /\ Move(t, Rest(IF found = {} THEN "miss" ELSE "hit"))
      /\ UNCHANGED <<world, index, bounds>>

-----------------------------------------------------------------------------
(* The others.                                                               *)

\* The retrievals in flight, once one of their sources has changed.
Disturbed(sources) ==
  [t \in Turns |-> IF Busy(t) THEN [turn[t] EXCEPT !.quiet = FALSE, !.steady = @ \ sources] ELSE turn[t]]

Change == changes < MaxChanges /\ changes' = changes + 1 /\ UNCHANGED <<retrievals, ragCrashes>>

WriteFile(f, text) ==
  /\ Change
  /\ files' = Over([g \in {f} |-> text], files)
  /\ turn' = Disturbed({f})
  /\ UNCHANGED <<told, dropped, index>>

RemoveFile(f) ==
  /\ Change
  /\ f \in DOMAIN files
  /\ files' = Minus(files, {f})
  /\ turn' = Disturbed({f})
  /\ UNCHANGED <<told, dropped, index>>

Tell ==
  /\ told < Len(Talk)
  /\ told' = told + 1
  /\ turn' = Disturbed({})
  /\ UNCHANGED <<files, dropped, index, bounds>>

\* delete_chat_space: messages.db and local_rag.db are in one directory.
DeleteChatDirectory ==
  /\ Change
  /\ Records # {}
  /\ dropped' = 1 .. told
  /\ database' = FALSE
  /\ chunks' = NoChunks
  /\ terms' = {}
  /\ turn' = Disturbed(1 .. told)
  /\ UNCHANGED <<files, told>>

RagCrash ==
  /\ ragCrashes < MaxRagCrashes
  /\ \E t \in Turns : Busy(t)
  /\ ragCrashes' = ragCrashes + 1
  /\ turn' = [t \in Turns |-> Rest("idle")]
  /\ UNCHANGED <<world, index, retrievals, changes>>

RagInit ==
  /\ files = InitialFiles
  /\ told = 1
  /\ dropped = {}
  /\ database = FALSE
  /\ chunks = NoChunks
  /\ terms = {}
  /\ turn = [t \in Turns |-> Rest("idle")]
  /\ retrievals = 0 /\ changes = 0 /\ ragCrashes = 0

Step(t) ==
  \/ Broken(t) \/ ListFiles(t) \/ SelectFile(t) \/ DeleteFile(t) \/ ReadFile(t) \/ UpsertFile(t)
  \/ SelectStale(t) \/ Prune(t) \/ LoadChat(t) \/ StoreChat(t) \/ Search(t)
  \/ ListDirect(t) \/ Scan(t) \/ SearchChatDirect(t)

RagNext ==
  \/ \E t \in Turns : Step(t)
  \/ \E t \in Turns, source \in {"file", "chat"}, query \in Queries :
       \E current \in {Talk[i].id : i \in 1 .. told} : Retrieve(t, source, query, current)
  \/ \E f \in ToSet(Files), text \in Contents : WriteFile(f, text)
  \/ \E f \in ToSet(Files) : RemoveFile(f)
  \/ Tell
  \/ DeleteChatDirectory
  \/ RagCrash

RagSpec == RagInit /\ [][RagNext]_ragVars

-----------------------------------------------------------------------------
(* Properties.                                                               *)

\* Whatever refreshes overlap, fail or die, and although the keys to delete are
\* read before the transaction that deletes them, a stored piece is found by no
\* word but its own (local_rag.py:130-233) and by all of these as long as they
\* are no more than MaxTerms, else by the longest (:691); terms may be left
\* without a piece, which no search sees.
TermsMatchChunks ==
  \A k \in DOMAIN chunks :
    LET own == OwnWords(k, chunks[k])
        found == {t[1] : t \in {u \in terms : u[2] = k}}
    IN  /\ found \subseteq own
        /\ Cardinality(own) <= MaxTerms => found = own
        /\ \A w \in found, v \in own \ found : Before(w, v)

\* A refresh that nothing disturbed, whatever earlier ones left behind, leaves
\* in the index exactly the texts there are, every word of them included: no
\* piece of a file that went away, grew too large or had a longer, older text
\* (local_rag.py:555).  Beyond MaxFiles files the code does not clean up, and
\* nothing is claimed.
QuietRefreshHeals ==
  \A t \in Turns : turn[t].pc = "search" /\ turn[t].quiet /\ turn[t].source = "file" =>
    /\ {k \in DOMAIN chunks : k[1] = "file"} = UNION {ChunkKeys("file", f, files[f]) : f \in IndexableFiles}
    /\ \A f \in IndexableFiles :
         UNION {Words(chunks[k]) : k \in ChunkKeys("file", f, files[f])} = Words(files[f])

\* Nothing found means nothing there, as far as the direct search looks: no file
\* that was there, and unchanged, from the first to the last step of the retrieval
\* has all the words asked for in its name or in a text of up to ScanSize, unless
\* it is beyond MaxScan files of the listing (knowledge.py:588, :613); and no
\* message that was there, and is among the SearchWindow newest ones at the end,
\* has them in its author or text, the message that asks aside (:391-421).  A
\* larger text and an older message can only be found in the index, so that a
\* failing refresh or search reports them missing.
AbsentWhenMissed ==
  \A t \in Turns : turn'[t].pc = "miss" /\ turn[t].pc # "miss" =>
    LET r == turn[t]
        Place(f) == CHOOSE i \in DOMAIN Files : Files[i] = f
    IN  IF r.source = "file"
        THEN \A f \in r.steady : r.query \subseteq ScannedWords(f) => Place(f) > MaxScan
        ELSE \A i \in r.steady \cap Newest(SearchWindow) :
               Talk[i].shown /\ r.query \subseteq SaidWords(i) => Talk[i].id = r.current
MissMeansAbsent == [][AbsentWhenMissed]_ragVars
=============================================================================
