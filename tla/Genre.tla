------------------------------- MODULE Genre -------------------------------
(***************************************************************************)
(* The genre of one ISBN on the members' books: what a registration takes  *)
(* from the client, the National Library, the other members' books and the *)
(* AI agent, in that order, and what an update makes of it.  A label is a  *)
(* genre with its subject; that an update may take the subject away and    *)
(* leave the genre is not a change of the label here.                      *)
(***************************************************************************)
EXTENDS FiniteSets

CONSTANTS
  Owners,        \* the members
  Labels,        \* the genres
  Unclassified,  \* GenreType.NONE
  GenreRequests  \* the requests that can be in progress at the same time

ASSUME GenreAssumption == Owners # {} /\ Unclassified \notin Labels

VARIABLES
  copy,    \* each member's live book with the ISBN, or NoCopy
  genreq   \* each request

genreVars == <<copy, genreq>>

AnyLabel == Labels \cup {Unclassified}

\* "KDC" stands for the sources that nothing tells apart: KDC, DDC, FALLBACK, KDC_FALLBACK.
GenreSource == {"KDC", "LLM", "USER"}

\* What a request may say of the genre, after its validators.
CreateLibraryBookRequest == [label : AnyLabel, source : GenreSource, kdc : BOOLEAN]
UpdateLibraryBookRequest == [label : AnyLabel, source : GenreSource]

Catalogue == "catalogue"

\* A genre with its source; history: the member who chose it, if one did, and if an update
\* has ever stated a source for it without choosing it.
Chosen(label, source, by) == [label |-> label, source |-> source, by |-> by, restated |-> FALSE]

Genred == [label : AnyLabel, source : GenreSource, by : Owners \cup {Catalogue}, restated : BOOLEAN]

NoCopy == Chosen(Unclassified, "none", Catalogue)

GenreIdle == [pc |-> "idle", member |-> CHOOSE m \in Owners : TRUE, loaded |-> NoCopy, final |-> NoCopy]

GenreInit ==
  /\ copy = [m \in Owners |-> NoCopy]
  /\ genreq = [r \in GenreRequests |-> GenreIdle]

Goto(r, pc, final) == genreq' = [genreq EXCEPT ![r].pc = pc, ![r].final = final]

-----------------------------------------------------------------------------
\* create_book, up to the classification.  Without a kdc the National Library is asked.
BeginRegistration(r, m) ==
  /\ genreq[r].pc = "idle" /\ copy[m] = NoCopy
  /\ \E req \in CreateLibraryBookRequest :
       genreq' = [genreq EXCEPT ![r] =
         [GenreIdle EXCEPT
            !.pc = IF req.source = "USER" THEN "insert" ELSE IF req.kdc THEN "cache" ELSE "library",
            !.member = m,
            !.final = Chosen(req.label, req.source, IF req.source = "USER" THEN m ELSE Catalogue)]]
  /\ UNCHANGED copy

\* lookup_by_isbn: a genre it has counts only if the client has none; a failure is ignored.
LibraryAnswers(r) ==
  LET final == genreq[r].final
  IN  /\ genreq[r].pc = "library"
      /\ \/ Goto(r, "cache", final)
         \/ \E label \in AnyLabel :
              /\ final.label = Unclassified
              /\ Goto(r, "cache", Chosen(label, "KDC", Catalogue))
      /\ UNCHANGED copy

\* Mutant of Cached: the books whose genre a member has chosen are not left out.
CachedAll == {m \in Owners : copy[m] # NoCopy}

\* cache_stmt
Cached == {m \in Owners : copy[m] # NoCopy /\ copy[m].source # "USER"}

\* The newest of those with an LLM's genre, or else of all; any of them stands for it.
BestCached ==
  LET llm == {m \in Cached : copy[m].source = "LLM"}
  IN  IF llm # {} THEN llm ELSE Cached

UsesCached(m, final) ==
  /\ copy[m].label # Unclassified
  /\ copy[m].source = "LLM" \/ final.label = Unclassified

ReuseCached(r) ==
  /\ genreq[r].pc = "cache"
  /\ \E m \in BestCached :
       /\ UsesCached(m, genreq[r].final)
       /\ Goto(r, "insert", copy[m])
  /\ UNCHANGED copy

NothingCached(r) ==
  /\ genreq[r].pc = "cache"
  /\ BestCached = {} \/ \E m \in BestCached : ~ UsesCached(m, genreq[r].final)
  /\ Goto(r, "agent", genreq[r].final)
  /\ UNCHANGED copy

\* classify_genre: an LLM's genre replaces any, the fallback's only NONE, but not its source.
AgentAnswers(r) ==
  LET final == genreq[r].final
  IN  /\ genreq[r].pc = "agent"
      /\ \/ Goto(r, "insert", final)
         \/ \E label \in Labels : Goto(r, "insert", Chosen(label, "LLM", Catalogue))
         \/ \E label \in Labels : Goto(r, "insert", Chosen(
              IF final.label = Unclassified THEN label ELSE final.label, "KDC", Catalogue))
      /\ UNCHANGED copy

\* The INSERT; the unique index lets one of two through.
InsertCopy(r) ==
  LET q == genreq[r]
  IN  /\ q.pc = "insert"
      /\ copy' = IF copy[q.member] = NoCopy THEN [copy EXCEPT ![q.member] = q.final] ELSE copy
      /\ genreq' = [genreq EXCEPT ![r] = GenreIdle]

\* update_book: the row is loaded, and the body compared with it.  A change of the genre or
\* the subject makes the source USER; without one, the source that the body names is taken.
BeginUpdateGenre(r, m) ==
  /\ genreq[r].pc = "idle" /\ copy[m] # NoCopy
  /\ \E req \in UpdateLibraryBookRequest :
       genreq' = [genreq EXCEPT ![r] =
         [pc |-> "update", member |-> m, loaded |-> copy[m],
          final |-> IF req.label # copy[m].label THEN Chosen(req.label, "USER", m)
                    ELSE [copy[m] EXCEPT !.source = req.source]]]
  /\ UNCHANGED copy

\* The UPDATE writes the columns that differ from what was loaded.
CommitUpdateGenre(r) ==
  LET q == genreq[r]
      chose == q.final.label # q.loaded.label
      column(new, old, now) == IF new # old THEN new ELSE now
  IN  /\ q.pc = "update"
      /\ copy' = [copy EXCEPT ![q.member] =
           [label    |-> column(q.final.label, q.loaded.label, @.label),
            source   |-> column(q.final.source, q.loaded.source, @.source),
            by       |-> IF chose THEN q.member ELSE @.by,
            restated |-> @.restated \/ (~ chose /\ q.final.source # q.loaded.source)]]
      /\ genreq' = [genreq EXCEPT ![r] = GenreIdle]

\* delete_book.  An update that is still to come finds a row that nobody reads any more.
DeleteCopy(m) ==
  /\ copy[m] # NoCopy
  /\ copy' = [copy EXCEPT ![m] = NoCopy]
  /\ genreq' = [r \in GenreRequests |->
       IF genreq[r].pc = "update" /\ genreq[r].member = m THEN GenreIdle ELSE genreq[r]]

\* The client leaves, or the process dies, before the commit.
GenreDies(r) ==
  /\ genreq[r].pc # "idle"
  /\ genreq' = [genreq EXCEPT ![r] = GenreIdle]
  /\ UNCHANGED copy

GenreNext ==
  \/ \E m \in Owners : DeleteCopy(m)
  \/ \E r \in GenreRequests :
       \/ \E m \in Owners : BeginRegistration(r, m) \/ BeginUpdateGenre(r, m)
       \/ LibraryAnswers(r) \/ ReuseCached(r) \/ NothingCached(r) \/ AgentAnswers(r)
       \/ InsertCopy(r) \/ CommitUpdateGenre(r) \/ GenreDies(r)

GenreSpec == GenreInit /\ [][GenreNext]_genreVars

-----------------------------------------------------------------------------
GenreTypeOK ==
  /\ copy \in [Owners -> Genred \cup {NoCopy}]
  /\ genreq \in [GenreRequests ->
       [pc : {"idle", "library", "cache", "agent", "insert", "update"}, member : Owners,
        loaded : Genred \cup {NoCopy}, final : Genred \cup {NoCopy}]]

\* What a member has chosen does not get to another member's book through the search for
\* the same ISBN, unless an update has stated another source for a genre it left as it was.
ChoiceStaysPrivate ==
  \A m \in Owners : copy[m].by = Catalogue \/ copy[m].by = m \/ copy[m].restated

=============================================================================
