---------------------------- MODULE ResultPages ----------------------------
(***************************************************************************)
(* Results that are read in pages: project_analysis searches files, asks   *)
(* for symbols, references or definitions, and symbol_explore searches the *)
(* symbols of all languages.  Nothing is kept between two calls: each call *)
(* searches again and shows what lies between offset and offset + limit,   *)
(* and the user goes on at the offset that the text names, or the one that *)
(* follows from the number of results it says are left.                    *)
(*                                                                         *)
(* The files and what the servers know do not change while a user reads;   *)
(* what may differ from call to call is what fails, and which language     *)
(* answers first.                                                          *)
(***************************************************************************)
EXTENDS Integers, Sequences, SequencesExt

CONSTANTS
  Hit,          \* what can be found
  PageCases,    \* searches: the tool and what each source of results holds
  PageLimits    \* the parameter limit

PageKinds == {"text_search", "workspace_symbols", "document_symbols",
              "references", "definitions", "symbol_explore"}

ASSUME PageConstants ==
  /\ \A c \in PageCases :
       /\ c.kind \in PageKinds /\ c.lists \in Seq(Seq(Hit)) /\ Len(c.lists) > 0
       /\ c.kind = "definitions" => Len(c.lists) = 2
  /\ PageLimits \subseteq Nat

VARIABLES
  pgCase, pgLimit,
  pgOffset,     \* the parameter offset of the call
  pgStage,      \* "asked", "scanning", "listed", "answered", "end"
  pgSources,    \* the sources that have answered, in the order they did
  pgSeen,       \* seenMatches
  pgShown,      \* returnedHits, the results of this page
  pgMore,       \* the text says that more results follow
  pgGiven,      \* history: the results of all pages
  pgOrders,     \* history: the orders in which the sources have answered
  pgCut         \* history: a source failed or was not searched to its end

pageVars == <<pgCase, pgLimit, pgOffset, pgStage, pgSources, pgSeen, pgShown,
              pgMore, pgGiven, pgOrders, pgCut>>

Least(m, n) == IF m < n THEN m ELSE n

PageInit ==
  /\ pgCase \in PageCases /\ pgLimit \in PageLimits
  /\ pgOffset = 0 /\ pgStage = "asked"
  /\ pgSources = << >> /\ pgSeen = 0 /\ pgShown = << >> /\ pgMore = FALSE
  /\ pgGiven = << >> /\ pgOrders = {} /\ pgCut = FALSE

-----------------------------------------------------------------------------
(* text_search: handleTextSearch walks the files, in a fixed order. *)

\* The number of matches at which the walk stops; 0 for none.
Need == IF pgLimit = 0 THEN pgOffset ELSE pgOffset + pgLimit

\* Mutant: the match at the offset is shown again.
OnPageAgain(n) == n >= pgOffset /\ pgLimit > 0

\* The n-th match belongs to this page.
OnPage(n) == n > pgOffset /\ pgLimit > 0

StartWalk ==
  /\ pgStage = "asked" /\ pgCase.kind = "text_search"
  /\ pgStage' = "scanning"
  /\ pgSeen' = 0 /\ pgShown' = << >> /\ pgSources' = << >> /\ pgMore' = FALSE
  /\ UNCHANGED <<pgCase, pgLimit, pgOffset, pgGiven, pgOrders, pgCut>>

\* The matches of a file up to the one that ends the walk, and those among n
\* matches that come before the page.
Looked(file) ==
  IF Need > 0 THEN Least(Len(file), Need - pgSeen) ELSE Len(file)

Skipped(n) == Cardinality({i \in 1 .. n : ~OnPage(pgSeen + i)})

WalkFile ==
  LET file   == pgCase.lists[Len(pgSources) + 1]
      looked == Looked(file)
  IN  /\ pgStage = "scanning" /\ ~pgMore
      /\ Len(pgSources) < Len(pgCase.lists)
      /\ pgSources' = Append(pgSources, Len(pgSources) + 1)
      /\ pgSeen' = pgSeen + looked
      /\ pgShown' = pgShown \o SubSeq(file, Skipped(looked) + 1, looked)
      /\ pgMore' = (Need > 0 /\ pgSeen' = Need)
      /\ UNCHANGED <<pgCase, pgLimit, pgOffset, pgStage, pgGiven, pgOrders,
                     pgCut>>

\* A file that cannot be read, or has grown too big, is passed over.
PassOver ==
  /\ pgStage = "scanning" /\ ~pgMore
  /\ Len(pgSources) < Len(pgCase.lists)
  /\ pgSources' = Append(pgSources, Len(pgSources) + 1) /\ pgCut' = TRUE
  /\ UNCHANGED <<pgCase, pgLimit, pgOffset, pgStage, pgSeen, pgShown, pgMore,
                 pgGiven, pgOrders>>

\* The walk is over, stopped, or cancelled: the text does not tell the last
\* from the first.
WalkEnds ==
  /\ pgStage = "scanning"
  /\ pgStage' = "answered"
  /\ pgCut' = (pgCut \/ (~pgMore /\ Len(pgSources) < Len(pgCase.lists)))
  /\ pgGiven' = pgGiven \o pgShown
  /\ pgMore' = (pgMore /\ pgShown # << >>)
  /\ UNCHANGED <<pgCase, pgLimit, pgOffset, pgSources, pgSeen, pgShown, pgOrders>>

-----------------------------------------------------------------------------
(* The other searches ask servers. *)

\* The sources that are asked at once: all languages, or one client.
AskedAtOnce ==
  IF pgCase.kind \in {"references", "symbol_explore"}
  THEN DOMAIN pgCase.lists ELSE {1}

\* Each one answers or fails, which is logged, and the results are put
\* together in the order in which they came.
SourcesAnswer ==
  /\ pgStage = "asked" /\ pgCase.kind # "text_search"
  /\ pgSources' \in SetToAllKPermutations(AskedAtOnce)
  /\ pgCut' = (pgCut \/ ToSet(pgSources') # AskedAtOnce)
  /\ pgOrders' = pgOrders \cup {pgSources'}
  /\ pgStage' = "listed"
  /\ UNCHANGED <<pgCase, pgLimit, pgOffset, pgSeen, pgShown, pgMore, pgGiven>>

\* The definitions of the one symbol that was found; several symbols are
\* listed themselves.
DefinitionsFound ==
  IF Len(pgCase.lists[1]) = 1 THEN pgCase.lists[2] ELSE pgCase.lists[1]

\* What the pages are cut from.  The references are those of the first symbol
\* of the language that answered first.
Listed ==
  CASE pgCase.kind = "references"  ->
         IF pgSources = << >> THEN << >> ELSE pgCase.lists[pgSources[1]]
    [] pgCase.kind = "definitions" ->
         IF pgSources = << >> THEN << >> ELSE DefinitionsFound
    [] OTHER -> FlattenSeq([i \in DOMAIN pgSources |-> pgCase.lists[pgSources[i]]])

\* definitions, and symbol_explore with three results or fewer, show them all.
IsWhole ==
  \/ pgCase.kind = "definitions"
  \/ pgCase.kind = "symbol_explore" /\ Len(Listed) <= 3

PageEnd == Least(pgOffset + pgLimit, Len(Listed))

\* ApplyPagination, and the same by hand in the other handlers.  A page of no
\* results says nothing of more in workspace_symbols and symbol_explore.
CutPage ==
  /\ pgStage = "listed"
  /\ \/ /\ IsWhole
        /\ pgShown' = Listed /\ pgMore' = FALSE
     \/ /\ ~IsWhole /\ pgOffset >= Len(Listed)
        /\ pgShown' = << >> /\ pgMore' = FALSE
     \/ /\ ~IsWhole /\ pgOffset < Len(Listed)
        /\ pgShown' = SubSeq(Listed, pgOffset + 1, PageEnd)
        /\ pgMore' = /\ PageEnd < Len(Listed)
                     /\ \/ pgCase.kind \in {"document_symbols", "references"}
                        \/ pgLimit > 0
  /\ pgGiven' = pgGiven \o pgShown'
  /\ pgStage' = "answered"
  /\ UNCHANGED <<pgCase, pgLimit, pgOffset, pgSources, pgSeen, pgOrders, pgCut>>

-----------------------------------------------------------------------------
(* The user. *)

TurnPage ==
  /\ pgStage = "answered"
  /\ IF pgMore
     THEN pgStage' = "asked" /\ pgOffset' = pgOffset + Len(pgShown)
     ELSE pgStage' = "end" /\ UNCHANGED pgOffset
  /\ UNCHANGED <<pgCase, pgLimit, pgSources, pgSeen, pgShown, pgMore, pgGiven,
                 pgOrders, pgCut>>

PageNext ==
  StartWalk \/ WalkFile \/ PassOver \/ WalkEnds \/ SourcesAnswer \/ CutPage
    \/ TurnPage

-----------------------------------------------------------------------------
(* Properties. *)

PageTypeOK ==
  /\ pgCase \in PageCases /\ pgLimit \in PageLimits /\ pgOffset \in Nat
  /\ pgStage \in {"asked", "scanning", "listed", "answered", "end"}
  /\ ToSet(pgSources) \subseteq DOMAIN pgCase.lists
  /\ pgSeen \in Nat /\ pgMore \in BOOLEAN /\ pgCut \in BOOLEAN
  /\ Len(pgShown) <= Len(pgGiven) \/ pgStage \in {"scanning", "listed"}

\* All results of a search, in their order.
AllResults ==
  CASE pgCase.kind = "text_search" -> FlattenSeq(pgCase.lists)
    [] pgCase.kind \in {"workspace_symbols", "document_symbols"} -> pgCase.lists[1]
    [] pgCase.kind = "definitions" ->
         IF Len(pgCase.lists[1]) = 1 THEN pgCase.lists[2] ELSE pgCase.lists[1]
    [] OTHER -> Listed

\* project_analysis.go, symbol_explore.go, ApplyPagination: a user who reads
\* from the beginning to the page that does not tell of more has been given
\* every result once, in the order of the search, provided that nothing was
\* passed over or failed on the way and that the languages have answered in
\* the same order each time.
PagesSound ==
  pgStage = "end" /\ ~pgCut /\ pgLimit > 0 /\ Cardinality(pgOrders) <= 1 =>
    pgGiven = AllResults

\* The servers are asked, and may hang.
PageMayHang == pgStage = "asked" /\ pgCase.kind # "text_search"

\* With a limit of one or more the pages come to an end, or a server hangs.
PagesEnded == pgLimit > 0 => pgStage = "end" \/ PageMayHang

=============================================================================
