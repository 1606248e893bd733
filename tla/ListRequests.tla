---------------------------- MODULE ListRequests ----------------------------
(***************************************************************************)
(* The lists of a review server on the page of that plugin: ReviewsList-   *)
(* Model, which shows the reviews of one repository, and Repositories-     *)
(* Model (src/src/plugins/reviewboard/quick), each with the requests of    *)
(* reviewboardjobs.cpp that fetch its list, page by page.  A change of the *)
(* settings makes a new request and leaves the earlier ones in progress.   *)
(***************************************************************************)
EXTENDS Naturals, Sequences, FiniteSets, SequencesExt

CONSTANTS
  Servers,      \* what a request asks: a server, a user, a status
  Repositories,
  Listing,      \* the entries of each server, with id and repository
  MaxPage,      \* the entries a server sends at once
  MaxRefresh    \* a bound on the changes of the settings

Unset == ""   \* a setting that the page has not made, or has made empty

Entry == [id : Nat, repository : Repositories]

ASSUME ListingAssumption ==
  Listing \in [Servers -> Seq(Entry)] /\ MaxPage \in Nat /\ MaxRefresh \in Nat

VARIABLES
  list,         \* which of the two models this is
  stingy,       \* the server may send pages with nothing
  server, repository,  \* the settings, at first Unset
  jobs,         \* the requests in progress, with what each has got
  rows,         \* m_values: the ids shown
  refreshes,    \* the calls of refresh() since the settings were empty
  shown,        \* history: which of them the rows are the answer to
  lost          \* history: that answer has lost a page to an error

listVars == <<list, stingy, server, repository, jobs, rows, refreshes, shown,
              lost>>

Job == [nr : 1 .. MaxRefresh, server : Servers, got : Seq(Entry), turn : BOOLEAN]

Ids(entries) == {e.id : e \in ToSet(entries)}

ListTypeOK ==
  /\ list \in {"reviews", "repositories"} /\ stingy \in BOOLEAN
  /\ server \in Servers \cup {Unset} /\ repository \in Repositories \cup {Unset}
  /\ jobs \subseteq Job
  /\ \A j \in jobs : j.nr <= refreshes /\ IsPrefix(j.got, Listing[j.server])
  /\ rows \subseteq UNION {Ids(Listing[s]) : s \in Servers}
  /\ refreshes \in 0 .. MaxRefresh /\ shown \in 0 .. refreshes
  /\ lost \in BOOLEAN

ListInit ==
  /\ list \in {"reviews", "repositories"} /\ stingy \in BOOLEAN
  /\ server = Unset /\ repository = Unset /\ jobs = {} /\ rows = {}
  /\ refreshes = 0 /\ shown = 0 /\ lost = FALSE

(* A request for the next page, which "turn" tells from the one before.    *)
AskMore(j, got) ==
  /\ jobs' = (jobs \ {j}) \cup {[j EXCEPT !.got = got, !.turn = ~ @]}
  /\ UNCHANGED <<rows, shown, lost>>

(* Fault: the rows stay when nothing is asked.                             *)
RefreshList_Keep ==
  /\ refreshes < MaxRefresh /\ refreshes' = refreshes + 1
  /\ IF server' # Unset /\ (list = "reviews" => repository' # Unset)
       THEN /\ jobs' = jobs \cup
                        {[nr |-> refreshes', server |-> server', got |-> <<>>,
                          turn |-> FALSE]}
            /\ UNCHANGED <<rows, shown, lost>>
       ELSE /\ shown' = refreshes' /\ lost' = FALSE
            /\ UNCHANGED <<rows, jobs>>

(* refresh(): the rows stay until the answer, unless nothing is asked.     *)
Asks(s, r) == s # Unset /\ (list = "reviews" => r # Unset)
RefreshList ==
  /\ refreshes < MaxRefresh /\ refreshes' = refreshes + 1
  /\ IF Asks(server', repository')
       THEN /\ jobs' = jobs \cup
                        {[nr |-> refreshes', server |-> server', got |-> <<>>,
                          turn |-> FALSE]}
            /\ UNCHANGED <<rows, shown, lost>>
       ELSE /\ rows' = {} /\ shown' = refreshes' /\ lost' = FALSE
            /\ UNCHANGED jobs

SetServer(s) ==
  /\ s # server /\ server' = s /\ UNCHANGED <<repository, list, stingy>>
  /\ RefreshList

SetRepository(r) ==
  /\ list = "reviews" /\ r # repository /\ repository' = r
  /\ UNCHANGED <<server, list, stingy>> /\ RefreshList

(* What receivedReviews() keeps of a list: the reviews of the repository   *)
(* of that moment.  receivedProjects() keeps and sorts all.                *)
Kept(entries, r) ==
  IF list = "repositories" THEN Ids(entries)
  ELSE {e.id : e \in {x \in ToSet(entries) : x.repository = r}}

Received(j, entries, some) ==
  /\ rows' = Kept(entries, repository) /\ shown' = j.nr /\ lost' = some
  /\ jobs' = jobs \ {j}

(* Fault: the first page is taken for the list.                            *)
PageReceived_First(j, k) ==
  Received(j, j.got \o SubSeq(Listing[j.server], 1, k), FALSE)

(* Fault: every request starts at the first entry.                         *)
PageReceived_Start(j, k) ==
  LET got == j.got \o SubSeq(Listing[j.server], 1, k)
  IN IF Len(got) < Len(Listing[j.server])
       THEN AskMore(j, got)
       ELSE Received(j, got, FALSE)

(* Fault: a list that is complete is asked for more.                       *)
PageReceived_More(j, k) ==
  LET got == j.got \o SubSeq(Listing[j.server], Len(j.got) + 1, Len(j.got) + k)
  IN AskMore(j, got)

(* done() of a page with k entries: as long as the server announces more   *)
(* than have come, the next request starts where this one has ended.       *)
PageReceived(j, k) ==
  LET got == j.got \o SubSeq(Listing[j.server], Len(j.got) + 1, Len(j.got) + k)
  IN IF Len(got) < Len(Listing[j.server])
       THEN AskMore(j, got)
       ELSE Received(j, got, FALSE)

(* done() after an error: the list of reviews is given up and the rows are *)
(* cleared; that of repositories looks complete, for an answer that cannot *)
(* be used announces no more entries.                                      *)
PageLost(j) ==
  IF list = "reviews"
    THEN rows' = {} /\ shown' = j.nr /\ lost' = TRUE /\ jobs' = jobs \ {j}
    ELSE Received(j, j.got, TRUE)

Left(j) == Len(Listing[j.server]) - Len(j.got)
PageSizes(j) == {k \in 0 .. MaxPage : k <= Left(j)
                                      /\ (k = 0 => stingy \/ Left(j) = 0)}

Page(j) ==
  /\ (\E k \in PageSizes(j) : PageReceived(j, k)) \/ PageLost(j)
  /\ UNCHANGED <<list, stingy, server, repository, refreshes>>

AnyPage == \E j \in jobs : Page(j)

ListNext ==
  \/ AnyPage
  \/ \E s \in Servers \cup {Unset} : SetServer(s)
  \/ \E r \in Repositories \cup {Unset} : SetRepository(r)

---------------------------------------------------------------------------

(* The rows are one whole list, of a server and a repository that were     *)
(* asked for at some time: never the pages of two requests, never some of  *)
(* the pages, unless a page was lost.                                      *)
ListWhole ==
  lost \/ rows = {} \/ \E s \in Servers, r \in Repositories :
                         rows = Kept(Listing[s], r)

(* With no request in progress, the rows are what the settings ask for,    *)
(* unless an earlier request was answered after the last one or the answer *)
(* was lost.                                                               *)
ListCurrent ==
  jobs = {} /\ shown = refreshes /\ ~ lost =>
    rows = IF Asks(server, repository) THEN Kept(Listing[server], repository)
           ELSE {}

(* What these rest on: the last request asks what the settings ask for,    *)
(* and the rows of the last answer are what it got.                        *)
LatestAsks ==
  /\ \A j \in jobs : j.nr = refreshes => j.server = server /\ Asks(server, repository)
  /\ shown = refreshes /\ ~ lost =>
       rows = IF Asks(server, repository) THEN Kept(Listing[server], repository)
              ELSE {}

ListInv == ListTypeOK /\ ListWhole /\ LatestAsks

(* Every list comes to its end, from a server whose pages have entries.    *)
ListEnds == jobs # {} /\ ~ stingy ~> jobs = {}
=============================================================================
