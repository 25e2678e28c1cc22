------------------------------- MODULE CaseReads -------------------------------
(***************************************************************************)
(* The readers of the case tables (backend/app/cases/search.py,            *)
(* get_case_detail in backend/app/cases/service.py): a client that walks   *)
(* the list page by page with a keyset cursor, the counts above the list,  *)
(* and the detail page.  None takes a lock and each is several statements, *)
(* so the tables of CaseStore change between two of them.  Grouping        *)
(* transactions change them one at a time here.                            *)
(*                                                                         *)
(* Filters on the columns of a case's alerts and on closed_at are left out: *)
(* they are more conjuncts of the same WHERE.                              *)
(***************************************************************************)
EXTENDS CaseStore, FiniteSetsExt

CONSTANTS
    Id,        \* Id[c]: where the UUID of c stands among the others
    Filters,   \* the query strings considered: sets of records
    Limits,
    MaxLimit,  \* MAX_LIMIT
    HighRisk,  \* HIGH_RISK_THRESHOLD
    Anyone, Unassigned,  \* no filter on the assignee; assignee_id=unassigned
    MaxChanges \* bound: changes of the tables while a reader runs

NoCursor == [kind |-> "none", value |-> 0, id |-> 0]

Sorts == {"-risk_score", "-created_at", "oldest_alert"}

ASSUME ReadersAssumption ==
    /\ Cases \subseteq Nat \ {NoCase} /\ IsFiniteSet(Cases) /\ Seeds \subseteq [Cases -> Row]
    /\ Scores \subseteq 0..100 /\ Times \subseteq Nat
    /\ Id \in [Cases -> Int] /\ \A c, d \in Cases : Id[c] = Id[d] => c = d
    /\ Limits \subseteq Int /\ MaxLimit \in Nat \ {0}

VARIABLES
    pc,      \* what the reader does next
    query,   \* [filter, sort, limit, case]
    cursor,  \* next_cursor of the last page
    listed,  \* listed[c]: how often c is on the pages so far
    answer,  \* what the statements of a count or a detail have returned
    changes, \* how often the tables have changed
    opening, \* history: the table cases at the start of the behaviour
    steady,  \* history: cases that are in the result and have not moved in it
    touched  \* history: cases that entered or left the result since the first statement

reader == <<pc, query, cursor, listed, answer>>
vars == <<store, reader, changes, opening, steady, touched>>

-----------------------------------------------------------------------------
(* CaseFilters, _conditions. *)

\* q finds a case by the body of a note, retracted or not.
Found(f) == {c \in Cases :
    /\ Exists(c)
    /\ f.status # {} => row[c].status \in f.status
    /\ f.disposition # {} => row[c].disposition \in f.disposition
    /\ f.assignee = Unassigned => row[c].assignee = NoUser
    /\ f.assignee \in Users => row[c].assignee = f.assignee
    /\ c \in f.created
    /\ row[c].risk >= f.risk_min
    /\ f.q # {} => \E n \in f.q : note[n].on = c}

Key(sort, c) ==
    CASE sort = "-risk_score"   -> row[c].risk
      [] sort = "-created_at"   -> c
      [] sort = "oldest_alert"  -> row[c].oldest

\* _order_by: NULLs last when ascending.
Before(sort, c, d) ==
    LET k == Key(sort, c)
        l == Key(sort, d)
    IN  IF sort = "oldest_alert"
        THEN \/ k # l /\ l = NoTime
             \/ k # NoTime /\ k < l
             \/ k = l /\ Id[c] < Id[d]
        ELSE k > l \/ (k = l /\ Id[c] > Id[d])

\* Mutant: the page after the last case with a time has the other times only.
KeysetWithoutNulls(sort, cur, c) ==
    LET k == Key(sort, c)
    IN  IF sort = "oldest_alert"
        THEN k > cur.value \/ (k = cur.value /\ Id[c] > cur.id)
        ELSE k < cur.value \/ (k = cur.value /\ Id[c] < cur.id)

\* Mutant: the last case of a page is the first of the next.
KeysetNotStrict(sort, cur, c) ==
    IF sort = "oldest_alert" THEN Key(sort, c) = NoTime \/ Key(sort, c) >= cur.value
    ELSE Key(sort, c) <= cur.value

\* _keyset: what comes after the cursor.
Keyset(sort, cur, c) ==
    LET k == Key(sort, c)
    IN  IF sort = "oldest_alert"
        THEN IF cur.value = NoTime THEN k = NoTime /\ Id[c] > cur.id
             ELSE k > cur.value \/ k = NoTime \/ (k = cur.value /\ Id[c] > cur.id)
        ELSE k < cur.value \/ (k = cur.value /\ Id[c] < cur.id)

\* _encode_cursor: the value is JSON, so it shows what it is.
CursorAt(sort, c) ==
    [kind |-> IF sort = "-risk_score" THEN "int"
              ELSE IF Key(sort, c) = NoTime THEN "null" ELSE "time",
     value |-> Key(sort, c), id |-> Id[c]]

\* _decode_cursor: a time is a time, whichever column it is of.
Decodes(sort, cur) ==
    cur.kind \in CASE sort = "-risk_score"  -> {"int"}
                   [] sort = "-created_at"  -> {"time"}
                   [] sort = "oldest_alert" -> {"time", "null"}

Limit(limit) == Max({1, Min({limit, MaxLimit})})

-----------------------------------------------------------------------------
NoAnswer == [read |-> 0, case |-> NoRow, alerts |-> NoTime, notes |-> {}, timeline |-> {},
             total |-> 0, unassigned |-> 0, high_risk |-> 0, by_status |-> [s \in Status |-> 0]]

ReadersInit ==
    /\ Init
    /\ pc \in {"list", "stats", "detail"}
    /\ query \in [filter: Filters, sort: Sorts, limit: Limits, case: Cases]
    /\ pc # "list" => query.sort = "-risk_score" /\ query.limit = 1
    /\ pc # "detail" => query.case = 1
    /\ pc = "detail" => query.filter = CHOOSE f \in Filters : TRUE
    /\ cursor = NoCursor /\ listed = [c \in Cases |-> 0] /\ answer = NoAnswer
    /\ changes = 0 /\ opening = row /\ steady = {} /\ touched = {}

\* ORDER BY and LIMIT.
Page(sort, limit, result) ==
    {c \in result : Cardinality({d \in result : Before(sort, d, c)}) < limit}

LastOf(sort, page) == CHOOSE c \in page : \A d \in page \ {c} : Before(sort, d, c)

\* GET /cases: one SELECT of limit + 1 rows; the one too many says that there are more.
FetchPage ==
    LET sort == query.sort
        result == {c \in Found(query.filter) : cursor # NoCursor => Keyset(sort, cursor, c)}
        page == Page(sort, Limit(query.limit), result)
        more == page # result
    IN  /\ pc \in {"list", "resorted"}
        /\ cursor # NoCursor => Decodes(sort, cursor)
        /\ listed' = [c \in Cases |-> listed[c] + (IF c \in page THEN 1 ELSE 0)]
        /\ cursor' = IF more THEN CursorAt(sort, LastOf(sort, page)) ELSE NoCursor
        /\ pc' = IF more THEN pc ELSE IF pc = "list" THEN "listed" ELSE "relisted"
        /\ steady' = IF cursor = NoCursor THEN Found(query.filter) ELSE steady
        /\ UNCHANGED <<store, query, answer, changes, opening, touched>>

InvalidCursor ==
    /\ pc = "resorted" /\ cursor # NoCursor /\ ~Decodes(query.sort, cursor)
    /\ pc' = "bad_request"
    /\ UNCHANGED <<store, query, cursor, listed, answer, changes, opening, steady, touched>>

\* The client keeps the cursor when it changes the order.
Resort(sort) ==
    /\ pc = "list" /\ cursor # NoCursor /\ sort # query.sort
    /\ pc' = "resorted"
    /\ query' = [query EXCEPT !.sort = sort]
    /\ steady' = {}
    /\ UNCHANGED <<store, cursor, listed, answer, changes, opening, touched>>

-----------------------------------------------------------------------------
(* GET /cases/stats: case_stats has two statements. *)

CountAll ==
    LET found == Found(query.filter)
    IN  /\ pc = "stats"
        /\ answer' = [answer EXCEPT
              !.total = Cardinality(found),
              !.unassigned = Cardinality({c \in found : row[c].assignee = NoUser}),
              !.high_risk = Cardinality({c \in found : row[c].risk >= HighRisk})]
        /\ pc' = "by_status"
        /\ touched' = {}
        /\ UNCHANGED <<store, query, cursor, listed, changes, opening, steady>>

\* Mutant: the second statement without the filters.
CountedUnfiltered(filter) == {c \in Cases : Exists(c)}

Counted(filter) == Found(filter)

CountByStatus ==
    /\ pc = "by_status"
    /\ answer' = [answer EXCEPT !.by_status = [s \in Status |->
          Cardinality({c \in Counted(query.filter) : row[c].status = s})]]
    /\ pc' = "counted"
    /\ UNCHANGED <<store, query, cursor, listed, changes, opening, steady, touched>>

-----------------------------------------------------------------------------
(* GET /cases/{id}: get_case_detail has four. *)

\* Mutant: the timeline is read before what it is to explain.
TimelineFirst == <<"case", "timeline", "alerts", "notes">>

Reads == <<"case", "alerts", "notes", "timeline">>

EventsOf(c) == {trail[c][i] : i \in DOMAIN trail[c]}

OnPage(c, part) ==
    CASE part = "case"     -> row[c]
      [] part = "alerts"   -> row[c].oldest
      [] part = "notes"    -> {<<n, note[n]>> : n \in {m \in Notes : note[m].on = c}}
      [] part = "timeline" -> EventsOf(c)

ReadDetail ==
    LET part == Reads[answer.read + 1]
    IN  /\ pc = "detail"
        /\ answer' = [answer EXCEPT !.read = @ + 1, ![part] = OnPage(query.case, part)]
        /\ pc' = IF ~Exists(query.case) THEN "not_found"
                 ELSE IF answer.read + 1 = Len(Reads) THEN "shown" ELSE pc
        /\ UNCHANGED <<store, query, cursor, listed, changes, opening, steady, touched>>

-----------------------------------------------------------------------------
\* An analyst's request, or a grouping transaction that nothing overtakes.
Write ==
    \/ Analysts
    \/ \E c \in Cases, score \in Scores, time \in Times :
          \/ Create(c, score, time)
          \/ Attach(c, row[c].version + 1, score, time) /\ IsOpen(row[c])
          \/ \E s \in Cases :
                /\ IsOpen(row[c]) /\ IsOpen(row[s])
                /\ Merge(c, s, row[c].status, {n \in Notes : note[n].on = c},
                         row[s].version + 1, score, time)

Running == pc \in {"list", "resorted", "stats", "by_status", "detail"}

Change ==
    /\ Running /\ changes < MaxChanges
    /\ Write
    /\ UNCHANGED <<reader, opening>>
    /\ changes' = changes + 1
    /\ steady' = {c \in steady : c \in Found(query.filter)'
                                 /\ Key(query.sort, c)' = Key(query.sort, c)}
    /\ touched' = touched \cup {c \in Cases :
          (c \in Found(query.filter)) # (c \in Found(query.filter)')}

Read == FetchPage \/ InvalidCursor \/ CountAll \/ CountByStatus \/ ReadDetail

ReadersNext == Read \/ Change \/ \E sort \in Sorts : Resort(sort)

ReadersSpec == ReadersInit /\ [][ReadersNext]_vars

-----------------------------------------------------------------------------
\* The docstring of search.py: "the next page is (col, id) < (v, id)".  Whatever changes
\* between two pages, a case that was in the result at the first page, has been in it
\* since and has kept its place in the order is on the pages exactly once.
SteadyListedOnce ==
    pc = "listed" => \A c \in steady : listed[c] = 1

\* A case is on two pages of one walk only when its oldest alert has gone to another
\* case: a risk never falls, a created_at never changes, and an oldest_alert only gets
\* earlier until the case is merged and its place is at the end, with the NULLs.
TwiceOnlyWhenMerged ==
    pc \in {"list", "listed"} =>
        \A c \in Cases : listed[c] > 1 => query.sort = "oldest_alert" /\ row[c].status = "Merged"

SumOf(n) == n["Open"] + n["In Progress"] + n["Pending Info"] + n["Closed"] + n["Merged"]

\* The cards count what the strip counts, but for the cases that entered or left the
\* result between the two statements.
CountsAgree ==
    pc = "counted" =>
        LET sum == SumOf(answer.by_status)
        IN  /\ sum - answer.total <= Cardinality(touched)
            /\ answer.total - sum <= Cardinality(touched)

\* What the page of a case shows, its timeline explains: the status is the one the case
\* began with or one an event tells of, and a note or a retraction that is not in
\* another case's stream has its event.
DetailIsExplained ==
    pc = "shown" =>
        LET c == query.case
            told == answer.timeline
            elsewhere(e) == \E d \in Cases \ {c} : e \in EventsOf(d)
            began == IF opening[c].status = "None" THEN "Open" ELSE opening[c].status
        IN  /\ \/ answer.case.status = began
               \/ \E e \in told : /\ e.action \in {"case.transitioned", "case.merged"}
                                  /\ e.after[1] = answer.case.status
            /\ \A shown \in answer.notes :
                  /\ NoteEvent(shown[1]) \in told \/ elsewhere(NoteEvent(shown[1]))
                  /\ shown[2].retracted =>
                        RetractEvent(shown[1]) \in told \/ elsewhere(RetractEvent(shown[1]))

=============================================================================
