----------------------------- MODULE CatalogBrowse -----------------------------
(***************************************************************************)
(* Asking the catalog: the works of a filter in pages, the counts beside   *)
(* them, the calendar, and the text search, whose filter and whose works   *)
(* come from two stores.                                                   *)
(*                                                                         *)
(* Source: dla-application/src/catalog.rs and search.rs,                   *)
(* dla-sqlite/src/catalog.rs (the SQL of browse and context),              *)
(* dla-search-tantivy/src/lib.rs (filters and ranking), and the pages of   *)
(* shared/ui catalog/query.ts.  A text stands for the works it matches, a  *)
(* date is a month and a day in digits, the label of a relation is its     *)
(* place among the labels.  A value of a facet is a row of its table: its  *)
(* name without the case of ASCII letters, which is what a filter names,   *)
(* and what else tells rows apart, the spelling or the English name.  The  *)
(* index knows names without any case.                                     *)
(* A catalog is a file that nobody writes to once it is served.            *)
(***************************************************************************)
EXTENDS Naturals, Sequences, FiniteSets, TLC, SequencesExt

CONSTANTS
    Catalogs,      \* the catalogs that follow one another: a sequence of sets of works
    Relations,     \* the relations of each: sets of records [parent, child, label]
    SnapshotIds,   \* the snapshot id of each
    Values,        \* the rows of each facet group: records [name, of]
    Folded,        \* names as the index keeps them: normalize_filter
    EveryValue,    \* groups in which a work needs every selected value
    Selections,    \* facet selections the interface may send
    Orders,        \* orders and timelines it may ask for: records [sort, timeline]
    Calendars,     \* what the calendar is asked for: records [facets, timeline]
    Scopes,        \* date scopes: records [month, day], 0 without one
    Limit,         \* works of a page
    DaysIn,        \* days of a month
    MaxFacetValues,\* MAXIMUM_FACET_VALUES
    MaxContexts    \* CONTEXT_CACHE_CAPACITY

VARIABLES
    served,        \* index of the catalog that is served
    contexts,      \* the contexts its store keeps, by query
    indexed,       \* index of the catalog the search index was built of
    listing,       \* the interface's list: its query and the answers so far
    calendar,      \* the context the interface shows, with the catalog served when it asked
    finder,        \* a text search
    detail         \* the work that is opened

vars == <<served, contexts, indexed, listing, calendar, finder, detail>>

Groups == DOMAIN Values
NamesOf(rows) == {row.name : row \in rows}
Works == Catalogs[served]
NoFacets == [g \in Groups |-> [include |-> {}, exclude |-> {}]]
NoQuery == [facets |-> NoFacets, sort |-> "", timeline |-> "", month |-> 0, day |-> 0]
NoContext == [query |-> NoQuery, months |-> {}, facets |-> {}]
NoCalendar == NoContext @@ [of |-> 0]
NoListing == [query |-> NoQuery, pages |-> <<>>]
NoSearch == [at |-> "idle", facets |-> NoFacets, offset |-> 0, ranked |-> <<>>, total |-> 0,
             items |-> <<>>, moved |-> FALSE]
NoDetail == [of |-> 0, code |-> 0, values |-> <<>>, related |-> {}]

Init ==
    /\ served = 1 /\ indexed = 1 /\ contexts = {}
    /\ listing = NoListing /\ calendar = NoCalendar /\ finder = NoSearch /\ detail = NoDetail

-----------------------------------------------------------------------------
(* Requests are normalised. *)

PushUnique(values, value) ==
    IF value = "" \/ Len(values) >= MaxFacetValues \/ Contains(values, value)
    THEN values ELSE Append(values, value)

\* The exclusions are what is left of them beside the values that are included.
NormalSelection(selection) ==
    LET included == FoldLeft(PushUnique, <<>>, selection.include)
        Left(value) == ~Contains(included, value)
    IN  [include |-> ToSet(included),
         exclude |-> ToSet(FoldLeft(PushUnique, <<>>, SelectSeq(selection.exclude, Left)))]

Normalize(facets) == [g \in Groups |-> NormalSelection(facets[g])]

Query(selection, order, scope) ==
    [facets |-> Normalize(selection), sort |-> order.sort, timeline |-> order.timeline,
     month |-> scope.month, day |-> scope.day]

-----------------------------------------------------------------------------
(* What a query selects. *)

DateOf(work, timeline) ==
    IF timeline = "activity"
    THEN IF work.updated > work.added THEN work.updated ELSE work.added
    ELSE work[timeline]

Passes(work, g, selection) ==
    /\ IF g \in EveryValue THEN selection.include \subseteq NamesOf(work.values[g])
       ELSE selection.include # {} => selection.include \cap NamesOf(work.values[g]) # {}
    /\ selection.exclude \cap NamesOf(work.values[g]) = {}

FacetPredicate(work, facets, omitted) ==
    \A g \in Groups \ omitted : Passes(work, g, facets[g])

InScope(work, query) ==
    LET date == DateOf(work, query.timeline)
        first == 10 * query.month + 1
        next == 10 * (query.month + 1) + 1     \* the first day of the month that follows
        today == 10 * query.month + query.day
        tomorrow == IF query.day = DaysIn THEN next ELSE today + 1
    IN  /\ query.day # 0 => date >= today /\ date < tomorrow
        /\ query.day = 0 /\ query.month # 0 => date >= first /\ date < next

Predicate(works, query, omitted) ==
    {w \in works : FacetPredicate(w, query.facets, omitted) /\ InScope(w, query)}

\* The scope without the filters: the whole month, or the query itself without one.
UnfilteredScope(works, query) ==
    IF query.month = 0 THEN Predicate(works, query, {})
    ELSE {w \in works : InScope(w, query)}

-----------------------------------------------------------------------------
(* The order of a page: the keys of a row, smaller ones first. *)

Down(n) == 1000 - n
Flag(b) == IF b THEN 1 ELSE 0

\* (Wrong form.)  Works that are alike in the order asked for stay as they come.
SortKeysAlone(w, query) ==
    LET date == DateOf(w, query.timeline) IN
    CASE query.sort = "release_asc" /\ query.month # 0 -> <<date>>
      [] query.sort = "release_asc" -> <<Flag(w.synthetic), Flag(date = 0), date>>
      [] query.sort = "title_asc" -> <<Flag(w.synthetic), w.title>>
      [] query.sort = "title_desc" -> <<Flag(w.synthetic), Down(w.title)>>
      [] query.sort = "favorites" -> <<Flag(w.synthetic), Flag(w.fav = 0), Down(w.fav),
                                       Flag(w.added = 0), Down(w.added)>>
      [] query.sort = "code_asc" -> <<Flag(w.synthetic), w.code>>
      [] query.sort = "code_desc" -> <<Flag(w.synthetic), Down(w.code)>>
      [] query.month # 0 -> <<Down(date)>>
      [] OTHER -> <<Flag(w.synthetic), Flag(date = 0), Down(date)>>

SortKeys(w, query) ==
    SortKeysAlone(w, query)
      \o <<IF query.sort \in {"release_asc", "title_asc", "title_desc"} THEN w.code
           ELSE Down(w.code)>>

KeyBefore(a, b) ==
    \E n \in 1..Len(a) : /\ \A m \in 1..(n - 1) : a[m] = b[m]
                         /\ a[n] < b[n]

\* The orders a statement may return its rows in: those its keys allow.
RowOrders(works, query) ==
    {rows \in SetToSeqs(works) :
       \A i, j \in 1..Len(rows) :
         i < j => ~KeyBefore(SortKeys(rows[j], query), SortKeys(rows[i], query))}

PageOf(rows, offset) == SubSeq(rows, offset + 1, IF offset + Limit < Len(rows)
                                                 THEN offset + Limit ELSE Len(rows))

-----------------------------------------------------------------------------
(* Counts. *)

\* (Wrong form.)  A group's own selection narrows what is counted in it.
CountedByAll(works, query, g) == Predicate(works, query, {})

\* The works a group's values are counted over.
Counted(works, query, g) ==
    IF g \in EveryValue
    THEN Predicate(works, [query EXCEPT !.facets[g].exclude = {}], {})
    ELSE Predicate(works, query, {g})

\* A row is counted by itself, whatever other rows have its name.
CountOf(works, query, g, row) ==
    Cardinality({w \in Counted(works, query, g) : row \in w.values[g]})

\* Rows that no work has are not listed.
Facets(works, query) ==
    {f \in UNION {{[group |-> g, row |-> row, count |-> CountOf(works, query, g, row)] :
                     row \in Values[g]} : g \in Groups} : f.count > 0}

DayBuckets(works, query) ==
    IF query.month = 0 \/ query.day # 0 THEN {}
    ELSE {[day |-> d, count |-> Cardinality({w \in Predicate(works, query, {}) :
                                   DateOf(w, query.timeline) = 10 * query.month + d})] :
            d \in 1..DaysIn}

MonthBuckets(works, query) ==
    LET dated == {w \in works : /\ FacetPredicate(w, query.facets, {})
                                /\ ~w.synthetic /\ DateOf(w, query.timeline) # 0}
        Month(w) == DateOf(w, query.timeline) \div 10
    IN  {[month |-> m, count |-> Cardinality({w \in dated : Month(w) = m})] :
           m \in {Month(w) : w \in dated}}

-----------------------------------------------------------------------------
(* Browsing. *)

Answer(query, offset, rows) ==
    LET works == Predicate(Works, query, {})
        items == PageOf(rows, offset)
    IN  [offset |-> offset, items |-> items, total |-> Cardinality(works), of |-> served,
         unfiltered |-> Cardinality(UnfilteredScope(Works, query)),
         more |-> offset + Len(items) < Cardinality(works),
         facets |-> IF offset = 0 /\ query.month = 0 THEN Facets(Works, query) ELSE {},
         days |-> DayBuckets(Works, query)]

\* Bound: the interface shows one thing at a time.
Free == listing = NoListing /\ calendar = NoCalendar /\ finder = NoSearch /\ detail = NoDetail

Browse(selection, order, scope) ==
    LET query == Query(selection, order, scope) IN
    /\ Free
    /\ \E rows \in RowOrders(Predicate(Works, query, {}), query) :
         listing' = [query |-> query, pages |-> <<Answer(query, 0, rows)>>]
    /\ UNCHANGED <<served, contexts, indexed, calendar, finder, detail>>

\* nextCatalogOffset: the next page begins behind the works of the last one.
LoadMore ==
    /\ listing.pages # <<>> /\ Last(listing.pages).more
    /\ LET query == listing.query
           offset == Last(listing.pages).offset + Len(Last(listing.pages).items)
       IN  \E rows \in RowOrders(Predicate(Works, query, {}), query) :
             listing' = [listing EXCEPT !.pages = Append(@, Answer(query, offset, rows))]
    /\ UNCHANGED <<served, contexts, indexed, calendar, finder, detail>>

\* Another query, or the interface asks again after a catalog was made active.
Leave ==
    /\ ~Free /\ finder.at \in {"idle", "done"}
    /\ listing' = NoListing /\ calendar' = NoCalendar /\ finder' = NoSearch /\ detail' = NoDetail
    /\ UNCHANGED <<served, contexts, indexed>>

\* A store keeps the contexts it has answered; a full cache is emptied first.
AskContext(ask) ==
    LET query == [NoQuery EXCEPT !.facets = Normalize(ask.facets), !.timeline = ask.timeline]
        known == {c \in contexts : c.query = query}
        answer == IF known # {} THEN CHOOSE c \in known : TRUE
                  ELSE [query |-> query, months |-> MonthBuckets(Works, query),
                        facets |-> Facets(Works, query)]
    IN  /\ Free
        /\ calendar' = answer @@ [of |-> served]
        /\ contexts' = IF known # {} THEN contexts
                       ELSE (IF Cardinality(contexts) >= MaxContexts THEN {} ELSE contexts)
                            \cup {answer}
        /\ UNCHANGED <<served, indexed, listing, finder, detail>>

-----------------------------------------------------------------------------
(* Opening a work. *)

\* What a work is to one of its kin: the child of it, its parent, or its sibling.
Roles == <<"child", "parent", "sibling">>
Kin(relations, code) ==
    {[code |-> r.parent, role |-> 1, label |-> r.label] : r \in {x \in relations : x.child = code}}
    \cup {[code |-> r.child, role |-> 2, label |-> r.label] : r \in {x \in relations : x.parent = code}}
    \cup UNION {{[code |-> r.child, role |-> 3, label |-> r.label] :
                   r \in {x \in relations : x.parent = mine.parent /\ x.child # mine.child}} :
                 mine \in {x \in relations : x.child = code}}

\* Each related work once, as the first of its rows says.
RelatedWorks(relations, code) ==
    LET rows == Kin(relations, code)
        Key(row) == 10 * row.role + row.label
    IN  {row \in rows : \A other \in rows : other.code = row.code => Key(row) <= Key(other)}

OpenWork(code) ==
    /\ Free
    /\ detail' = IF \E w \in Works : w.code = code
                 THEN [of |-> served, code |-> code,
                       values |-> (CHOOSE w \in Works : w.code = code).values,
                       related |-> RelatedWorks(Relations[served], code)]
                 ELSE NoDetail
    /\ UNCHANGED <<served, contexts, indexed, listing, calendar, finder>>

-----------------------------------------------------------------------------
(* Searching: the state of the index, the codes it ranks, and then the works
   of those codes from the store. *)

\* The documents of the index, in the order they were read in.
Documents == SetToSortSeq(Catalogs[indexed], LAMBDA a, b : a.code < b.code)

\* The terms of a group in the document of a work.
Terms(work, g) == {Folded[name] : name \in NamesOf(work.values[g])}

\* (Wrong form.)  The values of a group are alternatives in the index.
AddFilterGroupAny(work, g, selection) ==
    /\ selection.include # {} => \E name \in selection.include : Folded[name] \in Terms(work, g)
    /\ \A name \in selection.exclude : Folded[name] \notin Terms(work, g)

AddFilterGroup(work, g, selection) ==
    /\ IF g \in EveryValue THEN \A name \in selection.include : Folded[name] \in Terms(work, g)
       ELSE selection.include # {} =>
              \E name \in selection.include : Folded[name] \in Terms(work, g)
    /\ \A name \in selection.exclude : Folded[name] \notin Terms(work, g)

\* Documents that match the text and the filters, the best scores first, and documents
\* with the same score in the order of the index.
Ranked(facets) ==
    LET Matches(d) == d.score > 0 /\ \A g \in Groups : AddFilterGroup(d, g, facets[g])
        found == SelectSeq(Documents, Matches)
        Better(a, b) == a.score > b.score \/ (a.score = b.score /\ a.code < b.code)
    IN  SetToSortSeq(ToSet(found), Better)

SearchStarts(selection, offset) ==
    /\ Free
    /\ IF SnapshotIds[indexed] = SnapshotIds[served]     \* Ready, and not stale
       THEN finder' = [NoSearch EXCEPT !.at = "ranking", !.facets = Normalize(selection),
                                       !.offset = offset]
       ELSE finder' = NoSearch   \* Unavailable
    /\ UNCHANGED <<served, contexts, indexed, listing, calendar, detail>>

SearchRanks ==
    /\ finder.at = "ranking"
    /\ LET ranked == Ranked(finder.facets) IN
       finder' = [finder EXCEPT !.at = "reading", !.total = Len(ranked),
                    !.ranked = [n \in DOMAIN PageOf(ranked, finder.offset) |->
                                  PageOf(ranked, finder.offset)[n].code]]
    /\ UNCHANGED <<served, contexts, indexed, listing, calendar, detail>>

\* Codes the store does not know are left out; the total stays what the index said.
SearchReads ==
    /\ finder.at = "reading"
    /\ LET Known(code) == \E w \in Works : w.code = code IN
       finder' = [finder EXCEPT !.at = "done", !.items = SelectSeq(finder.ranked, Known)]
    /\ UNCHANGED <<served, contexts, indexed, listing, calendar, detail>>

-----------------------------------------------------------------------------
(* Another catalog becomes active: its store, with no contexts yet, then its
   index (see CatalogGenerations). *)

ReplaceStore ==
    /\ served < Len(Catalogs)
    /\ served' = served + 1 /\ contexts' = {}
    /\ finder' = [finder EXCEPT !.moved = finder.at # "idle"]
    /\ UNCHANGED <<indexed, listing, calendar, detail>>

ReplaceIndex ==
    /\ indexed # served
    /\ indexed' = served
    /\ finder' = [finder EXCEPT !.moved = finder.at # "idle"]
    /\ UNCHANGED <<served, contexts, listing, calendar, detail>>

Next ==
    \/ \E s \in Selections, o \in Orders, c \in Scopes : Browse(s, o, c)
    \/ LoadMore \/ Leave
    \/ \E w \in UNION ToSet(Catalogs) : OpenWork(w.code)
    \/ \E a \in Calendars : AskContext(a)
    \/ \E s \in Selections, n \in 0..Limit : SearchStarts(s, n)
    \/ SearchRanks \/ SearchReads
    \/ ReplaceStore \/ ReplaceIndex

Spec == Init /\ [][Next]_vars

-----------------------------------------------------------------------------
(* Properties. *)

TypeOK ==
    /\ served \in 1..Len(Catalogs) /\ indexed \in 1..Len(Catalogs)
    /\ Cardinality(contexts) <= MaxContexts
    /\ \A n \in 1..Len(listing.pages) : listing.pages[n].of \in 1..served
    /\ calendar.of \in 0..served /\ detail.of \in 0..served
    /\ finder.at \in {"idle", "ranking", "reading", "done"}

Undisturbed(pages) == \A n \in 1..Len(pages) : pages[n].of = Head(pages).of

\* The pages of a query that one catalog answered list no work twice; once there is
\* no more they list every work of the query, as many as their totals say.
PagesAreTheResult ==
    Undisturbed(listing.pages) /\ listing.pages # <<>> =>
    LET pages == listing.pages
        listed == FlattenSeq([n \in DOMAIN pages |-> pages[n].items])
        selected == Predicate(Catalogs[Head(pages).of], listing.query, {})
    IN  /\ IsInjective(listed) /\ ToSet(listed) \subseteq selected
        /\ ~Last(pages).more => ToSet(listed) = selected
        /\ \A n \in DOMAIN pages : pages[n].total = Cardinality(selected)

\* What picking a name of a group gives: in a group of alternatives the name
\* instead of those picked, else the name beside them; exclusions of the group go.
PickedName(query, g, name) ==
    [query EXCEPT !.facets[g] =
       [include |-> IF g \in EveryValue THEN @.include \cup {name} ELSE {name}, exclude |-> {}]]

\* Beside the list of a query, no count is above the total of the list that picking it
\* gives, and the counts of one name together reach it: a name that one row has is
\* counted exactly.
CountsOfQuery(answer, query) ==
    \A g \in Groups : \A name \in NamesOf(Values[g]) :
      LET total == Cardinality(Predicate(Catalogs[answer.of], PickedName(query, g, name), {}))
          named == {f \in answer.facets : f.group = g /\ f.row.name = name}
      IN  /\ \A f \in named : f.count <= total
          /\ total <= FoldSet(LAMBDA f, sum : f.count + sum, 0, named)

\* The counts beside a list come true: what is counted of a value is in the list once it
\* is picked, the days of a month add up to its total, and a month of the calendar
\* counts the works that its list shows, without the synthetic ones.
CountsComeTrue ==
    /\ \A n \in DOMAIN listing.pages :
         LET page == listing.pages[n] IN
         /\ page.offset = 0 /\ listing.query.month = 0 => CountsOfQuery(page, listing.query)
         /\ listing.query.month # 0 /\ listing.query.day = 0 =>
              page.total = FoldSet(LAMBDA b, sum : b.count + sum, 0, page.days)
    /\ calendar.of # 0 =>
         /\ CountsOfQuery(calendar, calendar.query)
         /\ \A b \in calendar.months :
              b.count = Cardinality({w \in Predicate(Catalogs[calendar.of],
                                             [calendar.query EXCEPT !.month = b.month], {}) :
                                       ~w.synthetic})

\* No name of the selection is another one's to the index.
NamesApart(facets) ==
    \A g \in Groups : \A name \in facets[g].include \cup facets[g].exclude :
      \A other \in NamesOf(Values[g]) : Folded[other] = Folded[name] => other = name

\* A search that no new catalog disturbed, in an index of the catalog that is served,
\* finds what the list would show of the works the text matches: the index and the store
\* select alike wherever they tell the names of the selection apart.
SearchFindsTheList ==
    finder.at = "done" /\ ~finder.moved /\ indexed = served /\ NamesApart(finder.facets) =>
    LET matching == {w \in Works : /\ w.score > 0
                                   /\ FacetPredicate(w, finder.facets, {})}
        rest == IF finder.total > finder.offset THEN finder.total - finder.offset ELSE 0
    IN  /\ finder.total = Cardinality(matching)
        /\ IsInjective(finder.items)
        /\ ToSet(finder.items) \subseteq {w.code : w \in matching}
        /\ Len(finder.items) = IF rest < Limit THEN rest ELSE Limit

\* The works that a work names as related are others of its catalog, and name it in turn:
\* as its parent where it is the child, unless each is a parent of the other.
RelatedNamesBack ==
    detail.of # 0 =>
    LET relations == Relations[detail.of] IN
    \A kin \in detail.related :
      /\ kin.code # detail.code
      /\ \E w \in Catalogs[detail.of] : w.code = kin.code
      /\ \E back \in RelatedWorks(relations, kin.code) :
           /\ back.code = detail.code
           /\ Roles[back.role] = CASE Roles[kin.role] = "sibling" -> "sibling"
                                   [] Roles[kin.role] = "parent" -> "child"
                                   [] OTHER -> IF \E r \in relations : /\ r.parent = detail.code
                                                                       /\ r.child = kin.code
                                               THEN "child" ELSE "parent"

\* What the catalog says in different places agrees: the pages of a list with each other, its
\* counts and its calendar with its lists, its search with its filters, and works with the
\* works they are related to.
AnswersAgree == PagesAreTheResult /\ CountsComeTrue /\ SearchFindsTheList /\ RelatedNamesBack
=============================================================================
