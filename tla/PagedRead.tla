------------------------------ MODULE PagedRead ------------------------------
(***************************************************************************)
(* Reading a list of the business system page by page while it changes.    *)
(* Upstream keeps an ordered list, of which a page shows a window at the   *)
(* time of the request; documents are inserted, removed and modified       *)
(* between two pages.  The readers differ in what a page declares (a total, *)
(* a page count, a page number, ordinals) and in what they check.          *)
(***************************************************************************)
EXTENDS EndpointPolicy, FiniteSets, SequencesExt

CONSTANTS
    Docs,
    PageSize,
    MaxPages,
    Kinds,       \* the readers under consideration
    Start,       \* lists upstream may begin with
    Listed,      \* by query: the documents upstream lists for it
    Matched,     \* by query: the documents the reader takes for it
    Foreign,     \* documents of another applicant
    Hops,        \* requests upstream may redirect to
    MaxEdits,    \* bound on the changes upstream
    None

AllKinds == {"purchase", "procurement", "payment", "bizcase", "paged", "single"}
Queries == {"all", "applicant", "project", "application"}

ASSUME PagedAssumption ==
    /\ PageSize \in Nat \ {0} /\ MaxPages \in Nat \ {0} /\ MaxEdits \in Nat
    /\ Kinds \subseteq AllKinds
    /\ Start \subseteq Seq(Docs)
    /\ \A list \in Start : IsInjective(list)
    /\ Listed \in [Queries -> SUBSET Docs]
    /\ \A q \in Queries : Matched[q] \subseteq Listed[q]
    /\ Foreign \subseteq Docs
    /\ Hops \subseteq Request
    /\ None \notin Nat

VARIABLES
    upstream,   \* the list, in upstream's order
    rev,        \* the revision of each document
    stuck,      \* upstream ignores its pager and answers the first page
    edits,      \* [inserted, removed, modified] while a read is under way
    always,     \* documents listed since the read began
    wire,       \* requests that have left the process
    reader

vars == <<upstream, rev, stuck, edits, always, wire, reader>>

Item == [doc : Docs, rev : Nat]

(***************************************************************************)
(* paged: the travel application and travel subsidy lists.  single: the    *)
(* lists with one page only, daily expenses and travel reimbursements.     *)
(* declares: whether a purchase list tells its total.  parts: the results  *)
(* of the queries that are over.                                           *)
(***************************************************************************)
Reader ==
    [pc : {"idle", "reading", "returned", "incomplete", "failed", "lost",
           "refused"},
     kind : AllKinds, declares : BOOLEAN, query : 1..2,
     page : Nat, total : Nat \cup {None}, pages : Nat, size : Nat,
     items : Seq(Item), parts : Seq(Seq(Item))]

QueriesOf(kind) ==
    IF kind = "payment" THEN <<"applicant", "project">>
    ELSE IF kind = "bizcase" THEN <<"application", "all">>
    ELSE <<"all">>

Query == QueriesOf(reader.kind)[reader.query]

Init ==
    /\ upstream \in Start
    /\ rev = [d \in Docs |-> 0]
    /\ stuck \in BOOLEAN
    /\ edits = [inserted |-> 0, removed |-> 0, modified |-> 0]
    /\ always = {}
    /\ wire = {}
    /\ \E kind \in Kinds, declares \in BOOLEAN :
          /\ kind # "purchase" => declares
          /\ reader = [pc |-> "idle", kind |-> kind, declares |-> declares,
                       query |-> 1, page |-> 1, total |-> None, pages |-> 0,
                       size |-> 0, items |-> <<>>, parts |-> <<>>]

DocsOf(items) == {items[i].doc : i \in DOMAIN items}

-----------------------------------------------------------------------------
(***************************************************************************)
(* Upstream                                                                *)
(***************************************************************************)

CanEdit ==
    /\ reader.pc = "reading"
    /\ edits.inserted + edits.removed + edits.modified < MaxEdits

Enlist ==
    /\ CanEdit
    /\ \E d \in Docs \ Range(upstream), i \in 1..(Len(upstream) + 1) :
          upstream' = InsertAt(upstream, i, d)
    /\ edits' = [edits EXCEPT !.inserted = @ + 1]
    /\ UNCHANGED <<rev, stuck, always, wire, reader>>

Delist ==
    /\ CanEdit
    /\ \E i \in DOMAIN upstream :
          /\ upstream' = RemoveAt(upstream, i)
          /\ always' = always \ {upstream[i]}
    /\ edits' = [edits EXCEPT !.removed = @ + 1]
    /\ UNCHANGED <<rev, stuck, wire, reader>>

Modify ==
    /\ CanEdit
    /\ \E d \in Range(upstream) : rev' = [rev EXCEPT ![d] = @ + 1]
    /\ edits' = [edits EXCEPT !.modified = @ + 1]
    /\ UNCHANGED <<upstream, stuck, always, wire, reader>>

\* The items about these documents, in their order: the n-th is the one that
\* has n of them up to its place.
Select(items, docs) ==
    LET kept == {i \in DOMAIN items : items[i].doc \in docs}
        upto(i) == Cardinality({j \in kept : j <= i})
    IN  [n \in 1..Cardinality(kept) |->
            items[CHOOSE i \in kept : upto(i) = n]]

\* What upstream lists for a query, and how many pages that makes.
AllItems ==
    [i \in DOMAIN upstream |-> [doc |-> upstream[i], rev |-> rev[upstream[i]]]]

ListFor(query) == Select(AllItems, Listed[query])

PagesOf(list) ==
    Max({1, (Len(list) + PageSize - 1) \div PageSize})

\* A page as it is answered: its number, the declared page count and total,
\* and its rows.  The application view of BizCase has one page only.
Page(query, p) ==
    LET list == ListFor(query) IN
    IF query = "application"
    THEN [number |-> 1, pages |-> 1, total |-> Len(list), rows |-> list]
    ELSE [number |-> p, pages |-> PagesOf(list), total |-> Len(list),
          rows |-> SubSeq(list, (p - 1) * PageSize + 1,
                          Min({p * PageSize, Len(list)}))]

\* Upstream answers the page that was asked for, of a numbered list the last
\* one when there are not as many, or the first one if it ignores the pager.
Answer ==
    IF stuck THEN Page(Query, 1)
    ELSE IF reader.kind \in {"purchase", "procurement"}
    THEN Page(Query, reader.page)
    ELSE Page(Query, Min({reader.page, PagesOf(ListFor(Query))}))

-----------------------------------------------------------------------------
(***************************************************************************)
(* Requests                                                                *)
(***************************************************************************)

PathOf ==
    CASE reader.kind = "purchase" -> "pr_list"
      [] reader.kind = "procurement" -> "procurement_list"
      [] reader.kind = "payment" -> "payment_query"
      [] reader.kind = "bizcase" ->
            IF Query = "application" THEN "bizcase_view" ELSE "bizcase_query"
      [] reader.kind = "paged" -> "travel_list"
      [] OTHER -> "daily_list"

\* The request for the reader's page: the lists of procurement and payment
\* are asked for by POST, those of the web forms by GET and then by the
\* postback of their pager, which carries the rows of the page before.
PageRequest ==
    LET posts == \/ reader.kind \in {"procurement", "payment"}
                 \/ reader.page > 1
    IN [method |-> IF posts THEN "POST" ELSE "GET",
        host |-> "business", shape |-> "plain", path |-> PathOf,
        form |-> IF ~posts THEN NoForm
                 ELSE [control |-> IF reader.kind \in {"bizcase", "paged"}
                                   THEN "pager" ELSE "query",
                       filter |-> FALSE, page |-> reader.page,
                       rows |-> IF reader.page = 1 THEN 0 ELSE PageSize]]

Ends(pc) ==
    /\ reader' = [reader EXCEPT !.pc = pc]
    /\ UNCHANGED <<upstream, rev, stuck, edits, always>>

\* The part of every request before its answer.
Send ==
    /\ reader.pc = "reading"
    /\ Allowed(PageRequest)
    /\ wire' = wire \cup {PageRequest}

Begin ==
    /\ reader.pc = "idle"
    /\ reader' = [reader EXCEPT !.pc = "reading"]
    /\ always' = Range(upstream)
    /\ UNCHANGED <<upstream, rev, stuck, edits, wire>>

\* Mutant: only the first request is classified.
FollowUnguarded ==
    /\ reader.pc = "reading" /\ Allowed(PageRequest)
    /\ \E hop \in Hops : wire' = wire \cup {PageRequest, hop}
    /\ UNCHANGED <<upstream, rev, stuck, edits, always, reader>>

\* The client follows redirects, each hop through the guarded transport; what
\* comes in the end is again a page, the login page or a failure.
Follow ==
    /\ reader.pc = "reading" /\ Allowed(PageRequest)
    /\ \E hop \in Hops :
          Allowed(hop) /\ wire' = wire \cup {PageRequest, hop}
    /\ UNCHANGED <<upstream, rev, stuck, edits, always, reader>>

\* GuardedTransport raises PolicyViolation for a request that is not allowed,
\* the reader's or a hop of its redirects, and sends nothing.
Refuse ==
    /\ reader.pc = "reading"
    /\ \E r \in {PageRequest} \cup Hops :
          /\ ~Allowed(r)
          /\ wire' = wire \cup {q \in {PageRequest} : Allowed(q)}
    /\ Ends("refused")

\* The passport's login page instead of a list: PermissionError.
LoginPage == Send /\ Ends("lost")

\* An HTTP error, a time-out or a page that does not parse; or nothing is sent,
\* as the session has expired and another request has closed its client.
Fails ==
    /\ Send \/ (reader.pc = "reading" /\ UNCHANGED wire)
    /\ Ends("failed")

-----------------------------------------------------------------------------
(***************************************************************************)
(* Combining the queries of a read                                         *)
(***************************************************************************)

\* Payment: the same record may match both queries, but then it is the same.
Consistent(parts) ==
    \A x \in Range(parts[1]), y \in Range(parts[2]) :
        x.doc = y.doc => x = y

Union(parts) ==
    parts[1] \o Select(parts[2], Docs \ DocsOf(parts[1]))

\* BizCase: every application is in the query's list, with the same fields.
Visible(parts) == Range(parts[1]) \subseteq Range(parts[2])

\* A query is over, with these items.
QueryDone(items) ==
    LET taken == IF reader.kind = "payment" THEN Select(items, Matched[Query])
                 ELSE items
        parts == Append(reader.parts, taken)
        over  == Len(parts) = Len(QueriesOf(reader.kind))
        sound == /\ reader.kind = "payment" => Consistent(parts)
                 /\ reader.kind = "bizcase" => Visible(parts)
    IN  IF ~over
        THEN [reader EXCEPT !.query = @ + 1, !.page = 1, !.total = None,
                            !.pages = 0, !.size = 0, !.items = <<>>,
                            !.parts = parts]
        ELSE IF ~sound THEN [reader EXCEPT !.pc = "incomplete"]
        ELSE [reader EXCEPT !.pc = "returned", !.parts = parts,
                            !.items = CASE reader.kind = "payment" ->
                                              Union(parts)
                                        [] OTHER -> Last(parts)]

Incomplete == [reader EXCEPT !.pc = "incomplete"]

-----------------------------------------------------------------------------
(***************************************************************************)
(* list_all_purchase_requisitions and list_all_procurement_documents       *)
(***************************************************************************)

\* Mutant: pages may declare different totals.
AnyTotal(a) == reader.kind = "procurement" => a.total # None

\* Every page declares the same total, or, of a purchase list, none.
SameTotal(a) ==
    /\ reader.kind = "procurement" => a.total # None
    /\ a.total # None => reader.total \in {None, a.total}

Fresh(a) == Select(a.rows, Docs \ DocsOf(reader.items))

\* What becomes of the reader with page a: records that were seen are
\* skipped, the read is over when the total is reached, or, without a total,
\* with a page that is not full.
Counted(a) ==
    LET total == IF a.total # None THEN a.total ELSE reader.total
        items == reader.items \o Fresh(a)
        short == Len(a.rows) < PageSize
    IN  IF ~SameTotal(a) THEN Incomplete
        ELSE IF total # None /\ Len(items) > total THEN Incomplete
        ELSE IF total # None /\ Len(items) = total THEN QueryDone(items)
        ELSE IF total = None /\ a.rows = <<>> THEN QueryDone(items)
        ELSE IF Fresh(a) = <<>> THEN Incomplete
        ELSE IF total = None /\ short THEN QueryDone(items)
        ELSE IF short \/ reader.page = MaxPages THEN Incomplete
        ELSE [reader EXCEPT !.total = total, !.items = items,
                            !.page = @ + 1]

-----------------------------------------------------------------------------
(***************************************************************************)
(* _list_payment_query, list_all_bizcases and the fee lists                *)
(***************************************************************************)

\* The number of rows that a page before the last must have.
FullSize(size) == IF reader.kind = "paged" THEN PageSize ELSE size

\* A page has the number that was asked for and declares what the first did.
SameList(a, pages, total) ==
    /\ a.number = reader.page
    /\ a.pages = pages
    /\ reader.kind = "payment" => a.total = total

\* Pages are full but for the last one, which is not empty.
RowsFit(a, pages, size) ==
    /\ a.number < pages => Len(a.rows) = FullSize(size)
    /\ a.number = pages /\ pages > 1 => Len(a.rows) <= FullSize(size)
    /\ reader.kind # "payment" /\ pages > 1 => a.rows # <<>>

\* BizCase numbers its rows through; a fee list is the user's own.
RowsBelong(a) ==
    /\ reader.kind = "bizcase" /\ a.rows # <<>> =>
          (a.number - 1) * PageSize = Len(reader.items)
    /\ reader.kind \in {"paged", "single"} =>
          DocsOf(a.rows) \cap Foreign = {}

\* No record was on an earlier page.
NoRepeat(a) == DocsOf(a.rows) \cap DocsOf(reader.items) = {}

Numbered(a) ==
    LET first == reader.page = 1
        pages == IF first THEN a.pages ELSE reader.pages
        total == IF first THEN a.total ELSE reader.total
        size  == IF first THEN Len(a.rows) ELSE reader.size
        items == reader.items \o a.rows
    IN  IF \/ pages > (IF reader.kind = "single" THEN 1 ELSE MaxPages)
           \/ ~SameList(a, pages, total)
           \/ ~RowsFit(a, pages, size)
           \/ ~RowsBelong(a)
           \/ ~NoRepeat(a)
        THEN Incomplete
        ELSE IF reader.page < pages
        THEN [reader EXCEPT !.pages = pages, !.total = total, !.size = size,
                            !.items = items, !.page = @ + 1]
        ELSE IF reader.kind = "payment" /\ Len(items) # total THEN Incomplete
        ELSE QueryDone(items)

\* A page of the list arrives.
TakePage ==
    /\ Send
    /\ reader' = IF reader.kind \in {"purchase", "procurement"}
                 THEN Counted(IF reader.declares THEN Answer
                              ELSE [Answer EXCEPT !.total = None])
                 ELSE Numbered(Answer)
    /\ UNCHANGED <<upstream, rev, stuck, edits, always>>

Next ==
    \/ Enlist \/ Delist \/ Modify
    \/ Begin \/ Refuse \/ Follow \/ LoginPage \/ Fails \/ TakePage

Spec == Init /\ [][Next]_vars

-----------------------------------------------------------------------------
(***************************************************************************)
(* Properties                                                              *)
(***************************************************************************)

\* Variables hold values of their types.
TypeOK ==
    /\ upstream \in Seq(Docs)
    /\ rev \in [Docs -> Nat]
    /\ stuck \in BOOLEAN
    /\ edits \in [inserted : Nat, removed : Nat, modified : Nat]
    /\ always \subseteq Docs
    /\ wire \subseteq Request
    /\ reader \in Reader

Returned == DocsOf(reader.items)

\* The documents the read is for.
Wanted ==
    IF reader.kind = "payment"
    THEN Matched["applicant"] \cup Matched["project"]
    ELSE Listed["all"]

\* Documents that were listed throughout the read and are not returned.
Dropped == (always \cap Wanted) \ Returned

Edited == edits.inserted + edits.removed + edits.modified > 0

\* A list that is returned has no document twice.  It is exactly the list
\* upstream has when nothing changed there during the read, whatever pages
\* upstream answers with; and it drops no more documents that stayed listed
\* than were removed meanwhile, nor, where a total is declared, than were
\* inserted.  An answer that joins two queries does not hold two states of
\* one document.
ListIsSound ==
    reader.pc = "returned" =>
        /\ Cardinality(Returned) = Len(reader.items)
        /\ ~Edited => Returned = Range(upstream) \cap Wanted
        /\ Cardinality(Dropped) <= edits.removed
        /\ reader.kind \in {"procurement", "payment"} =>
              Cardinality(Dropped) <= edits.inserted
        /\ \A x, y \in UNION {Range(part) : part \in Range(reader.parts)} :
              x.doc = y.doc => x = y

\* No request that changes data leaves the process, redirects included.
OnlyReadsLeave == \A r \in wire : ~Changes(r)

\* What the client promises of every list: "Raised instead of returning a
\* list that cannot be proven complete."  It is kept only while nothing is
\* removed, or inserted where a total is declared; ListIsSound bounds what
\* is lost otherwise.
NothingDropped == reader.pc = "returned" => Dropped = {}
=============================================================================
