----------------------------- MODULE OrdersQuery -----------------------------
(***************************************************************************)
(* A client walks through the orders page by page, newest first, while     *)
(* others place orders: GET /orders (OrdersService.getAll, joined) or the  *)
(* GraphQL query orders (OrdersGqlService.getAll).                         *)
(*                                                                         *)
(* GET /orders cuts its pages out of the rows of orders LEFT JOIN          *)
(* order_items; GraphQL cuts them out of the rows of orders, and counts    *)
(* the orders in a second statement.  created_at is the start of the       *)
(* transaction that places an order, so an order may become visible after  *)
(* later ones, and two orders may share it.                                *)
(***************************************************************************)
EXTENDS Integers, FiniteSets, FiniteSetsExt

CONSTANTS
    Orders,     \* orders there are or will be
    Row,        \* userId, status and number of items of each
    Times,      \* values of created_at
    Filters,    \* filters the client may choose from
    Limits,     \* page sizes it may choose from
    MaxLimit,   \* the largest page GraphQL allows (50 in the code)
    None        \* a part of the filter left out

\* Orders loaded by src/scripts/prefill-orders.sql have no items.
ASSUME RowAssumption ==
    /\ IsFiniteSet(Orders)
    /\ \A o \in Orders : Row[o].items \in Nat

ASSUME NumbersAssumption == Times \subseteq Int /\ Limits \subseteq Int /\ MaxLimit \in Nat

VARIABLES
    createdAt,  \* orders.created_at, visible or not
    placed,     \* the orders whose transaction has committed
    joined,     \* the client uses GET /orders, as opposed to GraphQL
    pc, filter, limit, offset,      \* its query
    page,       \* the rows of the page read last
    got,        \* history: orders received so far
    again,      \* history: orders received on two pages
    atStart,    \* history: orders the filter selected when the walk began
    grown       \* history: has an order been placed since

query == <<joined, pc, filter, limit, offset, page>>
history == <<got, again, atStart, grown>>
vars == <<createdAt, placed, query, history>>

NoFilter == [userId |-> None, status |-> None, fromDate |-> None, toDate |-> None]

\* The conditions of the WHERE clause; a part left out selects every order.
Selects(f, o) ==
    /\ f.userId \in {None, Row[o].userId}
    /\ f.status \in {None, Row[o].status}
    /\ f.fromDate # None => createdAt[o] >= f.fromDate
    /\ f.toDate # None => createdAt[o] <= f.toDate

\* Mutant: reads the orders of transactions still open.
Uncommitted == {o \in Orders : Selects(filter, o)}

Selected == {o \in placed : Selects(filter, o)}

\* The rows of an order in the result: one for each item, or one without item.
RowsOf(o) == {o} \X (IF joined /\ Row[o].items > 0 THEN 1 .. Row[o].items ELSE {0})
OrdersOn(rows) == {r[1] : r \in rows}

\* What the statement selects.
Result == UNION {RowsOf(o) : o \in Selected}

\* Mutant: orderBy is forgotten.
Unordered(q, r) == FALSE

\* ORDER BY created_at DESC; rows that share it come in any order, each time anew.
Before(q, r) == createdAt[q[1]] > createdAt[r[1]]

\* What the first k rows may be.
Heads(rows, k) ==
    {S \in kSubset(Min({k, Cardinality(rows)}), rows) :
        \A r \in S : \A q \in rows \ S : ~ Before(q, r)}

\* Mutants: an offset that starts one row early or late.
OneRowEarly(rows, n, k) ==
    UNION {{T \ S : T \in {T \in Heads(rows, k + n) : S \subseteq T}} :
               S \in Heads(rows, IF k > 0 THEN k - 1 ELSE 0)}
OneRowLate(rows, n, k) ==
    UNION {{T \ S : T \in {T \in Heads(rows, k + 1 + n) : S \subseteq T}} :
               S \in Heads(rows, k + 1)}

\* LIMIT n OFFSET k.
Pages(rows, n, k) ==
    UNION {{T \ S : T \in {T \in Heads(rows, k + n) : S \subseteq T}} : S \in Heads(rows, k)}

-----------------------------------------------------------------------------
Init ==
    /\ createdAt \in [Orders -> Times]
    /\ placed \in SUBSET Orders
    /\ joined \in BOOLEAN
    /\ pc = "idle"
    /\ filter = NoFilter
    /\ limit = 1
    /\ offset = 0
    /\ page = {}
    /\ got = {}
    /\ again = {}
    /\ atStart = {}
    /\ grown = FALSE

\* A transaction of POST /orders commits.
Place(o) ==
    /\ o \notin placed
    /\ placed' = placed \union {o}
    /\ grown' = (pc # "idle")
    /\ UNCHANGED <<createdAt, query, got, again, atStart>>

\* The dto of GET /orders has @Min(1); validateFilter of GraphQL also bounds above.
Valid(n) == n >= 1 /\ (joined \/ n <= MaxLimit)

\* The client starts at the first page.  The resolver of GraphQL asks for no user.
Start(f, n) ==
    /\ pc = "idle"
    /\ joined \/ f.userId = None
    /\ filter' = f
    /\ limit' = n
    /\ pc' = IF Valid(n) THEN "page" ELSE "refused"
    /\ atStart' = {o \in placed : Selects(f, o)}
    /\ UNCHANGED <<createdAt, placed, joined, offset, page, got, again, grown>>

\* The client receives a page, and asks for the next one if there may be one.
Receive(rows, more) ==
    /\ page' = rows
    /\ got' = got \union OrdersOn(rows)
    /\ again' = again \union (got \intersect OrdersOn(rows))
    /\ pc' = IF more THEN "page" ELSE "done"
    /\ offset' = IF more THEN offset + limit ELSE offset
    /\ UNCHANGED <<createdAt, placed, joined, filter, limit, atStart, grown>>

PagesNow == IF pc = "page" THEN Pages(Result, limit, offset) ELSE {}

\* GET /orders: the rows, grouped by order; the client stops at an empty page.
GetOrders == joined /\ \E rows \in PagesNow : Receive(rows, rows # {})

\* Mutants: hasNextPage of a page that ends with the last order, or before it.
OneTooMany(total) == offset + limit <= total
OneTooFew(total) == offset + limit + 1 < total

\* hasNextPage.
HasNextPage(total) == offset + limit < total

\* getManyAndCount: the driver knows the count without asking when the page is
\* not full and is either the first or not empty.
CountKnown(rows) == Cardinality(rows) < limit /\ (rows # {} \/ offset = 0)

GetNodes == ~ joined /\ \E rows \in PagesNow :
    IF CountKnown(rows)
    THEN Receive(rows, HasNextPage(offset + Cardinality(rows)))
    ELSE /\ page' = rows
         /\ pc' = "count"
         /\ UNCHANGED <<createdAt, placed, joined, filter, limit, offset, history>>

\* The second statement counts what is there by now.
GetTotalCount ==
    /\ pc = "count"
    /\ Receive(page, HasNextPage(Cardinality(Selected)))

\* The second statement fails: 500, and the client asks for the page again.
FetchFails ==
    /\ pc = "count"
    /\ page' = {}
    /\ pc' = "page"
    /\ UNCHANGED <<createdAt, placed, joined, filter, limit, offset, history>>

Next ==
    \/ \E o \in Orders : Place(o)
    \/ \E f \in Filters, n \in Limits : Start(f, n)
    \/ GetOrders \/ GetNodes \/ GetTotalCount \/ FetchFails

Spec == Init /\ [][Next]_vars

-----------------------------------------------------------------------------
(* Correctness *)

\* Type correctness of the table and of the client's query.
TypeOK ==
    /\ createdAt \in [Orders -> Times]
    /\ placed \subseteq Orders
    /\ joined \in BOOLEAN
    /\ pc \in {"idle", "page", "count", "done", "refused"}
    /\ limit \in Int /\ offset \in Nat
    /\ OrdersOn(page) \subseteq placed
    /\ got \subseteq placed /\ again \subseteq got /\ atStart \subseteq placed
    /\ grown \in BOOLEAN

Tied(o) == \E q \in Selected \ {o} : createdAt[q] = createdAt[o]

\* A walk to its end misses no order that was there when it began, whatever is
\* placed meanwhile and whenever the count is taken; only orders that share
\* their created_at with another may slip between two pages, as the sort
\* (orders.service.ts:50, orders-gql.service.ts:48) has no second key.
SkippedOnlyOnTies ==
    pc = "done" => \A o \in atStart \ got : Tied(o)

\* An order comes twice only for a reason: another was placed since the walk
\* began, the order is tied, or its joined rows lie on two pages.
RepeatedOnlyForAReason ==
    \A o \in again : grown \/ Tied(o) \/ Cardinality(RowsOf(o)) > 1

\* When hasNextPage has announced a page (orders-gql.service.ts:53), that page
\* has orders on it, although it is read later than the count was taken.
AnnouncedPageIsThere == pc = "count" => page # {}

\* GET /orders may return an order without some of its items, since LIMIT and
\* OFFSET cut joined rows; but only the newest or the oldest of a page.
CutOnlyAtTheEdges ==
    \A o \in OrdersOn(page) :
        \/ RowsOf(o) \subseteq page
        \/ \A q \in OrdersOn(page) : createdAt[q] <= createdAt[o]
        \/ \A q \in OrdersOn(page) : createdAt[q] >= createdAt[o]
=============================================================================
